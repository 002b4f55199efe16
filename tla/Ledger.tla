------------------------------- MODULE Ledger -------------------------------
(***************************************************************************)
(* What becomes of an order a bot sends, and of what the exchange makes of  *)
(* it, with the tick loop, the handlers and their scheduling left out.     *)
(* Engine implements this specification: an order is executed once or not  *)
(* at all, an answered execution is booked once or given up with its       *)
(* request, and what is booked shrinks only on record.                     *)
(*                                                                         *)
(* An order of a tick is booked with the others of its batch, one sent by  *)
(* hand by itself.                                                         *)
(***************************************************************************)
EXTENDS Integers, FiniteSets, Functions

CONSTANT Accounts    \* a pair each

VARIABLES
    out,        \* orders at the exchange: [manual, id, account, amount], amount signed
    executed,   \* orders answered as filled, not booked yet
    book,       \* per account: what the bot believes it holds
    position,   \* per account: what it holds at the exchange
    writtenOff  \* per account: the part of position the bot will never book

vars == <<out, executed, book, position, writtenOff>>

Total(a, O) ==
    SumFunctionOnSet([o \in O |-> o.amount], {o \in O : o.account = a})

Add(f, o) == [f EXCEPT ![o.account] = @ + o.amount]

Init ==
    /\ out = {}
    /\ executed = {}
    /\ book = [a \in Accounts |-> 0]
    /\ position = [a \in Accounts |-> 0]
    /\ writtenOff = [a \in Accounts |-> 0]

\* Any number of orders that are new.
Ask ==
    /\ out \subseteq out'
    /\ IsFiniteSet(out')
    /\ \A o \in out' \ out : /\ o \notin executed
                             /\ o.account \in Accounts
                             /\ o.amount \in Int \ {0}
    /\ UNCHANGED <<executed, book, position, writtenOff>>

\* Answered as not filled, or never executed and never answered.
Refuse(o) ==
    /\ o \in out
    /\ out' = out \ {o}
    /\ UNCHANGED <<executed, book, position, writtenOff>>

Fill(o) ==
    /\ o \in out
    /\ out' = out \ {o}
    /\ executed' = executed \cup {o}
    /\ position' = Add(position, o)
    /\ UNCHANGED <<book, writtenOff>>

\* Executed, and the answer is lost.
Miss(o) ==
    /\ o \in out
    /\ out' = out \ {o}
    /\ position' = Add(position, o)
    /\ writtenOff' = Add(writtenOff, o)
    /\ UNCHANGED <<executed, book>>

Batch == {o \in executed : ~o.manual}

\* From nothing up to all of n, on the same side.
UpTo(n) == IF n < 0 THEN n .. 0 ELSE 0 .. n

\* A payload books the batch, all of it or none, and may shrink what is then
\* in the book.
Settle ==
    \E B \in {{}, Batch} :
        /\ executed' = executed \ B
        /\ book' \in [Accounts -> Int]
        /\ writtenOff' \in [Accounts -> Int]
        /\ \A a \in Accounts :
              LET booked == book[a] + Total(a, B)
              IN  /\ book'[a] \in UpTo(booked)
                  /\ writtenOff'[a] = writtenOff[a] + booked - book'[a]
        /\ UNCHANGED <<out, position>>

\* An order sent by hand is booked as it was executed, whatever is in the book.
Enter(o) ==
    /\ o \in executed
    /\ o.manual
    /\ executed' = executed \ {o}
    /\ book' = Add(book, o)
    /\ UNCHANGED <<out, position, writtenOff>>

\* The request is gone before its answer is booked.
GiveUp(o) ==
    /\ o \in executed
    /\ o.manual
    /\ executed' = executed \ {o}
    /\ writtenOff' = Add(writtenOff, o)
    /\ UNCHANGED <<out, book, position>>

\* A reset empties the book of the accounts the bot knows.
Clear ==
    \E A \in SUBSET Accounts :
        /\ book' = [a \in Accounts |-> IF a \in A THEN 0 ELSE book[a]]
        /\ writtenOff' = [a \in Accounts |->
                             IF a \in A THEN writtenOff[a] + book[a] ELSE writtenOff[a]]
        /\ UNCHANGED <<out, executed, position>>

Next ==
    \/ Ask
    \/ \E o \in out : Refuse(o) \/ Fill(o) \/ Miss(o)
    \/ Settle
    \/ \E o \in executed : Enter(o) \/ GiveUp(o)
    \/ Clear

Spec == Init /\ [][Next]_vars

-----------------------------------------------------------------------------
(* Properties *)

\* Every variable has its type, and no order is executed and still out.
TypeOK ==
    /\ IsFiniteSet(out) /\ IsFiniteSet(executed)
    /\ out \cap executed = {}
    /\ \A o \in out \cup executed : o.account \in Accounts /\ o.amount \in Int \ {0}
    /\ book \in [Accounts -> Int]
    /\ position \in [Accounts -> Int]
    /\ writtenOff \in [Accounts -> Int]

\* Nothing is held that is neither booked, to be booked, nor written off.
Balanced ==
    \A a \in Accounts : position[a] = book[a] + Total(a, executed) + writtenOff[a]

=============================================================================
