---------------------------- MODULE PanelControls ----------------------------
(***************************************************************************)
(* The controls of one bot in the panels of several dashboards: the kill   *)
(* switch with its confirmation, the config form, pausing and hedging of   *)
(* pairs.  Each sends a POST the web server validates and forwards to the  *)
(* bot; a panel sees the bot's state some time later (see PanelData).      *)
(*                                                                         *)
(* A config gives every pair one decimal field and its enabled flag.       *)
(***************************************************************************)
EXTENDS Integers, Sequences

CONSTANTS
    Operators,      \* dashboards with the panel of the bot on display
    Pairs,
    Decimals,       \* what the decimal field may hold
    Invalid,        \* text that decimalStringSchema refuses
    StartDecimal,
    ControlPlans,   \* bounds: requests of each kind, fields edited, answers shown,
                    \* tabs switched, requests that fail, restarts of the bot
    Unknown         \* null, undefined

VARIABLES
    settings,   \* the bot: config, kill switch, paused pairs
    panels,     \* dashboard -> its panel
    clicks,     \* the requests, in the order they were sent
    allowed,    \* what is left of the plan
    restarted   \* history: the bot was started again

controlVars == <<settings, panels, clicks, allowed, restarted>>

-----------------------------------------------------------------------------
PairConfig == [decimal : Decimals, enabled : BOOLEAN]

DefaultSettings ==
    [config |-> [p \in Pairs |-> [decimal |-> StartDecimal, enabled |-> TRUE]],
     killed |-> FALSE, paused |-> {}]

\* A panel that is mounted: what it shows of the bot, the fields edited in its
\* form (pairOverrides), the confirmation, the pair of its last action
\* (pairActionMutation.variables), and, as history, what the operator edited.
NewPanel(shown) == [shown |-> shown, overrides |-> <<>>, confirming |-> FALSE,
                    pendingPair |-> Unknown, edited |-> {}]

ControlInit ==
    /\ \E killed \in BOOLEAN : settings = [DefaultSettings EXCEPT !.killed = killed]
    /\ restarted = FALSE
    /\ panels = [d \in Operators |-> NewPanel(Unknown)]
    /\ clicks = <<>>
    /\ allowed \in ControlPlans

Allow(what) ==
    /\ allowed[what] > 0
    /\ allowed' = [allowed EXCEPT ![what] = @ - 1]

\* A mutation of the panel as it is mounted now is pending.
Pending(d, kind) ==
    \E i \in DOMAIN clicks : /\ clicks[i].by = d /\ clicks[i].kind = kind
                             /\ clicks[i].status \in {"sent", "applied"}
                             /\ ~clicks[i].abandoned

Click(d, kind, body) ==
    /\ Allow(kind)
    /\ clicks' = Append(clicks, [by |-> d, kind |-> kind, body |-> body,
                                 status |-> "sent", abandoned |-> FALSE,
                                 seen |-> panels[d].shown,
                                 edited |-> panels[d].edited])

-----------------------------------------------------------------------------
(* The panels *)

\* An answer of GET /api/quotes is shown.
ShowAnswer(d) ==
    /\ panels[d].shown # settings
    /\ panels' = [panels EXCEPT ![d].shown = settings]
    /\ Allow("answers")
    /\ UNCHANGED <<settings, clicks, restarted>>

\* Faulty variant of ButtonDisabled: a pending toggle does not disable it.
ButtonEnabledWhilePending(d) == panels[d].shown = Unknown

\* deriveKillSwitchUiState
ButtonDisabled(d) == Pending(d, "kill") \/ panels[d].shown = Unknown

\* The kill switch button: disengage at once, engage after a confirmation.
ToggleKillSwitch(d) ==
    /\ ~ButtonDisabled(d) /\ ~panels[d].confirming
    /\ IF panels[d].shown.killed
       THEN Click(d, "kill", FALSE) /\ UNCHANGED panels
       ELSE /\ panels' = [panels EXCEPT ![d].confirming = TRUE]
            /\ UNCHANGED <<clicks, allowed>>
    /\ UNCHANGED <<settings, restarted>>

EngageKillSwitch(d) ==
    /\ panels[d].confirming
    /\ panels' = [panels EXCEPT ![d].confirming = FALSE]
    /\ Click(d, "kill", TRUE)
    /\ UNCHANGED <<settings, restarted>>

CloseConfirm(d) ==
    /\ panels[d].confirming
    /\ panels' = [panels EXCEPT ![d].confirming = FALSE]
    /\ UNCHANGED <<settings, clicks, allowed, restarted>>

\* Faulty variant of Overridden: an edit stages the whole row of the pair.
OverriddenRow(d, p, field, value) ==
    [q \in DOMAIN panels[d].overrides \cup {<<p, "decimal">>, <<p, "enabled">>} |->
        IF q = <<p, field>> THEN value
        ELSE IF q \in DOMAIN panels[d].overrides THEN panels[d].overrides[q]
        ELSE panels[d].shown.config[p][q[2]]]

\* updatePair
Overridden(d, p, field, value) ==
    [q \in DOMAIN panels[d].overrides \cup {<<p, field>>} |->
        IF q = <<p, field>> THEN value ELSE panels[d].overrides[q]]

UpdatePair(d, p, field, value) ==
    /\ panels[d].shown # Unknown /\ ~panels[d].confirming
    /\ Overridden(d, p, field, value) # panels[d].overrides
    /\ panels' = [panels EXCEPT ![d].overrides = Overridden(d, p, field, value),
                                ![d].edited = @ \cup {<<p, field>>}]
    /\ Allow("edits")
    /\ UNCHANGED <<settings, clicks, restarted>>

\* What the form shows and saves: the edits over the config the bot has.
Draft(d) ==
    LET Field(p, field) ==
            IF <<p, field>> \in DOMAIN panels[d].overrides
            THEN panels[d].overrides[<<p, field>>] ELSE panels[d].shown.config[p][field]
    IN [p \in Pairs |-> [decimal |-> Field(p, "decimal"), enabled |-> Field(p, "enabled")]]

\* The edits stay after the config was saved.
SaveConfig(d) ==
    /\ panels[d].shown # Unknown /\ ~panels[d].confirming
    /\ ~Pending(d, "config")
    /\ Click(d, "config", Draft(d))
    /\ UNCHANGED <<settings, panels, restarted>>

IsBusy(d, p) == panels[d].pendingPair = p

\* Pause Pair, Resume Pair and Manual Hedge.
PairAction(d, p, kind) ==
    /\ panels[d].shown # Unknown /\ ~panels[d].confirming
    /\ ~IsBusy(d, p)
    /\ panels' = [panels EXCEPT ![d].pendingPair = p]
    /\ Click(d, kind, [pair |-> p, paused |-> p \notin panels[d].shown.paused])
    /\ UNCHANGED <<settings, restarted>>

\* The tab of another bot and this one's again: a new panel, with the data the
\* query cache kept.
SwitchTab(d) ==
    /\ panels[d] # NewPanel(panels[d].shown) \/ \E kind \in {"kill", "config"} : Pending(d, kind)
    /\ panels' = [panels EXCEPT ![d] = NewPanel(@.shown)]
    /\ clicks' = [i \in DOMAIN clicks |->
                     IF clicks[i].by = d THEN [clicks[i] EXCEPT !.abandoned = TRUE]
                     ELSE clicks[i]]
    /\ Allow("switches")
    /\ UNCHANGED <<settings, restarted>>

-----------------------------------------------------------------------------
(* The web server and the bot *)

\* mmConfigSchema
Valid(config) == \A p \in Pairs : config[p].decimal # Invalid

\* update_config, kill_switch, pause_pair; a hedge changes no setting.
After(click) ==
    CASE click.kind = "config" ->
            [settings EXCEPT !.config = click.body,
                             !.paused = {p \in Pairs : ~click.body[p].enabled}]
      [] click.kind = "kill" -> [settings EXCEPT !.killed = click.body]
      [] click.kind = "pause" ->
            [settings EXCEPT !.paused = IF click.body.paused THEN @ \cup {click.body.pair}
                                        ELSE @ \ {click.body.pair}]
      [] OTHER -> settings

\* The request is validated and forwarded; "stray" has failed in the dashboard.
Forward(i) ==
    LET click == clicks[i] IN
    /\ click.status \in {"sent", "stray"}
    /\ IF click.kind = "config" /\ ~Valid(click.body)
       THEN /\ clicks' = [clicks EXCEPT ![i].status = "refused"]
            /\ UNCHANGED settings
       ELSE /\ settings' = After(click)
            /\ clicks' = [clicks EXCEPT
                   ![i].status = IF click.status = "sent" THEN "applied" ELSE "failed"]
    /\ UNCHANGED <<panels, allowed, restarted>>

EndClick(i) ==
    /\ clicks[i].status = "applied"
    /\ clicks' = [clicks EXCEPT ![i].status = "done"]
    /\ UNCHANGED <<settings, panels, allowed, restarted>>

\* The connection to the web server breaks: the request never gets there, or may
\* still be forwarded; the answer of an applied one is lost.
FailClick(i) ==
    /\ clicks[i].status \in {"sent", "applied"}
    /\ \E status \in {"failed"} \cup (IF clicks[i].status = "sent" THEN {"stray"} ELSE {}) :
          clicks' = [clicks EXCEPT ![i].status = status]
    /\ Allow("faults")
    /\ UNCHANGED <<settings, panels, restarted>>

\* The bot is started again, or all data is reset.
RestartBot ==
    /\ settings' = DefaultSettings
    /\ restarted' = TRUE
    /\ Allow("restarts")
    /\ UNCHANGED <<panels, clicks>>

ControlNext ==
    \/ \E d \in Operators :
          \/ ShowAnswer(d)
          \/ ToggleKillSwitch(d) \/ EngageKillSwitch(d) \/ CloseConfirm(d)
          \/ \E p \in Pairs :
                \/ \E value \in Decimals \cup {Invalid} : UpdatePair(d, p, "decimal", value)
                \/ \E value \in BOOLEAN : UpdatePair(d, p, "enabled", value)
                \/ PairAction(d, p, "pause") \/ PairAction(d, p, "hedge")
          \/ SaveConfig(d)
          \/ SwitchTab(d)
    \/ \E i \in DOMAIN clicks : Forward(i) \/ EndClick(i) \/ FailClick(i)
    \/ RestartBot

ControlSpec == ControlInit /\ [][ControlNext]_controlVars

-----------------------------------------------------------------------------
(* Properties *)

Toggles == {i \in DOMAIN clicks : clicks[i].kind = "kill"}

\* The kill switch is what the operator asked for last, once that was confirmed:
\* unless another dashboard toggled it too, a request failed, the panel was left
\* while one was under way, or the bot was restarted.
KillSwitchObeyed ==
    \A i \in Toggles :
        /\ clicks[i].status = "done"
        /\ \A j \in Toggles : /\ clicks[j].by = clicks[i].by /\ j <= i
                              /\ clicks[j].status # "failed" /\ clicks[j].status # "stray"
                              /\ ~clicks[j].abandoned
        /\ ~restarted
        => settings.killed = clicks[i].body

\* Saving a config undoes nothing the operator could see: a field changes only
\* if it was edited in that panel, or if it changed after the panel was shown it.
SavesOwnEdits ==
    [][\A i \in DOMAIN clicks :
          clicks[i].kind = "config" /\ settings' # settings
          /\ clicks'[i].status # clicks[i].status =>
              \A p \in Pairs, field \in {"decimal", "enabled"} :
                  settings'.config[p][field] # settings.config[p][field] =>
                      \/ <<p, field>> \in clicks[i].edited
                      \/ clicks[i].seen.config[p][field] # settings.config[p][field]
      ]_controlVars

\* "Submitting...": a pair whose buttons say so has a request under way.
SubmittingIsUnderWay ==
    \A d \in Operators, p \in Pairs :
        IsBusy(d, p) =>
            \E i \in DOMAIN clicks : /\ clicks[i].by = d
                                     /\ clicks[i].kind \in {"pause", "hedge"}
                                     /\ clicks[i].body.pair = p
                                     /\ clicks[i].status \in {"sent", "applied"}

=============================================================================
