---------------------------- MODULE QualityChecks ----------------------------
(* The scheduler's quality checks (scheduler-service/app/core/quality.py):   *)
(* every hour, and on request, run_quality_check compares the forecasts of   *)
(* the last six hours with what came, per model version, keeps a streak of   *)
(* wins of the shadow over the primary in memory, asks for a retrain when    *)
(* the primary is bad and has the shadow promoted when the streak is long    *)
(* enough.  The interval job and POST /quality/trigger share one checker and *)
(* interleave at its awaits: the query, the retrain call, the promote call.  *)
(*                                                                           *)
(* The forecasts it reads are kept per prediction cycle: a cycle adds pairs  *)
(* for the version in each slot of the predictor, one more for each interval *)
(* that has passed since, as the steps it forecast are observed one by one.  *)
(* How a version gets into a slot is the subject of ModelPromotion; here     *)
(* retrains, uploads and operators just change the slots.                    *)
EXTENDS Naturals, FiniteSets, SequencesExt

CONSTANTS
    Version,     \* labels of model versions
    Named,       \* those of the form v{date}_{time}, which _VERSION_RE accepts
    First,       \* the version that is primary to begin with
    None,
    Check,       \* the interval job and the manual triggers
    Threshold,   \* shadow_promote_streak_threshold
    Lookback,    \* prediction cycles in the window of six hours
    MaxChecks    \* bound: how many checks are begun

ASSUME QualityAssumption ==
    /\ Named \subseteq Version
    /\ First \in Version
    /\ None \notin Version
    /\ Threshold \in Nat \ {0}
    /\ Lookback \in Nat \ {0}
    /\ MaxChecks \in Nat

VARIABLES
    slots,      \* the predictor: its primary and its shadow
    window,     \* the cycles of the last six hours, oldest first
    streak,     \* _shadow_win_streak
    champion,   \* _shadow_streak_version
    job,        \* where each check is
    verdicts,   \* history: the last Threshold verdicts, whoever reached them
    checks      \* how many checks have begun

vars == <<slots, window, streak, champion, job, verdicts, checks>>

Cycle == [primary: Version, shadow: Version \cup {None}]

IdleJob == [pc |-> "idle", pairs |-> <<>>, shadow |-> None, alert |-> FALSE]

-----------------------------------------------------------------------------
(* Splitting the pairs by version: _split_by_model_version *)

Seen(pairs) == (UNION {{c.primary, c.shadow} : c \in Range(pairs)}) \ {None}

Pairs(pairs, v) ==
    MapThenSumSet(LAMBDA i : Len(pairs) - i + 1,
                  {i \in DOMAIN pairs : v \in {pairs[i].primary, pairs[i].shadow}})

\* The rows come newest first, and max and min take the first of equals: among
\* versions with as many pairs, one seen in the newest cycle of all.
Newest(pairs, v, w) ==
    \A i \in DOMAIN pairs : w \in {pairs[i].primary, pairs[i].shadow} =>
        \E k \in DOMAIN pairs : k >= i /\ v \in {pairs[k].primary, pairs[k].shadow}

TakenForPrimary(pairs) ==
    {v \in Seen(pairs) : \A w \in Seen(pairs) :
        \/ Pairs(pairs, v) > Pairs(pairs, w)
        \/ Pairs(pairs, v) = Pairs(pairs, w) /\ Newest(pairs, v, w)}

TakenForShadow(pairs, primary) ==
    LET others == Seen(pairs) \ {primary}
    IN  IF others = {} THEN {None}
        ELSE {v \in others : \A w \in others :
                 \/ Pairs(pairs, v) < Pairs(pairs, w)
                 \/ Pairs(pairs, v) = Pairs(pairs, w) /\ Newest(pairs, v, w)}

-----------------------------------------------------------------------------
(* The environment: prediction cycles, and others who change the slots *)

PredictionCycle ==
    /\ window' = IF Len(window) < Lookback THEN Append(window, slots)
                                           ELSE Append(Tail(window), slots)
    /\ UNCHANGED <<slots, streak, champion, job, verdicts, checks>>

\* A retrain or an operator loads a shadow; an operator removes it, or the
\* predictor restarts, which forgets it.
Deploy(v) ==
    /\ slots' = [slots EXCEPT !.shadow = v]
    /\ UNCHANGED <<window, streak, champion, job, verdicts, checks>>

Promoted(v) == [primary |-> v, shadow |-> None]

\* An upload or an operator promotes.
PromoteElsewhere(v) ==
    /\ slots' = Promoted(v)
    /\ UNCHANGED <<window, streak, champion, job, verdicts, checks>>

-----------------------------------------------------------------------------
(* run_quality_check *)

\* The query returns.  No pairs at all: no_data, nothing changes.
Begin(p) ==
    /\ job[p].pc = "idle"
    /\ checks < MaxChecks
    /\ window # <<>>
    /\ checks' = checks + 1
    /\ job' = [job EXCEPT ![p].pc = "judge", ![p].pairs = window]
    /\ UNCHANGED <<slots, window, streak, champion, verdicts>>

\* Mutant: the streak goes on when another shadow appears.
NewStreak_AnyVersion(v, win) == IF win THEN streak + 1 ELSE 0

NewStreak(v, win) ==
    IF ~win THEN 0
    ELSE IF v = champion THEN streak + 1
    ELSE 1

\* Mutant: one win too early.
Reached_Early(n) == n + 1 >= Threshold

Reached(n) == n >= Threshold

Promoting(p, v, alert) == [job[p] EXCEPT !.pc = "promote", !.shadow = v, !.alert = alert]

\* The end of the check: promote, or answer.
Decide(p, v, n, alert) ==
    job' = IF v # None /\ Reached(n)
           THEN [job EXCEPT ![p] = Promoting(p, v, alert)]
           ELSE [job EXCEPT ![p] = IdleJob]

\* History: v won or lost, and only the last Threshold verdicts matter.
Recorded(v, win) ==
    LET new == Append(verdicts, [version |-> v, win |-> win])
    IN  IF Len(new) > Threshold THEN Tail(new) ELSE new

\* The verdict on shadow v, if there is one; alerts call for a retrain first.
Conclude(p, v, win, alert) ==
    /\ IF v = None
       THEN UNCHANGED <<streak, champion, verdicts>>
       ELSE /\ streak' = NewStreak(v, win)
            /\ champion' = v
            /\ verdicts' = Recorded(v, win)
    /\ IF alert
       THEN job' = [job EXCEPT ![p].pc = "retrain", ![p].shadow = v, ![p].alert = TRUE]
       ELSE Decide(p, v, streak', FALSE)

\* Everything from the query to the next await: the split, the comparison of
\* the two errors, the streak and the alerts.
Judge(p) ==
    /\ job[p].pc = "judge"
    /\ \E primary \in TakenForPrimary(job[p].pairs) :
       \E v \in TakenForShadow(job[p].pairs, primary), win, alert \in BOOLEAN :
          Conclude(p, v, win, alert)
    /\ UNCHANGED <<slots, window, checks>>

\* _trigger_retrain has returned, whatever came of it; the streak is read now.
Retrained(p) ==
    /\ job[p].pc = "retrain"
    /\ Decide(p, job[p].shadow, streak, TRUE)
    /\ UNCHANGED <<slots, window, streak, champion, verdicts, checks>>

\* Mutant: the streak outlives the promotion.
Settle_KeepsStreak == streak' = streak /\ champion' = None

\* A promotion that was answered with 200 ends the streak.
Settle == streak' = 0 /\ champion' = None

\* _trigger_shadow_promote: answered, done with the answer lost, or failed.
\* A label of another form is refused before anything is sent.
TriggerPromote(p) ==
    /\ job[p].pc = "promote"
    /\ \/ job[p].shadow \in Named /\ slots' = Promoted(job[p].shadow) /\ Settle
       \/ job[p].shadow \in Named /\ slots' = Promoted(job[p].shadow)
                                  /\ UNCHANGED <<streak, champion>>
       \/ UNCHANGED <<slots, streak, champion>>
    /\ job' = [job EXCEPT ![p] = IdleJob]
    /\ UNCHANGED <<window, verdicts, checks>>

\* The scheduler restarts: the streak was in memory only.
Restart ==
    /\ streak' = 0 /\ champion' = None
    /\ job' = [p \in Check |-> IdleJob]
    /\ UNCHANGED <<slots, window, verdicts, checks>>

-----------------------------------------------------------------------------
(* Specification *)

Init ==
    /\ slots = [primary |-> First, shadow |-> None]
    /\ window = <<>>
    /\ streak = 0
    /\ champion = None
    /\ job = [p \in Check |-> IdleJob]
    /\ verdicts = <<>>
    /\ checks = 0

Next ==
    \/ PredictionCycle
    \/ \E v \in Named \cup {None} : Deploy(v)
    \/ \E v \in Named : PromoteElsewhere(v)
    \/ \E p \in Check : Begin(p) \/ Judge(p) \/ Retrained(p) \/ TriggerPromote(p)
    \/ Restart

Spec == Init /\ [][Next]_vars

-----------------------------------------------------------------------------
(* Properties *)

TypeOK ==
    /\ slots \in Cycle
    /\ window \in Seq(Cycle) /\ Len(window) <= Lookback
    /\ streak \in Nat
    /\ champion \in Version \cup {None}
    /\ champion = None => streak = 0
    /\ job \in [Check -> [pc: {"idle", "judge", "retrain", "promote"}, pairs: Seq(Cycle),
                          shadow: Version \cup {None}, alert: BOOLEAN]]
    /\ verdicts \in Seq([version: Version, win: BOOLEAN]) /\ Len(verdicts) <= Threshold
    /\ checks \in Nat

\* The last n verdicts were all wins of v.
WonInARow(v, n) ==
    /\ n <= Len(verdicts)
    /\ \A i \in (Len(verdicts) - n + 1)..Len(verdicts) : verdicts[i] = [version |-> v, win |-> TRUE]

\* The streak never counts more than the wins in a row of the very version it
\* names, however checks, promotions and restarts interleave (quality.py:3-6).
StreakIsEarned ==
    WonInARow(champion, IF streak < Threshold THEN streak ELSE Threshold)

\* A check that raised no alert asks for a promotion only on the strength of
\* Threshold wins in a row of the version it promotes, among all checks.
PromotesProvenWinner ==
    [][\A p \in Check, v \in Version :
          (job[p].pc # "promote" /\ job'[p] = Promoting(p, v, FALSE)) =>
              WonInARow(v, Threshold)']_vars

\* When the newest cycle ran a shadow, and its primary has more pairs than any
\* other version, the version whose wins count is that shadow: the most
\* recently deployed one (quality.py:59-63).
JudgesTheShadow ==
    \A p \in Check :
        LET newest == Last(job[p].pairs)
        IN  (/\ job[p].pc \in {"retrain", "promote"}
             /\ newest.shadow \notin {None, newest.primary}
             /\ \A v \in Seen(job[p].pairs) \ {newest.primary} :
                   Pairs(job[p].pairs, v) < Pairs(job[p].pairs, newest.primary))
            => job[p].shadow = newest.shadow
=============================================================================
