--------------------------- MODULE RequestLifecycle ---------------------------
(***************************************************************************)
(* What the transfer tool promises of each transfer: it is given to FTS    *)
(* once per attempt, the result of an attempt is never reversed, and only  *)
(* after an attempt that failed, or got lost, is there another one.        *)
(***************************************************************************)
EXTENDS Integers

CONSTANTS Transfer, MaxAttempts

VARIABLES
    phase,   \* of the latest attempt at each transfer
    tries    \* attempts so far

lifecycleVars == <<phase, tries>>

Phase == {"waiting", "given", "lost", "failed", "done", "closed"}

LifecycleInit ==
    /\ phase \in [Transfer -> {"waiting", "closed"}]
    /\ tries = [t \in Transfer |-> 1]

\* The transfers of a job, or of a path, move together; the others stay.
Move(ts, from, to) ==
    /\ \A t \in ts : phase[t] \in from /\ phase'[t] \in to
    /\ \A t \in Transfer \ ts : phase'[t] = phase[t]

Give(ts) == Move(ts, {"waiting"}, {"given"}) /\ UNCHANGED tries

\* What was given can get lost, and what is lost does not end after all.
Lose(ts) == Move(ts, {"waiting", "given"}, {"lost"}) /\ UNCHANGED tries
Settle(ts) == Move(ts, {"given"}, {"failed", "done"}) /\ UNCHANGED tries

TryAgain(ts) ==
    /\ \E t \in ts : phase[t] # "done"
    /\ \A t \in ts : tries[t] < MaxAttempts
    /\ Move(ts, {"lost", "failed", "done"}, {"waiting"})
    /\ tries' = [t \in Transfer |-> IF t \in ts THEN tries[t] + 1 ELSE tries[t]]

CloseAll(ts) == Move(ts, {"lost", "failed", "done"}, {"closed"}) /\ UNCHANGED tries

LifecycleNext ==
    \E ts \in SUBSET Transfer :
        Give(ts) \/ Lose(ts) \/ Settle(ts) \/ TryAgain(ts) \/ CloseAll(ts)

LifecycleSpec == LifecycleInit /\ [][LifecycleNext]_lifecycleVars
===============================================================================
