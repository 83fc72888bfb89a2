--------------------------- MODULE InstanceLifecycle ---------------------------
(***************************************************************************)
(* What Teapot promises about the StoRM-WebDAV instance of each local      *)
(* user, whatever the requests, the reaper and the restarts do: the four   *)
(* phases are entered in one cyclic order, at most one request at a time   *)
(* owns a start, only that request may finish it, and the instance is      *)
(* advertised (there is a session entry with a process id behind it)       *)
(* throughout RUNNING and never in STOPPING.                               *)
(*                                                                         *)
(* It abstracts storm_webdav_state and _stop_webdav_instance of            *)
(* src/patches/teapot/teapot.py; Teapot.tla is shown to implement it.      *)
(***************************************************************************)
CONSTANTS User, Request,
          NoRequest       \* "nobody": not a member of Request

VARIABLES phase,          \* phase[u]: the state of u's instance
          starter,        \* starter[u]: the request that owns the start of u's instance
          advertised      \* advertised[u]: u has a session entry with a process id

lifecycleVars == <<phase, starter, advertised>>

LifecyclePhase == {"NOT RUNNING", "STARTING", "RUNNING", "STOPPING"}

LifecycleTypeOK ==
    /\ phase \in [User -> LifecyclePhase]
    /\ starter \in [User -> Request \cup {NoRequest}]
    /\ advertised \in [User -> BOOLEAN]

LifecycleInit ==
    /\ phase = [u \in User |-> "NOT RUNNING"]
    /\ starter = [u \in User |-> NoRequest]
    /\ advertised = [u \in User |-> FALSE]

--------------------------------------------------------------------------------
(* Request r finds no instance of u and becomes the owner of its start.    *)
Claim(u, r) ==
    /\ phase[u] = "NOT RUNNING"
    /\ phase' = [phase EXCEPT ![u] = "STARTING"]
    /\ starter' = [starter EXCEPT ![u] = r]
    /\ UNCHANGED advertised

(* The owner has seen the instance answer and publishes it.                *)
Commit(u) ==
    /\ phase[u] = "STARTING" /\ starter[u] # NoRequest
    /\ phase' = [phase EXCEPT ![u] = "RUNNING"]
    /\ starter' = [starter EXCEPT ![u] = NoRequest]
    /\ advertised' = [advertised EXCEPT ![u] = TRUE]

(* The owner gives the start up: anybody may claim it again.               *)
GiveUpStart(u) ==
    /\ phase[u] = "STARTING" /\ starter[u] # NoRequest
    /\ phase' = [phase EXCEPT ![u] = "NOT RUNNING"]
    /\ starter' = [starter EXCEPT ![u] = NoRequest]
    /\ advertised' = [advertised EXCEPT ![u] = FALSE]

(* The owner fails with an error nobody handles: STARTING has no owner.    *)
Abandon(u) ==
    /\ phase[u] = "STARTING" /\ starter[u] # NoRequest
    /\ starter' = [starter EXCEPT ![u] = NoRequest]
    /\ UNCHANGED <<phase, advertised>>

(* The session is taken back; a running instance is then being stopped.    *)
Withdraw(u) ==
    /\ phase' = [phase EXCEPT ![u] = IF @ = "RUNNING" THEN "STOPPING" ELSE @]
    /\ advertised' = [advertised EXCEPT ![u] = FALSE]
    /\ UNCHANGED starter

(* The instance being stopped has been told to terminate.                  *)
Stopped(u) ==
    /\ phase[u] = "STOPPING"
    /\ phase' = [phase EXCEPT ![u] = "NOT RUNNING"]
    /\ UNCHANGED <<starter, advertised>>

(* Teapot itself goes away, and comes back with the sessions it had saved. *)
Reset == LifecycleInit'

Reload ==
    /\ \A u \in User : phase[u] = "NOT RUNNING"
    /\ advertised' \in [User -> BOOLEAN]
    /\ UNCHANGED <<phase, starter>>

LifecycleNext ==
    \/ \E u \in User :
          \/ \E r \in Request : Claim(u, r)
          \/ Commit(u)
          \/ GiveUpStart(u)
          \/ Abandon(u)
          \/ Withdraw(u)
          \/ Stopped(u)
    \/ Reset
    \/ Reload

LifecycleSpec == LifecycleInit /\ [][LifecycleNext]_lifecycleVars
=============================================================================
