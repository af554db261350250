----------------------------- MODULE AtomicDisk -----------------------------
(***************************************************************************)
(* What log.c promises to the file system calls that use it: a disk whose  *)
(* contents survive a power failure and change only by whole groups of     *)
(* finished calls (log.c, lines 8-20).                                     *)
(*                                                                         *)
(* durable  is what a reboot brings back,                                  *)
(* current  is what bread() returns while the system runs,                 *)
(* active   are the processes between begin_op() and end_op().             *)
(*                                                                         *)
(* Log.tla is shown to implement this specification.                       *)
(***************************************************************************)
CONSTANTS Procs, Blocks, Values, InitDisk

VARIABLES durable, current, active

avars == <<durable, current, active>>

AInit ==
    /\ durable = InitDisk
    /\ current = InitDisk
    /\ active = {}

ABegin(p) ==
    /\ p \notin active
    /\ active' = active \cup {p}
    /\ UNCHANGED <<durable, current>>

AWrite(p, b, v) ==
    /\ p \in active
    /\ current' = [current EXCEPT ![b] = v]
    /\ UNCHANGED <<durable, active>>

AEnd(p) ==
    /\ p \in active
    /\ active' = active \ {p}
    /\ UNCHANGED <<durable, current>>

\* The only step that moves data to the durable disk: it moves everything, and
\* it is taken while no call is in progress.
ACommit ==
    /\ active = {}
    /\ durable' = current
    /\ UNCHANGED <<current, active>>

ACrash ==
    /\ current' = durable
    /\ active' = {}
    /\ UNCHANGED durable

ANext ==
    \/ \E p \in Procs : ABegin(p) \/ AEnd(p)
    \/ \E p \in Procs, b \in Blocks, v \in Values : AWrite(p, b, v)
    \/ ACommit
    \/ ACrash

ASpec == AInit /\ [][ANext]_avars
=============================================================================
