-------------------------------- MODULE Tunnel -------------------------------
(***************************************************************************)
(* The cloudflared process of a host (tunnel.cpp, the POSIX half), as      *)
(* operators over a record t:                                              *)
(*   child    the process: none, running, told to terminate, or a zombie   *)
(*   pid      whether the process is ours to stop (impl_->pid)             *)
(*   reader   the thread that reads its output: none, reading, or ended    *)
(*            and not joined                                               *)
(*   stop     stop_flag, which the reader looks at between two reads       *)
(*   code     whether a host name has been found in the output             *)
(* Stopping it is a sequence of blocking steps of the caller.              *)
(***************************************************************************)
EXTENDS FiniteSets

NoTunnel == [child |-> "NONE", pid |-> FALSE, reader |-> "NONE",
             stop |-> TRUE, code |-> FALSE]

Tunnels == [child : {"NONE", "RUNNING", "TERMINATING", "ZOMBIE"},
            pid : BOOLEAN, reader : {"NONE", "READING", "ENDED"},
            stop : BOOLEAN, code : BOOLEAN]

(* start, after stop: the process is forked and its output is read.  That  *)
(* cloudflared cannot be executed shows only in the end of the process.    *)
Started == [child |-> "RUNNING", pid |-> TRUE, reader |-> "READING",
            stop |-> FALSE, code |-> FALSE]

(* The child prints its URL; the reader finds the host name in it.         *)
CanPrint(t) == t.child \in {"RUNNING", "TERMINATING"} /\ t.reader = "READING"
Printed(t) == [t EXCEPT !.code = TRUE]

(* The child ends, by itself or because it is told to.                     *)
CanDie(t) == t.child \in {"RUNNING", "TERMINATING"}
Dead(t) == [t EXCEPT !.child = "ZOMBIE"]

(* The reader sees the end of the output of a child that has ended, or the *)
(* flag.                                                                   *)
CanEnd(t) == t.reader = "READING" /\ (t.child = "ZOMBIE" \/ t.stop)
Ended(t) == [t EXCEPT !.reader = "ENDED"]

(* A mutated form: the child is not told to terminate.                     *)
NotKilled(t) == [t EXCEPT !.stop = TRUE]

(* stop, first step: SIGTERM.                                              *)
Killed(t) ==
  [t EXCEPT !.stop = TRUE,
            !.child = IF t.pid /\ @ = "RUNNING" THEN "TERMINATING" ELSE @]

(* Second step: the reader is joined, which blocks while it reads.         *)
CanJoin(t) == t.reader # "READING"
Joined(t) == [t EXCEPT !.reader = "NONE"]

(* Last step: the process is waited for, and its host name forgotten.      *)
CanReap(t) == t.pid => t.child = "ZOMBIE"
Reaped(t) == [t EXCEPT !.child = "NONE", !.pid = FALSE, !.code = FALSE]
=============================================================================
