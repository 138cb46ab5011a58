------------------------------- MODULE Server -------------------------------
(***************************************************************************)
(* The server process (app/server/main.go): it mounts the workspace,       *)
(* listens, serves the streams of daemons and terminals, and shuts down on *)
(* a signal, gracefully for a while and then by force.  The mount is       *)
(* closed by whoever comes first, a goroutine that waits for the signal    *)
(* (pkg/fusefs/mount_linux.go) or the way out; only the first close does   *)
(* anything, and it fails while a process works in the mount.              *)
(*                                                                         *)
(* A stream passes the recovery and the authentication interceptor; a      *)
(* terminal takes the user's slot, passes the attach limiter and then runs *)
(* an agent in the mounted workspace, whose input passes the input limiter.*)
(* What sessions do is in Session and Pty; that a terminal's handler may   *)
(* never return (HeldUp of Pty) is the stage "stuck" here.  There is one   *)
(* user.                                                                   *)
(***************************************************************************)
EXTENDS Limiter

CONSTANTS
  Terminals,   \* the streams that are terminals; the other ones are daemons
  InputUnits,  \* bytes of an input frame
  OtherUsers   \* whether other processes than the agents may work in the mount

Streams == Waiters

ASSUME ServerAssumption ==
  /\ Terminals \subseteq Waiters
  /\ Buckets = {"attach", "input"}
  /\ InputUnits \in Nat \ {0}
  /\ OtherUsers \in BOOLEAN

VARIABLES
  main,      \* where runPreparedServer is
  signalled, \* the context is done
  mount,     \* "none", "mounted", "gone"
  once,      \* the sync.Once of the mount: "unused", "used"
  watcher,   \* the goroutine of Mount: "off", "on", "ended"
  graceful,  \* GracefulStop: "no", "draining", "done"
  forced,    \* Stop was called
  stage,     \* where each stream is
  bucket,    \* the limiter it is at
  agent      \* whether its agent runs

procVars == <<main, signalled, mount, once, watcher, graceful, forced>>
streamVars == <<stage, bucket, agent>>
vars == <<procVars, streamVars, limitVars>>

Init ==
  /\ LimiterInit
  /\ main = "mount"
  /\ signalled = FALSE
  /\ mount = "none" /\ once = "unused" /\ watcher = "off"
  /\ graceful = "no" /\ forced = FALSE
  /\ stage = [s \in Streams |-> "none"]
  /\ bucket = [s \in Streams |-> "attach"]
  /\ agent = [s \in Streams |-> FALSE]

-----------------------------------------------------------------------------
(* The process *)

\* Mount; without it the server does not start.  When WaitMount fails the unmount that
\* follows may fail too.
MountWorkspace ==
  /\ main = "mount"
  /\ \/ main' = "listen" /\ mount' = "mounted" /\ watcher' = "on"
     \/ main' = "done" /\ mount' \in {"none", "mounted", "gone"} /\ UNCHANGED watcher
  /\ UNCHANGED <<signalled, once, graceful, forced, streamVars, limitVars>>

\* newPTYService and newGRPCServer.
Listen ==
  /\ main = "listen"
  /\ main' \in {"serve", "unmount"}
  /\ UNCHANGED <<signalled, mount, once, watcher, graceful, forced, streamVars, limitVars>>

Signal ==
  /\ ~signalled /\ main # "done"
  /\ signalled' = TRUE
  /\ UNCHANGED <<main, mount, once, watcher, graceful, forced, streamVars, limitVars>>

\* serveUntilDone: the signal, or Serve fails.
StopServing ==
  /\ main = "serve"
  /\ \/ signalled /\ main' = "stopping" /\ graceful' = "draining"
     \/ main' = "closeListener" /\ UNCHANGED graceful
  /\ UNCHANGED <<signalled, mount, once, watcher, forced, streamVars, limitVars>>

Finished == {"none", "ended"}

\* GracefulStop returns when every handler has (external).
Drained ==
  /\ graceful = "draining"
  /\ \A s \in Streams : stage[s] \in Finished
  /\ graceful' = "done"
  /\ UNCHANGED <<main, signalled, mount, once, watcher, forced, streamVars, limitVars>>

\* Waits for the streams to end by themselves.
MutNoForce == main = "stopping" /\ forced' = FALSE /\ UNCHANGED vars

\* serverShutdownGrace has passed: Stop cancels the streams.
ForceStop ==
  /\ main = "stopping" /\ graceful = "draining" /\ ~forced
  /\ forced' = TRUE
  /\ UNCHANGED <<main, signalled, mount, once, watcher, graceful, streamVars, limitVars>>

\* The end of stopGRPCServer, forced or not; Serve has returned then.
Stopped ==
  /\ main = "stopping" /\ graceful = "done"
  /\ main' = "closeListener"
  /\ UNCHANGED <<signalled, mount, once, watcher, graceful, forced, streamVars, limitVars>>

CloseListener ==
  /\ main = "closeListener"
  /\ main' = "unmount"
  /\ UNCHANGED <<signalled, mount, once, watcher, graceful, forced, streamVars, limitVars>>

\* Close of the mount: the first one tries to unmount, which fails while a process
\* works in the mount; the next ones do nothing.
CloseMount ==
  IF once = "used" THEN UNCHANGED <<mount, once>>
  ELSE /\ once' = "used"
       /\ \/ (\A s \in Streams : ~agent[s]) /\ mount' = "gone"
          \/ (OtherUsers \/ \E s \in Streams : agent[s]) /\ UNCHANGED mount

WatcherUnmounts ==
  /\ watcher = "on" /\ signalled /\ main # "done"
  /\ watcher' = "ended"
  /\ CloseMount
  /\ UNCHANGED <<main, signalled, graceful, forced, streamVars, limitVars>>

\* The deferred close; then the process ends.
ExitUnmounts ==
  /\ main = "unmount"
  /\ main' = "done"
  /\ CloseMount
  /\ UNCHANGED <<signalled, watcher, graceful, forced, streamVars, limitVars>>

-----------------------------------------------------------------------------
(* The streams *)

Running == main \in {"serve", "stopping", "closeListener", "unmount"}
Goto(s, where) == stage' = [stage EXCEPT ![s] = where]

\* A stream is accepted and goes to the interceptors.
Accept(s) ==
  /\ main = "serve" /\ stage[s] = "none"
  /\ Goto(s, "auth")
  /\ UNCHANGED <<procVars, bucket, agent, limitVars>>

\* StreamServerInterceptor: a stream without a valid token goes no further.
Authenticate(s) ==
  /\ Running /\ stage[s] = "auth"
  /\ \/ Goto(s, "ended") /\ UNCHANGED <<bucket, limitVars>>
     \/ s \notin Terminals /\ Goto(s, "serving") /\ UNCHANGED <<bucket, limitVars>>
     \/ /\ s \in Terminals /\ Goto(s, "limited")
        /\ bucket' = [bucket EXCEPT ![s] = "attach"]
        /\ WaitCalled(s, "attach", 1)
  /\ UNCHANGED <<procVars, agent>>

\* Input of a terminal, before it is written.
Input(s) ==
  /\ Running /\ stage[s] = "serving" /\ s \in Terminals
  /\ Goto(s, "limited")
  /\ bucket' = [bucket EXCEPT ![s] = "input"]
  /\ WaitCalled(s, "input", InputUnits)
  /\ UNCHANGED <<procVars, agent>>

\* Wait goes on; with nothing left to wait for the session does too.
Limited(s) ==
  /\ Running /\ stage[s] = "limited"
  /\ WaitTurn(s, bucket[s])
  /\ IF remaining'[s] = 0
     THEN Goto(s, "serving") /\ agent' = [agent EXCEPT ![s] = TRUE]
     ELSE UNCHANGED <<stage, agent>>
  /\ UNCHANGED <<procVars, bucket>>

\* The client is gone or the stream was cancelled as Wait sleeps.
GiveUp(s) ==
  /\ Running /\ stage[s] = "limited"
  /\ WaitCancelled(s)
  /\ Goto(s, "ended")
  /\ agent' = [agent EXCEPT ![s] = FALSE]
  /\ UNCHANGED <<procVars, bucket>>

\* The handler returns; a terminal's has waited for its agent.
HandlerEnds(s) ==
  /\ Running /\ stage[s] = "serving"
  /\ Goto(s, "ended")
  /\ agent' = [agent EXCEPT ![s] = FALSE]
  /\ UNCHANGED <<procVars, bucket, limitVars>>

\* It panics, which recoveryStreamInterceptor makes an error of this stream alone; the
\* slot is given back and nobody stops the agent.
HandlerPanics(s) ==
  /\ Running /\ stage[s] = "serving"
  /\ Goto(s, "ended")
  /\ UNCHANGED <<procVars, bucket, agent, limitVars>>

\* A terminal's handler is blocked for good: it writes input that nobody reads, or waits
\* for the end of output that a descendant of the agent keeps open.
HandlerSticks(s) ==
  /\ Running /\ stage[s] = "serving" /\ agent[s]
  /\ Goto(s, "stuck")
  /\ UNCHANGED <<procVars, bucket, agent, limitVars>>

\* An agent that a panic left behind ends.
AgentEnds(s) ==
  /\ Running /\ stage[s] = "ended" /\ agent[s]
  /\ agent' = [agent EXCEPT ![s] = FALSE]
  /\ UNCHANGED <<procVars, stage, bucket, limitVars>>

TimePasses == Running /\ Tick /\ UNCHANGED <<procVars, streamVars>>

-----------------------------------------------------------------------------
Process == MountWorkspace \/ Listen \/ StopServing \/ ForceStop \/ Stopped
             \/ CloseListener \/ ExitUnmounts

Next == \/ Process \/ Signal \/ Drained \/ WatcherUnmounts \/ TimePasses
        \/ \E s \in Streams : Accept(s) \/ Authenticate(s) \/ Input(s) \/ Limited(s)
                                \/ GiveUp(s) \/ HandlerEnds(s) \/ HandlerPanics(s)
                                \/ HandlerSticks(s) \/ AgentEnds(s)

Spec == Init /\ [][Next]_vars

\* The process goes on by itself, once it was told to stop; an interceptor ends, a turn
\* of Wait does, and a handler whose stream was cancelled by Stop returns, unless it is
\* stuck.
FairSpec ==
  /\ Spec
  /\ WF_vars(MountWorkspace \/ Listen \/ Stopped \/ CloseListener \/ ExitUnmounts)
  /\ WF_vars(signalled /\ StopServing) /\ WF_vars(ForceStop) /\ WF_vars(Drained)
  /\ \A s \in Streams : /\ WF_vars(Authenticate(s)) /\ WF_vars(Limited(s))
                        /\ WF_vars(forced /\ (GiveUp(s) \/ HandlerEnds(s)))

-----------------------------------------------------------------------------
(* Properties *)

\* stopGRPCServer: after a signal no stream has to end by itself for the process to end.
\* Daemons that stay, sessions that go on and waits for a limiter are all cut off; only a
\* handler that is blocked outside its stream keeps <-stopped waiting.
ShutdownCompletes == signalled ~> (main = "done" \/ \E s \in Streams : stage[s] = "stuck")

\* serverShutdownGrace (main.go:224): the server is stopped in time, "guaranteeing the
\* deferred FUSE unmount always runs", so a signal leaves no mount behind, at least when
\* no agent is left that would keep it busy.
UnmountedAtExit ==
  graceful = "done" /\ main = "done" /\ (\A s \in Streams : ~agent[s]) => mount # "mounted"
=============================================================================
