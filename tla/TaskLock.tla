------------------------------ MODULE TaskLock ------------------------------
(***************************************************************************)
(* The lock of one task in Redis and the operations on it                  *)
(* (src/src/core/state.rs): acquire with a token of its own, release and   *)
(* renew by that token, the renewer a holder may spawn, and the forced     *)
(* release, which looks at no token. The broker of this repository calls   *)
(* the first and the last; the others are the library's.                   *)
(*                                                                         *)
(* A command is on the wire until Redis serves it, atomically, and its     *)
(* caller waits for the answer. A caller that gives up (the pool's limits, *)
(* REDIS_CMD_TIMEOUT, a broken connection) does not take the command back: *)
(* it may be served later, or never.                                       *)
(*                                                                         *)
(* Time is a tick. The renewer wakes within the tick its sleep ends in,    *)
(* and a renewal is answered or given up within MaxDelay; how long the     *)
(* other calls take is left open.                                          *)
(***************************************************************************)
EXTENDS Naturals

CONSTANTS
  Attempt,    \* calls of acquire_task_lock for the task; a call stands for its token
  Renewing,   \* those that spawn a renewer, which is up to the caller
  None,
  Leases,     \* the lease_ms the lock may be taken with
  Intervals,  \* the base_every_ms a renewer may be spawned with
  MaxJitter,  \* the longest jitter, nanos % 250
  MaxDelay    \* the pool's limits and REDIS_CMD_TIMEOUT together

ASSUME LockAssumption ==
  /\ None \notin Attempt
  /\ Renewing \subseteq Attempt
  /\ Leases \subseteq Nat \ {0}
  /\ Intervals \subseteq Nat
  /\ MaxJitter \in Nat
  /\ MaxDelay \in Nat \ {0}

VARIABLES
  lease, base,  \* the arguments, the same for every attempt
  owner,        \* whose token the key holds
  ttl,          \* time left until the key expires
  wire,         \* commands somebody waits for, not served
  late,         \* commands nobody waits for any more, not served
  answers,      \* answers on their way, with whether the command did anything
  attempt,      \* how far the attempt is
  renewer,      \* its renewer
  timer,        \* time left of the renewer's sleep, or of its patience
  completed,    \* COMPLETED rows written to the audit log
  deleted,      \* ghost: attempts whose own release deleted the key
  removed,      \* ghost: attempts whose key was deleted, by themselves or by force
  renewed       \* ghost: attempts whose renewer has renewed once

key == <<owner, ttl>>
net == <<wire, late, answers>>
ghosts == <<deleted, removed, renewed>>
vars == <<lease, base, key, net, attempt, renewer, timer, completed, ghosts>>

Command == [op : {"set", "del", "renew"}, by : Attempt]

\* out: denied, or without the token, after an error or a crash.
AttemptState == {"new", "acquiring", "held", "releasing", "out"}

Alive(a) == renewer[a] \in {"asleep", "renewing"}

Init ==
  /\ lease \in Leases
  /\ base \in Intervals
  /\ owner = None
  /\ ttl = 0
  /\ wire = {}
  /\ late = {}
  /\ answers = {}
  /\ attempt = [a \in Attempt |-> "new"]
  /\ renewer = [a \in Attempt |-> "none"]
  /\ timer = [a \in Attempt |-> 0]
  /\ completed = [a \in Attempt |-> 0]
  /\ deleted = {}
  /\ removed = {}
  /\ renewed = {}

-----------------------------------------------------------------------------
\* Redis: the commands. Each says what it does to the key and whether it did.
SetNX(a) ==
  IF owner = None THEN [did |-> TRUE, owner |-> a, ttl |-> lease]
                  ELSE [did |-> FALSE, owner |-> owner, ttl |-> ttl]

\* Mutant of CompareAndDelete: DEL without the comparison.
Delete(a) ==
  IF owner # None THEN [did |-> TRUE, owner |-> None, ttl |-> 0]
                  ELSE [did |-> FALSE, owner |-> owner, ttl |-> ttl]

CompareAndDelete(a) ==
  IF owner = a THEN [did |-> TRUE, owner |-> None, ttl |-> 0]
               ELSE [did |-> FALSE, owner |-> owner, ttl |-> ttl]

\* Mutant of CompareAndExpire: the renewer passes its interval for the lease.
CompareAndExpireSoon(a) ==
  IF owner = a /\ base \in 1..lease THEN [did |-> TRUE, owner |-> a, ttl |-> base]
  ELSE [did |-> owner = a, owner |-> owner, ttl |-> ttl]

CompareAndExpire(a) ==
  IF owner = a THEN [did |-> TRUE, owner |-> a, ttl |-> lease]
               ELSE [did |-> FALSE, owner |-> owner, ttl |-> ttl]

Result(c) ==
  CASE c.op = "set"   -> SetNX(c.by)
    [] c.op = "del"   -> CompareAndDelete(c.by)
    [] c.op = "renew" -> CompareAndExpire(c.by)

Apply(c) ==
  /\ owner' = Result(c).owner
  /\ ttl' = Result(c).ttl
  /\ deleted' = IF c.op = "del" /\ Result(c).did THEN deleted \cup {c.by} ELSE deleted
  /\ removed' = IF c.op = "del" /\ Result(c).did THEN removed \cup {owner} ELSE removed
  /\ renewed' = IF c.op = "renew" /\ Result(c).did THEN renewed \cup {c.by} ELSE renewed

Serve(c) ==
  /\ c \in wire
  /\ Apply(c)
  /\ wire' = wire \ {c}
  /\ answers' = answers \cup {[op |-> c.op, by |-> c.by, did |-> Result(c).did]}
  /\ UNCHANGED <<lease, base, late, attempt, renewer, timer, completed>>

ServeLate(c) ==
  /\ c \in late
  /\ Apply(c)
  /\ late' = late \ {c}
  /\ UNCHANGED <<lease, base, wire, answers, attempt, renewer, timer, completed>>

\* force_release_task_lock, at the moment its DEL is served, however late.
ForceRelease ==
  /\ owner # None
  /\ owner' = None
  /\ ttl' = 0
  /\ removed' = removed \cup {owner}
  /\ UNCHANGED <<lease, base, net, attempt, renewer, timer, completed, deleted, renewed>>

-----------------------------------------------------------------------------
Send(op, a) ==
  /\ wire' = wire \cup {[op |-> op, by |-> a]}
  /\ UNCHANGED <<late, answers>>

Receive(op, a, did) ==
  /\ [op |-> op, by |-> a, did |-> did] \in answers
  /\ answers' = answers \ {[op |-> op, by |-> a, did |-> did]}
  /\ UNCHANGED <<wire, late>>

\* The caller stops waiting for its command or for its answer.
StopWaiting(ops, a) ==
  LET given == {c \in wire : c.op \in ops /\ c.by = a} IN
  /\ wire' = wire \ given
  /\ late' = late \cup given
  /\ answers' = {r \in answers : ~(r.op \in ops /\ r.by = a)}

Acquire(a) ==
  /\ attempt[a] = "new"
  /\ attempt' = [attempt EXCEPT ![a] = "acquiring"]
  /\ Send("set", a)
  /\ UNCHANGED <<lease, base, key, renewer, timer, completed, ghosts>>

\* The PROCESSING row is written here, too.
AcquireReturns(a) ==
  /\ \E did \in BOOLEAN :
       /\ Receive("set", a, did)
       /\ attempt' = [attempt EXCEPT ![a] = IF did THEN "held" ELSE "out"]
  /\ UNCHANGED <<lease, base, key, renewer, timer, completed, ghosts>>

\* An error, or a crash: nobody has the token of what may be set, now or later.
AcquireFails(a) ==
  /\ attempt[a] = "acquiring"
  /\ attempt' = [attempt EXCEPT ![a] = "out"]
  /\ StopWaiting({"set"}, a)
  /\ UNCHANGED <<lease, base, key, renewer, timer, completed, ghosts>>

\* release_task_lock takes the lock by reference: it may be called again.
Release(a) ==
  /\ attempt[a] = "held"
  /\ attempt' = [attempt EXCEPT ![a] = "releasing"]
  /\ Send("del", a)
  /\ UNCHANGED <<lease, base, key, renewer, timer, completed, ghosts>>

\* Mutant of ReleaseReturns: the row is written whatever the script answered.
ReleaseReturnsLogged(a) ==
  /\ \E did \in BOOLEAN : Receive("del", a, did)
  /\ completed[a] < 2
  /\ completed' = [completed EXCEPT ![a] = @ + 1]
  /\ attempt' = [attempt EXCEPT ![a] = "held"]
  /\ UNCHANGED <<lease, base, key, renewer, timer, ghosts>>

ReleaseReturns(a) ==
  /\ \E did \in BOOLEAN :
       /\ Receive("del", a, did)
       /\ completed' = [completed EXCEPT ![a] = IF did THEN @ + 1 ELSE @]
  /\ attempt' = [attempt EXCEPT ![a] = "held"]
  /\ UNCHANGED <<lease, base, key, renewer, timer, ghosts>>

ReleaseFails(a) ==
  /\ attempt[a] = "releasing"
  /\ attempt' = [attempt EXCEPT ![a] = "held"]
  /\ StopWaiting({"del"}, a)
  /\ UNCHANGED <<lease, base, key, renewer, timer, completed, ghosts>>

\* The process ends, with its renewer.
Crash(a) ==
  /\ attempt[a] \in {"held", "releasing"}
  /\ attempt' = [attempt EXCEPT ![a] = "out"]
  /\ renewer' = [renewer EXCEPT ![a] = "none"]
  /\ timer' = [timer EXCEPT ![a] = 0]
  /\ StopWaiting({"del", "renew"}, a)
  /\ UNCHANGED <<lease, base, key, completed, ghosts>>

-----------------------------------------------------------------------------
\* Mutant of Every: an interval longer than the lease is used as it is.
EveryUnclamped == base

\* spawn_lock_renewer: the interval, without the jitter.
Every == IF base >= lease THEN lease \div 2 ELSE base

Sleep(a) == \E jitter \in 0..MaxJitter : timer' = [timer EXCEPT ![a] = Every + jitter]

SpawnRenewer(a) ==
  /\ a \in Renewing
  /\ attempt[a] = "held"
  /\ renewer[a] = "none"
  /\ renewer' = [renewer EXCEPT ![a] = "asleep"]
  /\ Sleep(a)
  /\ UNCHANGED <<lease, base, key, net, attempt, completed, ghosts>>

Wake(a) ==
  /\ renewer[a] = "asleep"
  /\ timer[a] = 0
  /\ renewer' = [renewer EXCEPT ![a] = "renewing"]
  /\ timer' = [timer EXCEPT ![a] = MaxDelay]
  /\ Send("renew", a)
  /\ UNCHANGED <<lease, base, key, attempt, completed, ghosts>>

\* Mutant of RenewReturns: the loop goes on when the lock was lost.
RenewReturnsAnyway(a) ==
  /\ \E did \in BOOLEAN : Receive("renew", a, did)
  /\ renewer' = [renewer EXCEPT ![a] = "asleep"]
  /\ Sleep(a)
  /\ UNCHANGED <<lease, base, key, attempt, completed, ghosts>>

RenewReturns(a) ==
  /\ \/ /\ Receive("renew", a, TRUE)
        /\ renewer' = [renewer EXCEPT ![a] = "asleep"]
        /\ Sleep(a)
     \/ /\ Receive("renew", a, FALSE)
        /\ renewer' = [renewer EXCEPT ![a] = "ended"]
        /\ timer' = [timer EXCEPT ![a] = 0]
  /\ UNCHANGED <<lease, base, key, attempt, completed, ghosts>>

\* A single error ends the renewer; the lock is still there for the rest of its lease.
RenewFails(a) ==
  /\ renewer[a] = "renewing"
  /\ renewer' = [renewer EXCEPT ![a] = "ended"]
  /\ timer' = [timer EXCEPT ![a] = 0]
  /\ StopWaiting({"renew"}, a)
  /\ UNCHANGED <<lease, base, key, attempt, completed, ghosts>>

Tick ==
  /\ \A a \in Attempt : Alive(a) => timer[a] > 0
  /\ timer' = [a \in Attempt |-> IF Alive(a) THEN timer[a] - 1 ELSE timer[a]]
  /\ ttl' = IF owner = None THEN ttl ELSE ttl - 1
  /\ owner' = IF ttl' = 0 THEN None ELSE owner
  /\ UNCHANGED <<lease, base, net, attempt, renewer, completed, ghosts>>

-----------------------------------------------------------------------------
RenewerStep(a) == Wake(a) \/ RenewReturns(a) \/ RenewFails(a)

Next ==
  \/ \E c \in Command : Serve(c) \/ ServeLate(c)
  \/ ForceRelease
  \/ \E a \in Attempt : \/ Acquire(a) \/ AcquireReturns(a) \/ AcquireFails(a)
                        \/ Release(a) \/ ReleaseReturns(a) \/ ReleaseFails(a)
                        \/ Crash(a) \/ SpawnRenewer(a) \/ RenewerStep(a)
  \/ Tick

\* Time passes, and the renewer's task is run when it is ready.
Spec ==
  /\ Init /\ [][Next]_vars
  /\ WF_vars(Tick)
  /\ \A a \in Attempt : WF_vars(RenewerStep(a))

-----------------------------------------------------------------------------
\* Type correctness; a renewer never sleeps as long as the lease and a jitter.
TypeOK ==
  /\ lease \in Leases /\ base \in Intervals
  /\ owner \in Attempt \cup {None}
  /\ ttl \in 0..lease /\ (ttl = 0) = (owner = None)
  /\ wire \subseteq Command /\ late \subseteq Command
  /\ answers \subseteq [op : {"set", "del", "renew"}, by : Attempt, did : BOOLEAN]
  /\ attempt \in [Attempt -> AttemptState]
  /\ renewer \in [Attempt -> {"none", "asleep", "renewing", "ended"}]
  /\ timer \in [Attempt -> Nat]
  /\ \A a \in Attempt :
       timer[a] \in 0..(CASE renewer[a] = "asleep"   -> lease - 1 + MaxJitter
                          [] renewer[a] = "renewing" -> MaxDelay
                          [] OTHER                   -> 0)
  /\ completed \in [Attempt -> 0..2]
  /\ deleted \subseteq Attempt /\ removed \subseteq Attempt /\ renewed \subseteq Attempt

\* An attempt's lock ends, or gains time, only by a command of its own, by its
\* expiry or by force: a release or a renewal served after the lock went to another
\* attempt leaves that one's alone (state.rs:243-251, 293-301).
FencedByToken ==
  [][\A a \in Attempt :
       owner = a /\ (owner' # a \/ ttl' > ttl) =>
         \/ Tick
         \/ ForceRelease
         \/ \E c \in wire \cup late : c.by = a /\ (Serve(c) \/ ServeLate(c))]_vars

\* The margin with which a renewal precedes the expiry of the one before: two calls,
\* a jittered sleep. A longer interval than the lease counts as half the lease.
Margin ==
  LET interval == IF base < lease THEN base ELSE lease \div 2
  IN interval + MaxJitter + 2 * MaxDelay < lease

\* state.rs:327, "clamping to safely renew": where the lease leaves that margin, an
\* attempt whose renewer has renewed once and is at work has the lock, unless it was
\* deleted. (Where it does not, the lock can lapse under a live renewer: half of a
\* lease of a second and the 249 ms of jitter leave a call 251 ms.)
RenewedInTime ==
  Margin => \A a \in (renewed \ removed) : Alive(a) => owner = a

\* The audit log has at most one COMPLETED row of an attempt, and none unless the
\* attempt's own release deleted its lock, however often the release is tried and
\* whichever of the tries is served (state.rs:263-271).
CompletedOnce ==
  \A a \in Attempt : completed[a] <= IF a \in deleted THEN 1 ELSE 0

\* A lock whose renewer ended or that nobody holds a token for (its holder crashed,
\* or its acquisition was given up) goes; and a renewer whose lock is gone ends,
\* though nobody stops it on a release.
NothingLingers ==
  \A a \in Attempt :
    /\ (owner = a /\ (renewer[a] = "ended" \/ attempt[a] = "out")) ~> owner # a
    /\ (Alive(a) /\ owner # a) ~> ~Alive(a)

=============================================================================
