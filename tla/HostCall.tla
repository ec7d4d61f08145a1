------------------------------ MODULE HostCall ------------------------------
(***************************************************************************)
(* Calls between functions in one process: a running handler or command    *)
(* calls another deployed function through the imported wasmdee.invoke     *)
(* (internal/runtime/executor.go, Invoke, invokeHandler and hostInvoke).   *)
(*                                                                         *)
(* An invocation and the host calls nested in it run on one goroutine, a   *)
(* chain: only its last frame moves. A handler holds a pooled instance,    *)
(* also while it waits for a function that it called. The pools are those  *)
(* of InstancePool, without evictions: ensure is one step that fills the   *)
(* pool. Start code of a module, which runs inside ensure and could call   *)
(* functions as well, is taken to call none. A definition marked (slip) is *)
(* not part of the model but a plausible mistake in the one after it.      *)
(***************************************************************************)
EXTENDS Integers, FiniteSets, SequencesExt

CONSTANTS
  Roots,     \* invocations that come from outside
  Functions, \* names of deployed functions
  PathOf,    \* PathOf[f]: the stored module; two names may share one
  Commands,  \* the functions that are WASI commands, without a pool
  Size,      \* EngineConfig.HandlerPoolSize
  MaxDepth,  \* EngineConfig.MaxHostCallDepth
  HalfWord,  \* 2^32 in the code: what one half of a result word can hold
  MaxHostCalls \* bound: the host calls that all chains make together

ASSUME HostCallAssumption ==
  /\ PathOf \in [Functions -> STRING]
  /\ Commands \subseteq Functions
  /\ Size \in Nat \ {0} /\ MaxDepth \in Nat \ {0}
  /\ HalfWord \in Nat \ {0} /\ MaxHostCalls \in Nat

VARIABLES
  frames,    \* frames[r]: the chain of root r, from the outermost frame
  ended,     \* the roots that have their result
  idle, total, \* idle[p], total[p]: a pool's free instances and its count
  hostCalls, failures, \* the engine's counters
  succeeded, failed    \* the host calls that the callers saw succeed and fail

counters == <<hostCalls, failures, succeeded, failed>>
vars == <<frames, ended, idle, total, counters>>

Paths == {PathOf[f] : f \in Functions}

\* The status codes of a result word.
OK == 0
InvalidMemory == 1
TargetError == 2
OutputTooLarge == 3
NonZeroExit == 4

\* (slip) the halves of the word swapped.
PackSwapped(status, size) == size * HalfWord + status

Pack(status, size) == status * HalfWord + size

\* What the caller reads from a word.
StatusOf(word) == word \div HalfWord
SizeOf(word) == word % HalfWord

Top(r) == Last(frames[r])
At(r, phase) == frames[r] # <<>> /\ Top(r).at = phase
PathAt(r) == PathOf[Top(r).fn]

\* A context ends with its own timeout or with that of a caller.
Expired(r) == \E i \in DOMAIN frames[r] : frames[r][i].late

Frame(f) == [fn |-> f, at |-> "enter", late |-> FALSE]
Move(r, phase) == frames' = [frames EXCEPT ![r] = Front(@) \o <<[Last(@) EXCEPT !.at = phase]>>]

Init ==
  /\ frames = [r \in Roots |-> <<>>]
  /\ ended = {}
  /\ idle = [p \in Paths |-> 0]
  /\ total = [p \in Paths |-> 0]
  /\ hostCalls = 0 /\ failures = 0 /\ succeeded = 0 /\ failed = 0

-----------------------------------------------------------------------------
\* hostInvoke returns a word to its caller and counts what is not a success: once
\* here, with an Add(1) at each of its exits in the code.
Reply(status, size) ==
  LET word == Pack(status, size) IN
  /\ failures' = IF status = OK THEN failures ELSE failures + 1
  /\ IF StatusOf(word) = OK THEN succeeded' = succeeded + 1 /\ UNCHANGED failed
                            ELSE failed' = failed + 1 /\ UNCHANGED succeeded

\* The last frame is over. A host call's caller gets one of the replies, each a
\* status and a size.
Pop(r, replies) ==
  /\ frames' = [frames EXCEPT ![r] = Front(@)]
  /\ UNCHANGED hostCalls
  /\ IF Len(frames[r]) = 1
       THEN ended' = ended \cup {r} /\ UNCHANGED <<failures, succeeded, failed>>
       ELSE UNCHANGED ended /\ \E reply \in replies : Reply(reply[1], reply[2])

Fail(r) == Pop(r, {<<TargetError, 0>>})

\* (slip) only the direct caller is compared, not the whole chain.
InCaller(r) ==
  Len(frames[r]) > 1 /\ frames[r][Len(frames[r]) - 1].fn = Top(r).fn

InChain(r) == \E i \in 1..(Len(frames[r]) - 1) : frames[r][i].fn = Top(r).fn

TooDeep(r) == Len(frames[r]) > MaxDepth

Start(r, f) ==
  /\ frames[r] = <<>> /\ r \notin ended
  /\ frames' = [frames EXCEPT ![r] = <<Frame(f)>>]
  /\ UNCHANGED <<ended, idle, total, counters>>

\* Too deep, a cycle; or the module does not compile, or the request is too
\* large: nothing is held yet.
Refuse(r) ==
  /\ At(r, "enter")
  /\ Fail(r)
  /\ UNCHANGED <<idle, total>>

\* A WASI command makes an instance of its own.
EnterCommand(r) ==
  /\ At(r, "enter") /\ ~TooDeep(r) /\ ~InChain(r) /\ Top(r).fn \in Commands
  /\ Move(r, "run")
  /\ UNCHANGED <<ended, idle, total, counters>>

\* (slip) ensure does not look at what the pool already counts.
RefillAll(p) == Size

Refill(p) == Size - total[p]

EnterHandler(r) ==
  LET p == PathAt(r) IN
  /\ At(r, "enter") /\ ~TooDeep(r) /\ ~InChain(r) /\ Top(r).fn \notin Commands
  /\ idle' = [idle EXCEPT ![p] = @ + Refill(p)]
  /\ total' = [total EXCEPT ![p] = Size]
  /\ Move(r, "wait")
  /\ UNCHANGED <<ended, counters>>

Acquire(r) ==
  /\ At(r, "wait") /\ idle[PathAt(r)] > 0
  /\ idle' = [idle EXCEPT ![PathAt(r)] = @ - 1]
  /\ Move(r, "run")
  /\ UNCHANGED <<ended, total, counters>>

\* (slip) the wait for an instance does not look at the context.
NeverGivesUp(r) == FALSE

MayGiveUp(r) == Expired(r)

GiveUp(r) ==
  /\ At(r, "wait") /\ MayGiveUp(r)
  /\ Fail(r)
  /\ UNCHANGED <<idle, total>>

\* The code asks for a function that is not deployed, or with bad pointers.
CallRefused(r) ==
  /\ At(r, "run") /\ ~Expired(r) /\ hostCalls < MaxHostCalls
  /\ hostCalls' = hostCalls + 1
  /\ \E status \in {InvalidMemory, TargetError} : Reply(status, 0)
  /\ UNCHANGED <<frames, ended, idle, total>>

Call(r, f) ==
  /\ At(r, "run") /\ ~Expired(r) /\ hostCalls < MaxHostCalls
  /\ hostCalls' = hostCalls + 1
  /\ frames' = [frames EXCEPT ![r] = Append(@, Frame(f))]
  /\ UNCHANGED <<ended, idle, total, failures, succeeded, failed>>

\* The caller's buffer may be too small for an output, or not in its memory. A
\* command may exit with a code of its own, a handler may not.
Replies(f, size) ==
  {<<OK, size>>}
  \cup (IF f \in Commands THEN {<<NonZeroExit, size>>} ELSE {})
  \cup (IF size > 0 THEN {<<OutputTooLarge, size>>, <<InvalidMemory, 0>>} ELSE {})

GiveBack(r) ==
  idle' = IF Top(r).fn \in Commands THEN idle ELSE [idle EXCEPT ![PathAt(r)] = @ + 1]

Return(r, size) ==
  /\ At(r, "run")
  /\ GiveBack(r)
  /\ Pop(r, Replies(Top(r).fn, size))
  /\ UNCHANGED total

\* (slip) the instance of a failed call is closed, and still counted.
KeepCount(r) == UNCHANGED total

Discard(r) ==
  total' = IF Top(r).fn \in Commands THEN total ELSE [total EXCEPT ![PathAt(r)] = @ - 1]

\* A trap, a bad response, a reset that failed, or a context that ended.
RunFails(r) ==
  /\ At(r, "run")
  /\ Discard(r)
  /\ Fail(r)
  /\ UNCHANGED idle

\* The timeout of a frame: inv.Timeout, or e.hostCallTimeout of a host call.
Expire(r, i) ==
  /\ i \in DOMAIN frames[r] /\ ~frames[r][i].late
  /\ frames' = [frames EXCEPT ![r][i].late = TRUE]
  /\ UNCHANGED <<ended, idle, total, counters>>

-----------------------------------------------------------------------------
Step(r) ==
  \/ Refuse(r) \/ EnterCommand(r) \/ EnterHandler(r) \/ Acquire(r) \/ GiveUp(r)
  \/ CallRefused(r) \/ RunFails(r)
  \/ \E f \in Functions : Call(r, f)
  \/ \E size \in 0..(HalfWord - 1) : Return(r, size)

Finished == ended = Roots /\ UNCHANGED vars

Next ==
  \/ \E r \in Roots :
       \/ Step(r)
       \/ \E f \in Functions : Start(r, f)
       \/ \E i \in 1..(MaxDepth + 1) : Expire(r, i)
  \/ Finished

Spec == Init /\ [][Next]_vars

\* A goroutine that can run runs, and the timeout of an invocation comes.
Fairness == \A r \in Roots : WF_vars(Step(r)) /\ WF_vars(Expire(r, 1))

FairSpec == Spec /\ Fairness

-----------------------------------------------------------------------------
(* Properties. *)

Running(p) ==
  {x \in Roots \X (1..(MaxDepth + 1)) :
     /\ x[2] \in DOMAIN frames[x[1]]
     /\ frames[x[1]][x[2]].at = "run"
     /\ frames[x[1]][x[2]].fn \notin Commands
     /\ PathOf[frames[x[1]][x[2]].fn] = p}

\* Every variable has its type, and only the last frame of a chain is not
\* running.
TypeOK ==
  /\ frames \in [Roots -> Seq([fn : Functions, at : {"enter", "wait", "run"}, late : BOOLEAN])]
  /\ \A r \in Roots : \A i \in 1..(Len(frames[r]) - 1) : frames[r][i].at = "run"
  /\ ended \subseteq Roots /\ \A r \in ended : frames[r] = <<>>
  /\ idle \in [Paths -> 0..Size] /\ total \in [Paths -> 0..Size]
  /\ hostCalls \in 0..MaxHostCalls /\ failures \in 0..hostCalls

\* Through nested calls, failures at any depth and timeouts of callers, every
\* counted instance is idle or with exactly one running frame, so that none is
\* lost when all chains have ended (executor.go:531-541, 621-655).
InstancesAccounted ==
  \A p \in Paths : total[p] = idle[p] + Cardinality(Running(p))

\* No function is twice in a chain and no chain is too deep, whatever the other
\* chains do: a chain waits for an instance that it holds itself only if two
\* names share a module (executor.go:448-457).
ChainIsAcyclic ==
  \A r \in Roots : \A i, j \in DOMAIN frames[r] :
    /\ i # j /\ frames[r][i].fn = frames[r][j].fn
         => At(r, "enter") /\ Len(frames[r]) \in {i, j}
    /\ At(r, "enter") \/ Len(frames[r]) <= MaxDepth

\* The host calls that have not been answered: the frames above the first.
Nested == {x \in Roots \X (2..(MaxDepth + 1)) : x[2] \in DOMAIN frames[x[1]]}

\* The engine counts as failed exactly the host calls whose caller reads a status
\* other than 0 from the upper half of the word, and every host call has either
\* been answered, once, or is a frame of a chain (executor.go:621-680).
FailuresAgree == failures = failed

FailuresCounted ==
  /\ FailuresAgree
  /\ hostCalls = succeeded + failed + Cardinality(Nested)

\* Chains that hold what the others wait for end by their timeouts: every
\* invocation returns, as long as nothing is evicted (executor.go:443-447, 646-653).
ChainsEnd == \A r \in Roots : frames[r] # <<>> ~> frames[r] = <<>>
=============================================================================
