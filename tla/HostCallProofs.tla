--------------------------- MODULE HostCallProofs ---------------------------
(***************************************************************************)
(* Proofs about HostCall, for any number of chains and functions and any   *)
(* limits: what a result word tells its reader, that no chain of calls     *)
(* enters a function twice or grows too deep, that no instance and no host *)
(* call is lost, the types, and when chains do not wait for each other.    *)
(***************************************************************************)
EXTENDS HostCall, SequenceTheorems, FiniteSetTheorems, TLAPS

Statuses == {OK, InvalidMemory, TargetError, OutputTooLarge, NonZeroExit}

\* A word packed from a status and a size that fits its half gives both back.
LEMMA PackIsExact ==
  ASSUME NEW status \in Statuses, NEW size \in 0..(HalfWord - 1)
  PROVE  /\ StatusOf(Pack(status, size)) = status
         /\ SizeOf(Pack(status, size)) = size
  <1> DEFINE word == status * HalfWord + size
  <1>1. HalfWord \in Nat /\ HalfWord > 0
    BY HostCallAssumption
  <1>2. status \in 0..4
    BY DEF Statuses, OK, InvalidMemory, TargetError, OutputTooLarge, NonZeroExit
  <1>3. word \div HalfWord = status /\ word % HalfWord = size
    BY <1>1, <1>2
  <1> QED
    BY <1>3 DEF Pack, StatusOf, SizeOf

\* A reply is counted as failed on both sides or on none.
LEMMA ReplyAgrees ==
  ASSUME FailuresAgree, NEW status \in Statuses, NEW size \in 0..(HalfWord - 1), Reply(status, size)
  PROVE  FailuresAgree'
  BY PackIsExact DEF Reply, FailuresAgree

\* The end of a frame answers its caller with one of the replies, if it has one.
LEMMA PopAgrees ==
  ASSUME FailuresAgree, NEW r \in Roots, NEW replies, Pop(r, replies),
         \A reply \in replies : reply[1] \in Statuses /\ reply[2] \in 0..(HalfWord - 1)
  PROVE  FailuresAgree'
  <1>1. CASE Len(frames[r]) = 1
    BY <1>1 DEF Pop, FailuresAgree
  <1>2. CASE Len(frames[r]) # 1
    <2>1. PICK reply \in replies : Reply(reply[1], reply[2])
      BY <1>2 DEF Pop
    <2> QED
      BY <2>1, ReplyAgrees
  <1> QED
    BY <1>1, <1>2

-----------------------------------------------------------------------------
FrameSet == [fn : Functions, at : {"enter", "wait", "run"}, late : BOOLEAN]

Distinct(s) == \A i, j \in 1..Len(s) : s[i].fn = s[j].fn => i = j

\* All frames of a chain are of different functions, save one that is entering,
\* and only handlers wait for an instance.
Chain(s) ==
  /\ s \in Seq(FrameSet)
  /\ s # <<>> /\ s[Len(s)].at = "enter" =>
       Len(s) <= MaxDepth + 1 /\ \A i, j \in 1..(Len(s) - 1) : s[i].fn = s[j].fn => i = j
  /\ s # <<>> /\ s[Len(s)].at # "enter" => Len(s) <= MaxDepth /\ Distinct(s)
  /\ \A i \in 1..Len(s) : s[i].at = "wait" => s[i].fn \notin Commands

IInv == frames \in [Roots -> Seq(FrameSet)] /\ \A r \in Roots : Chain(frames[r])

\* What is left of a chain without its last frame.
LEMMA FrontIs ==
  ASSUME NEW s \in Seq(FrameSet), s # <<>>
  PROVE  /\ Len(s) \in Nat /\ Len(s) > 0
         /\ Front(s) \in Seq(FrameSet) /\ Len(Front(s)) = Len(s) - 1
         /\ \A i \in 1..(Len(s) - 1) : Front(s)[i] = s[i]
  <1>1. Len(s) \in Nat /\ Len(s) > 0
    BY EmptySeq
  <1>2. \A i \in 1..(Len(s) - 1) : s[i] \in FrameSet
    BY <1>1, ElementOfSeq
  <1>3. /\ SubSeq(s, 1, Len(s) - 1) \in Seq(FrameSet)
        /\ Len(SubSeq(s, 1, Len(s) - 1)) = IF 1 <= Len(s) - 1 THEN Len(s) - 1 ELSE 0
        /\ \A i \in 1..(Len(s) - 1) : SubSeq(s, 1, Len(s) - 1)[i] = s[1 + i - 1]
    <2> DEFINE m == 1
               n == Len(s) - 1
    <2>1. m \in Int /\ n \in Int /\ \A i \in m..n : s[i] \in FrameSet
      BY <1>1, <1>2
    <2> HIDE DEF m, n
    <2>2. /\ SubSeq(s, m, n) \in Seq(FrameSet)
          /\ Len(SubSeq(s, m, n)) = IF m <= n THEN n - m + 1 ELSE 0
          /\ \A i \in 1..(n - m + 1) : SubSeq(s, m, n)[i] = s[m + i - 1]
      BY <2>1, SubSeqProperties
    <2> QED
      BY <1>1, <2>2 DEF m, n
  <1>4. \A i \in 1..(Len(s) - 1) : SubSeq(s, 1, Len(s) - 1)[i] = s[i]
    <2>1. \A i \in 1..(Len(s) - 1) : 1 + i - 1 = i
      BY <1>1
    <2> QED
      BY <1>3, <2>1
  <1>5. Len(SubSeq(s, 1, Len(s) - 1)) = Len(s) - 1
    <2>0. \A n \in Nat : n > 0 => (IF 1 <= n - 1 THEN n - 1 ELSE 0) = n - 1
      OBVIOUS
    <2>1. (IF 1 <= Len(s) - 1 THEN Len(s) - 1 ELSE 0) = Len(s) - 1
      BY <1>1, <2>0
    <2> QED
      BY <1>3, <2>1, Zenon
  <1>6. Front(s) = SubSeq(s, 1, Len(s) - 1)
    BY DEF Front
  <1> QED
    BY <1>1, <1>3, <1>4, <1>5, <1>6

\* A chain without its last frame has no frame twice.
LEMMA ShorterChain ==
  ASSUME NEW s, Chain(s), s # <<>>
  PROVE  Chain(Front(s))
  <1>1. /\ s \in Seq(FrameSet) /\ Len(s) \in Nat /\ Len(s) > 0
    BY DEF Chain
  <1>2. /\ Front(s) \in Seq(FrameSet) /\ Len(Front(s)) = Len(s) - 1
        /\ \A i \in 1..(Len(s) - 1) : Front(s)[i] = s[i]
    BY <1>1, FrontIs
  <1>3. Distinct(Front(s))
    BY <1>1, <1>2 DEF Chain, Distinct
  <1>4. Len(Front(s)) <= MaxDepth
    BY <1>1, <1>2, HostCallAssumption DEF Chain
  <1> QED
    BY <1>2, <1>3, <1>4, HostCallAssumption DEF Chain, Distinct

\* A chain whose last frame goes on.
LEMMA PhaseIs ==
  ASSUME NEW s \in Seq(FrameSet), s # <<>>, NEW phase \in {"wait", "run"}
  PROVE  LET t == Front(s) \o <<[Last(s) EXCEPT !.at = phase]>> IN
         /\ t \in Seq(FrameSet) /\ Len(t) = Len(s)
         /\ \A i \in 1..Len(s) : t[i].fn = s[i].fn
         /\ \A i \in 1..(Len(s) - 1) : t[i].at = s[i].at
         /\ t[Len(s)].at = phase
  <1> DEFINE last == [Last(s) EXCEPT !.at = phase]
             t == Front(s) \o <<last>>
  <1>1. Len(s) \in Nat /\ Len(s) > 0
    BY EmptySeq
  <1>2. last \in FrameSet /\ last.at = phase /\ last.fn = s[Len(s)].fn
    <2>1. Last(s) = s[Len(s)] /\ s[Len(s)] \in FrameSet
      BY <1>1 DEF Last
    <2> QED
      BY <2>1 DEF FrameSet
  <1>3. /\ Front(s) \in Seq(FrameSet) /\ Len(Front(s)) = Len(s) - 1
        /\ \A i \in 1..(Len(s) - 1) : Front(s)[i] = s[i]
    BY <1>1, FrontIs
  <1> HIDE DEF last
  <1>4. /\ <<last>> \in Seq(FrameSet) /\ Len(<<last>>) = 1 /\ <<last>>[1] = last
    BY <1>2
  <1>5. /\ t \in Seq(FrameSet)
        /\ Len(t) = Len(s)
        /\ \A i \in 1..Len(s) : t[i] =
             IF i <= Len(s) - 1 THEN Front(s)[i] ELSE <<last>>[i - (Len(s) - 1)]
    BY <1>1, <1>3, <1>4, ConcatProperties
  <1>6. \A i \in 1..Len(s) : t[i] = IF i = Len(s) THEN last ELSE s[i]
    BY <1>1, <1>3, <1>4, <1>5
  <1> HIDE DEF t
  <1>7. /\ t \in Seq(FrameSet) /\ Len(t) = Len(s)
        /\ \A i \in 1..Len(s) : t[i].fn = s[i].fn
        /\ \A i \in 1..(Len(s) - 1) : t[i].at = s[i].at
        /\ t[Len(s)].at = phase
    BY <1>1, <1>2, <1>5, <1>6
  <1> QED
    BY <1>7 DEF t, last

\* The last frame of a chain goes on, if it has not to refuse its function.
LEMMA NextPhase ==
  ASSUME NEW s, Chain(s), s # <<>>, NEW phase \in {"wait", "run"},
         s[Len(s)].at = "enter" =>
           Len(s) <= MaxDepth /\ \A i \in 1..(Len(s) - 1) : s[i].fn # s[Len(s)].fn,
         phase = "wait" => s[Len(s)].fn \notin Commands
  PROVE  Chain(Front(s) \o <<[Last(s) EXCEPT !.at = phase]>>)
  <1> DEFINE t == Front(s) \o <<[Last(s) EXCEPT !.at = phase]>>
  <1>1. s \in Seq(FrameSet) /\ Len(s) \in Nat /\ Len(s) > 0
    BY DEF Chain
  <1>2. /\ t \in Seq(FrameSet) /\ Len(t) = Len(s)
        /\ \A i \in 1..Len(s) : t[i].fn = s[i].fn
        /\ \A i \in 1..(Len(s) - 1) : t[i].at = s[i].at
        /\ t[Len(s)].at = phase
    BY <1>1, PhaseIs
  <1>3. Distinct(s) /\ Len(s) <= MaxDepth
    BY <1>1 DEF Chain, Distinct
  <1> HIDE DEF t
  <1>4. \A i \in 1..Len(s) : t[i].at = "wait" => t[i].fn \notin Commands
    <2>1. \A i \in 1..Len(s) : i = Len(s) \/ i \in 1..(Len(s) - 1)
      BY <1>1
    <2> QED
      BY <1>1, <1>2, <2>1 DEF Chain
  <1>5. Chain(t)
    BY <1>2, <1>3, <1>4 DEF Chain, Distinct
  <1> QED
    BY <1>5 DEF t

\* A running frame calls.
LEMMA LongerChain ==
  ASSUME NEW s, Chain(s), s # <<>>, s[Len(s)].at = "run", NEW f \in Functions
  PROVE  Chain(Append(s, Frame(f)))
  <1>1. s \in Seq(FrameSet) /\ Len(s) \in Nat /\ Len(s) > 0 /\ Frame(f) \in FrameSet
    BY DEF Chain, Frame, FrameSet
  <1>2. Len(s) <= MaxDepth /\ Distinct(s)
    BY DEF Chain
  <1>3. /\ Append(s, Frame(f)) \in Seq(FrameSet) /\ Len(Append(s, Frame(f))) = Len(s) + 1
        /\ \A i \in 1..Len(s) : Append(s, Frame(f))[i] = s[i]
        /\ Append(s, Frame(f))[Len(s) + 1].at = "enter"
    BY <1>1 DEF Frame
  <1> QED
    BY <1>1, <1>2, <1>3, HostCallAssumption DEF Chain, Distinct

\* The timeout of a frame changes nothing else.
LEMMA LateIs ==
  ASSUME NEW s \in Seq(FrameSet), NEW i \in DOMAIN s
  PROVE  LET t == [s EXCEPT ![i].late = TRUE] IN
         /\ t \in Seq(FrameSet) /\ Len(t) = Len(s)
         /\ \A k \in 1..Len(s) : t[k].fn = s[k].fn /\ t[k].at = s[k].at
  <1> DEFINE e == [s[i] EXCEPT !.late = TRUE]
             t == [s EXCEPT ![i] = e]
  <1>1. i \in 1..Len(s) /\ s[i] \in FrameSet
    BY LenProperties, ElementOfSeq
  <1>2. e \in FrameSet /\ e.fn = s[i].fn /\ e.at = s[i].at
    BY <1>1 DEF FrameSet
  <1> HIDE DEF e
  <1>3. /\ t \in Seq(FrameSet) /\ Len(t) = Len(s)
        /\ \A k \in 1..Len(s) : t[k] = IF k = i THEN e ELSE s[k]
    BY <1>1, <1>2, ExceptSeq
  <1> HIDE DEF t
  <1>4. /\ t \in Seq(FrameSet) /\ Len(t) = Len(s)
        /\ \A k \in 1..Len(s) : t[k].fn = s[k].fn /\ t[k].at = s[k].at
    BY <1>2, <1>3
  <1> QED
    BY <1>4 DEF t, e

LEMMA LateChain ==
  ASSUME NEW s, Chain(s), NEW i \in DOMAIN s
  PROVE  Chain([s EXCEPT ![i].late = TRUE])
  <1> DEFINE t == [s EXCEPT ![i].late = TRUE]
  <1>1. s \in Seq(FrameSet)
    BY DEF Chain
  <1>2. /\ t \in Seq(FrameSet) /\ Len(t) = Len(s)
        /\ \A k \in 1..Len(s) : t[k].fn = s[k].fn /\ t[k].at = s[k].at
    BY <1>1, LateIs
  <1> HIDE DEF t
  <1>3. Chain(t)
    BY <1>1, <1>2 DEF Chain, Distinct
  <1> QED
    BY <1>3 DEF t

\* Initially no root has a chain.
LEMMA InitInv == Init => IInv
  BY EmptySeq DEF Init, IInv, Chain

\* Every step keeps the chains.
LEMMA NextInv == IInv /\ [Next]_vars => IInv'
  <1> SUFFICES ASSUME IInv, [Next]_vars PROVE IInv'
    OBVIOUS
  <1>1. ASSUME NEW r \in Roots, NEW t, Chain(t), frames' = [frames EXCEPT ![r] = t] PROVE IInv'
    BY <1>1 DEF IInv, Chain
  <1>2. \A r \in Roots : Chain(frames[r])
    BY DEF IInv
  <1>3. ASSUME NEW r \in Roots, frames' = [frames EXCEPT ![r] = Front(@)], frames[r] # <<>>
        PROVE  IInv'
    <2>1. Chain(Front(frames[r]))
      BY <1>2, <1>3, ShorterChain
    <2> QED
      BY <1>1, <1>3, <2>1
  <1>4. ASSUME UNCHANGED frames PROVE IInv'
    BY <1>4 DEF IInv, Chain
  <1>5. ASSUME NEW r \in Roots, Step(r) PROVE IInv'
    <2>1. CASE Refuse(r) \/ GiveUp(r) \/ RunFails(r) \/ \E size \in 0..(HalfWord - 1) : Return(r, size)
      BY <1>3, <2>1 DEF Refuse, GiveUp, RunFails, Return, Fail, Pop, At
    <2>2. CASE CallRefused(r)
      BY <1>4, <2>2 DEF CallRefused
    <2>3. ASSUME NEW phase \in {"wait", "run"}, Move(r, phase), frames[r] # <<>>,
                 frames[r][Len(frames[r])].at = "enter" =>
                   /\ Len(frames[r]) <= MaxDepth
                   /\ \A i \in 1..(Len(frames[r]) - 1) : frames[r][i].fn # frames[r][Len(frames[r])].fn,
                 phase = "wait" => frames[r][Len(frames[r])].fn \notin Commands
          PROVE  IInv'
      <3>1. Chain(Front(frames[r]) \o <<[Last(frames[r]) EXCEPT !.at = phase]>>)
        BY <1>2, <2>3, NextPhase
      <3> QED
        BY <1>1, <2>3, <3>1 DEF Move
    <2>4. CASE EnterCommand(r) \/ EnterHandler(r)
      <3>1. Len(frames[r]) \in Nat
        BY <1>2, EmptySeq, LenProperties DEF Chain
      <3>2. /\ Len(frames[r]) <= MaxDepth
            /\ \A i \in 1..(Len(frames[r]) - 1) : frames[r][i].fn # frames[r][Len(frames[r])].fn
        BY <2>4, <3>1, HostCallAssumption
           DEF EnterCommand, EnterHandler, TooDeep, InChain, Top, Last
      <3> QED
        BY <2>3, <2>4, <3>2 DEF EnterCommand, EnterHandler, At, Top, Last
    <2>5. CASE Acquire(r)
      BY <2>3, <2>5 DEF Acquire, At, Top, Last
    <2>6. ASSUME NEW f \in Functions, Call(r, f) PROVE IInv'
      <3>1. Chain(Append(frames[r], Frame(f)))
        BY <1>2, <2>6, LongerChain DEF Call, At, Top, Last
      <3> QED
        BY <1>1, <2>6, <3>1 DEF Call
    <2> QED
      BY <1>5, <2>1, <2>2, <2>4, <2>5, <2>6 DEF Step
  <1>6. ASSUME NEW r \in Roots, NEW f \in Functions, Start(r, f) PROVE IInv'
    <2>1. Chain(<<Frame(f)>>)
      <3>1. /\ <<Frame(f)>> \in Seq(FrameSet) /\ Len(<<Frame(f)>>) = 1
            /\ <<Frame(f)>>[1].at = "enter"
        BY DEF Frame, FrameSet
      <3> QED
        BY <3>1, HostCallAssumption DEF Chain
    <2> QED
      BY <1>1, <1>6, <2>1 DEF Start
  <1>7. ASSUME NEW r \in Roots, NEW i \in 1..(MaxDepth + 1), Expire(r, i) PROVE IInv'
    <2>1. i \in DOMAIN frames[r] /\ frames' = [frames EXCEPT ![r] = [@ EXCEPT ![i].late = TRUE]]
      BY <1>7 DEF Expire
    <2>2. Chain([frames[r] EXCEPT ![i].late = TRUE])
      BY <1>2, <2>1, LateChain
    <2> QED
      BY <1>1, <2>1, <2>2
  <1>8. CASE Finished \/ UNCHANGED vars
    BY <1>4, <1>8 DEF Finished, vars
  <1> QED
    BY <1>5, <1>6, <1>7, <1>8 DEF Next

-----------------------------------------------------------------------------
(* Theorems. *)

\* No function is twice in a chain of calls, and no chain is too deep.
THEOREM ChainsAreAcyclic == Spec => []ChainIsAcyclic
  <1>1. IInv => ChainIsAcyclic
    <2> SUFFICES ASSUME IInv, NEW r \in Roots, NEW i \in DOMAIN frames[r], NEW j \in DOMAIN frames[r]
                 PROVE  /\ i # j /\ frames[r][i].fn = frames[r][j].fn
                             => At(r, "enter") /\ Len(frames[r]) \in {i, j}
                        /\ At(r, "enter") \/ Len(frames[r]) <= MaxDepth
      BY DEF ChainIsAcyclic
    <2> DEFINE s == frames[r]
    <2>1. Chain(s) /\ s \in Seq(FrameSet)
      BY DEF IInv, Chain
    <2>2. /\ Len(s) \in Nat /\ DOMAIN s = 1..Len(s)
      BY <2>1, LenProperties
    <2>3. s # <<>> /\ (At(r, "enter") <=> s[Len(s)].at = "enter")
      BY <2>2, EmptySeq DEF At, Top, Last
    <2> HIDE DEF s
    <2>4. i \in 1..Len(s) /\ j \in 1..Len(s)
      BY <2>2 DEF s
    <2>5. /\ i # j /\ s[i].fn = s[j].fn => At(r, "enter") /\ Len(s) \in {i, j}
          /\ At(r, "enter") \/ Len(s) <= MaxDepth
      BY <2>1, <2>2, <2>3, <2>4 DEF Chain, Distinct
    <2> QED
      BY <2>5 DEF s
  <1>2. Spec => []IInv
    BY InitInv, NextInv, PTL DEF Spec
  <1> QED
    BY <1>1, <1>2, PTL

\* The engine's failure counter is the number of host calls whose caller was told
\* of a failure, whatever the sizes of the results.
THEOREM CountersAgree == Spec => []FailuresAgree
  <1>1. Init => FailuresAgree
    BY DEF Init, FailuresAgree
  <1>2. FailuresAgree /\ [Next]_vars => FailuresAgree'
    <2> SUFFICES ASSUME FailuresAgree, [Next]_vars PROVE FailuresAgree'
      OBVIOUS
    <2>1. TargetError \in Statuses /\ InvalidMemory \in Statuses /\ 0 \in 0..(HalfWord - 1)
      BY HostCallAssumption DEF Statuses
    <2>2. ASSUME UNCHANGED counters PROVE FailuresAgree'
      BY <2>2 DEF FailuresAgree, counters
    <2>3. ASSUME NEW r \in Roots, Fail(r) PROVE FailuresAgree'
      BY <2>1, <2>3, PopAgrees DEF Fail
    <2>4. ASSUME NEW r \in Roots, CallRefused(r) PROVE FailuresAgree'
      BY <2>1, <2>4, ReplyAgrees DEF CallRefused
    <2>5. ASSUME NEW r \in Roots, NEW size \in 0..(HalfWord - 1), Return(r, size)
          PROVE  FailuresAgree'
      <3>1. \A reply \in Replies(Top(r).fn, size) :
              reply[1] \in Statuses /\ reply[2] \in 0..(HalfWord - 1)
        BY <2>1 DEF Replies, Statuses
      <3> QED
        BY <2>5, <3>1, PopAgrees DEF Return
    <2>6. ASSUME NEW r \in Roots, NEW f \in Functions, Call(r, f) PROVE FailuresAgree'
      BY <2>6 DEF Call, FailuresAgree
    <2>7. ASSUME NEW r \in Roots, Step(r) PROVE FailuresAgree'
      BY <2>2, <2>3, <2>4, <2>5, <2>6, <2>7
         DEF Step, Refuse, EnterCommand, EnterHandler, Acquire, GiveUp, RunFails
    <2>8. ASSUME NEW r \in Roots, NEW f \in Functions, Start(r, f) PROVE FailuresAgree'
      BY <2>2, <2>8 DEF Start
    <2>9. ASSUME NEW r \in Roots, NEW i \in 1..(MaxDepth + 1), Expire(r, i) PROVE FailuresAgree'
      BY <2>2, <2>9 DEF Expire
    <2>10. CASE Finished \/ UNCHANGED vars
      BY <2>2, <2>10 DEF Finished, vars
    <2> QED
      BY <2>7, <2>8, <2>9, <2>10 DEF Next
  <1> QED
    BY <1>1, <1>2, PTL DEF Spec

-----------------------------------------------------------------------------
(* The instances of the pools. *)

\* The i-th frame of the chain of r runs with an instance of pool p.
RunsAt(r, i, p) ==
  /\ i \in 1..Len(frames[r])
  /\ frames[r][i].at = "run" /\ frames[r][i].fn \notin Commands
  /\ PathOf[frames[r][i].fn] = p

\* What a pool counts is idle or with a running frame.
PoolInv ==
  /\ idle \in [Paths -> Int] /\ total \in [Paths -> Int]
  /\ \A p \in Paths : IsFiniteSet(Running(p))
  /\ InstancesAccounted

RunningByFrames ==
  \A p : \A r, i : <<r, i>> \in Running(p) <=> r \in Roots /\ RunsAt(r, i, p)

\* Running(p) has all frames that run: chains are not longer than the bound.
LEMMA RunningIs == IInv => RunningByFrames
  <1> SUFFICES ASSUME IInv, NEW p
               PROVE  \A r, i : <<r, i>> \in Running(p) <=> r \in Roots /\ RunsAt(r, i, p)
    BY DEF RunningByFrames
  <1>1. ASSUME NEW r \in Roots
        PROVE  /\ Len(frames[r]) \in Nat /\ DOMAIN frames[r] = 1..Len(frames[r])
               /\ Len(frames[r]) <= MaxDepth + 1
    <2>1. frames[r] \in Seq(FrameSet) /\ Chain(frames[r])
      BY DEF IInv
    <2>2. Len(frames[r]) \in Nat /\ DOMAIN frames[r] = 1..Len(frames[r])
      BY <2>1, LenProperties
    <2>3. Len(frames[r]) <= MaxDepth + 1
      <3>1. CASE frames[r] = <<>>
        BY <3>1, <2>2, EmptySeq, HostCallAssumption
      <3>2. CASE frames[r] # <<>>
        BY <2>1, <2>2, <3>2, HostCallAssumption DEF Chain
      <3> QED
        BY <3>1, <3>2
    <2> QED
      BY <2>2, <2>3
  <1>2. \A r \in Roots : \A i : i \in 1..Len(frames[r]) => i \in 1..(MaxDepth + 1)
    BY <1>1, HostCallAssumption
  <1> QED
    BY <1>1, <1>2 DEF Running, RunsAt

\* The frames that run, before and after a step that starts or ends one of them
\* or none.
LEMMA RunningFrames ==
  ASSUME IInv, IInv', NEW p
  PROVE  /\ (\A r \in Roots : \A i : RunsAt(r, i, p)' <=> RunsAt(r, i, p)) =>
              Running(p)' = Running(p)
         /\ \A q \in Roots : \A k :
              (\A r \in Roots : \A i : RunsAt(r, i, p)' <=> RunsAt(r, i, p) \/ (r = q /\ i = k)) =>
              Running(p)' = Running(p) \cup {<<q, k>>}
         /\ \A q \in Roots : \A k :
              (\A r \in Roots : \A i : RunsAt(r, i, p)' <=> RunsAt(r, i, p) /\ ~(r = q /\ i = k)) =>
              Running(p)' = Running(p) \ {<<q, k>>}
  <1>1. \A r, i : <<r, i>> \in Running(p) <=> r \in Roots /\ RunsAt(r, i, p)
    BY RunningIs DEF RunningByFrames
  <1>2. \A r, i : <<r, i>> \in Running(p)' <=> r \in Roots /\ RunsAt(r, i, p)'
    <2>1. RunningByFrames'
      BY RunningIs, PTL
    <2> QED
      BY <2>1 DEF RunningByFrames
  <1>3. \A x \in Running(p) \cup Running(p)' : x = <<x[1], x[2]>>
    BY DEF Running
  <1> DEFINE R == Running(p)
             N == Running(p)'
  <1>4. \A x \in R \cup N : \E r, i : x = <<r, i>>
    BY <1>3
  <1> HIDE DEF R, N
  <1>5. \A r, i : <<r, i>> \in R <=> r \in Roots /\ RunsAt(r, i, p)
    BY <1>1 DEF R
  <1>6. \A r, i : <<r, i>> \in N <=> r \in Roots /\ RunsAt(r, i, p)'
    BY <1>2 DEF N
  <1>7. ASSUME \A r \in Roots : \A i : RunsAt(r, i, p)' <=> RunsAt(r, i, p) PROVE N = R
    BY <1>4, <1>5, <1>6, <1>7
  <1>8. ASSUME NEW q \in Roots, NEW k,
               \A r \in Roots : \A i : RunsAt(r, i, p)' <=> RunsAt(r, i, p) \/ (r = q /\ i = k)
        PROVE  N = R \cup {<<q, k>>}
    BY <1>4, <1>5, <1>6, <1>8
  <1>9. ASSUME NEW q \in Roots, NEW k,
               \A r \in Roots : \A i : RunsAt(r, i, p)' <=> RunsAt(r, i, p) /\ ~(r = q /\ i = k)
        PROVE  N = R \ {<<q, k>>}
    BY <1>4, <1>5, <1>6, <1>9
  <1> QED
    BY <1>7, <1>8, <1>9 DEF R, N

\* One element more or less.
LEMMA CountOneMore ==
  ASSUME NEW S, IsFiniteSet(S), NEW x
  PROVE  /\ Cardinality(S) \in Nat
         /\ IsFiniteSet(S \cup {x}) /\ IsFiniteSet(S \ {x})
         /\ x \notin S => Cardinality(S \cup {x}) = Cardinality(S) + 1
         /\ x \in S => Cardinality(S \ {x}) = Cardinality(S) - 1
  <1>1. Cardinality(S) \in Nat
    BY FS_CardinalityType
  <1>2. IsFiniteSet(S \cup {x}) /\ (x \notin S => Cardinality(S \cup {x}) = Cardinality(S) + 1)
    BY FS_AddElement
  <1>3. IsFiniteSet(S \ {x}) /\ (x \in S => Cardinality(S \ {x}) = Cardinality(S) - 1)
    BY FS_RemoveElement
  <1> QED
    BY <1>1, <1>2, <1>3

\* A step that leaves a pool's running frames and what it lent, or changes both
\* by one.
LEMMA PoolStep ==
  ASSUME PoolInv, IInv, IInv', NEW q \in Roots, NEW k,
         idle' \in [Paths -> Int], total' \in [Paths -> Int],
         \A p \in Paths :
           \/ /\ \A r \in Roots : \A i : RunsAt(r, i, p)' <=> RunsAt(r, i, p)
              /\ total'[p] - idle'[p] = total[p] - idle[p]
           \/ /\ ~RunsAt(q, k, p)
              /\ \A r \in Roots : \A i : RunsAt(r, i, p)' <=> RunsAt(r, i, p) \/ (r = q /\ i = k)
              /\ total'[p] - idle'[p] = total[p] - idle[p] + 1
           \/ /\ RunsAt(q, k, p)
              /\ \A r \in Roots : \A i : RunsAt(r, i, p)' <=> RunsAt(r, i, p) /\ ~(r = q /\ i = k)
              /\ total'[p] - idle'[p] = total[p] - idle[p] - 1
  PROVE  PoolInv'
  <1>1. ASSUME NEW p \in Paths
        PROVE  /\ IsFiniteSet(Running(p)')
               /\ total'[p] = idle'[p] + Cardinality(Running(p)')
    <2> DEFINE R == Running(p)
               N == Running(p)'
    <2>1. /\ IsFiniteSet(R) /\ total[p] = idle[p] + Cardinality(R)
          /\ total[p] \in Int /\ idle[p] \in Int /\ total'[p] \in Int /\ idle'[p] \in Int
      BY DEF PoolInv, InstancesAccounted
    <2>2. <<q, k>> \in R <=> RunsAt(q, k, p)
      BY RunningIs DEF RunningByFrames
    <2>3. \/ N = R /\ total'[p] - idle'[p] = total[p] - idle[p]
          \/ /\ N = R \cup {<<q, k>>} /\ <<q, k>> \notin R
             /\ total'[p] - idle'[p] = total[p] - idle[p] + 1
          \/ /\ N = R \ {<<q, k>>} /\ <<q, k>> \in R
             /\ total'[p] - idle'[p] = total[p] - idle[p] - 1
      <3>1. /\ (\A r \in Roots : \A i : RunsAt(r, i, p)' <=> RunsAt(r, i, p)) => N = R
            /\ (\A r \in Roots : \A i : RunsAt(r, i, p)' <=> RunsAt(r, i, p) \/ (r = q /\ i = k))
                 => N = R \cup {<<q, k>>}
            /\ (\A r \in Roots : \A i : RunsAt(r, i, p)' <=> RunsAt(r, i, p) /\ ~(r = q /\ i = k))
                 => N = R \ {<<q, k>>}
        BY RunningFrames
      <3> HIDE DEF R, N
      <3> QED
        BY <2>2, <3>1
    <2> HIDE DEF R, N
    <2>4. /\ Cardinality(R) \in Nat
          /\ IsFiniteSet(R \cup {<<q, k>>}) /\ IsFiniteSet(R \ {<<q, k>>})
          /\ <<q, k>> \notin R => Cardinality(R \cup {<<q, k>>}) = Cardinality(R) + 1
          /\ <<q, k>> \in R => Cardinality(R \ {<<q, k>>}) = Cardinality(R) - 1
      BY <2>1, CountOneMore
    <2>5. /\ IsFiniteSet(N)
          /\ \/ /\ Cardinality(N) = Cardinality(R)
                /\ total'[p] - idle'[p] = total[p] - idle[p]
             \/ /\ Cardinality(N) = Cardinality(R) + 1
                /\ total'[p] - idle'[p] = total[p] - idle[p] + 1
             \/ /\ Cardinality(N) = Cardinality(R) - 1
                /\ total'[p] - idle'[p] = total[p] - idle[p] - 1
      BY <2>1, <2>3, <2>4, Zenon
    <2>6. total'[p] = idle'[p] + Cardinality(N)
      BY <2>1, <2>4, <2>5
    <2> QED
      BY <2>5, <2>6 DEF N
  <1> QED
    BY <1>1 DEF PoolInv, InstancesAccounted, Paths

\* A step that neither starts nor ends a frame that runs with a pooled instance.
LEMMA PoolKept ==
  ASSUME PoolInv, IInv, IInv',
         idle' \in [Paths -> Int], total' \in [Paths -> Int],
         \A p \in Paths : total'[p] - idle'[p] = total[p] - idle[p],
         \A p : \A r \in Roots : \A i : RunsAt(r, i, p)' <=> RunsAt(r, i, p)
  PROVE  PoolInv'
  <1>1. ASSUME NEW p \in Paths
        PROVE  /\ IsFiniteSet(Running(p)')
               /\ total'[p] = idle'[p] + Cardinality(Running(p)')
    <2>1. Running(p)' = Running(p)
      BY RunningFrames
    <2> DEFINE R == Running(p)
    <2>2. /\ IsFiniteSet(R) /\ total[p] = idle[p] + Cardinality(R)
          /\ total[p] \in Int /\ idle[p] \in Int /\ total'[p] \in Int /\ idle'[p] \in Int
      BY DEF PoolInv, InstancesAccounted
    <2> HIDE DEF R
    <2>3. Cardinality(R) \in Nat
      BY <2>2, CountOneMore
    <2>4. total'[p] = idle'[p] + Cardinality(R)
      BY <2>2, <2>3
    <2> QED
      BY <2>1, <2>2, <2>4 DEF R
  <1> QED
    BY <1>1 DEF PoolInv, InstancesAccounted, Paths

-----------------------------------------------------------------------------
(* What the steps do with the frames that run. *)

\* The last frame of a chain that has one.
LEMMA TopIs ==
  ASSUME IInv, NEW r \in Roots, frames[r] # <<>>
  PROVE  /\ frames[r] \in Seq(FrameSet) /\ Len(frames[r]) \in Nat /\ Len(frames[r]) > 0
         /\ Top(r) = frames[r][Len(frames[r])] /\ Top(r) \in FrameSet
         /\ PathAt(r) \in Paths
  <1>1. frames[r] \in Seq(FrameSet) /\ Len(frames[r]) \in Nat /\ Len(frames[r]) > 0
    BY EmptySeq DEF IInv
  <1>2. Top(r) = frames[r][Len(frames[r])] /\ Top(r) \in FrameSet
    BY <1>1 DEF Top, Last
  <1> QED
    BY <1>1, <1>2 DEF PathAt, Paths, FrameSet

\* The last frame ends.
LEMMA FrameEnds ==
  ASSUME IInv, NEW q \in Roots, frames[q] # <<>>, frames' = [frames EXCEPT ![q] = Front(@)]
  PROVE  \A p : \A r \in Roots : \A i :
           RunsAt(r, i, p)' <=> RunsAt(r, i, p) /\ ~(r = q /\ i = Len(frames[q]))
  <1> SUFFICES ASSUME NEW p, NEW r \in Roots, NEW i
               PROVE  RunsAt(r, i, p)' <=> RunsAt(r, i, p) /\ ~(r = q /\ i = Len(frames[q]))
    OBVIOUS
  <1>1. frames \in [Roots -> Seq(FrameSet)]
    BY DEF IInv
  <1>2. CASE r = q
    <2> DEFINE s == frames[q]
               t == Front(frames[q])
    <2>1. /\ Len(s) \in Nat /\ Len(s) > 0 /\ Len(t) = Len(s) - 1
          /\ \A k \in 1..(Len(s) - 1) : t[k] = s[k]
      BY <1>1, FrontIs
    <2>2. frames'[r] = t /\ frames[r] = s
      BY <1>1, <1>2
    <2> HIDE DEF s, t
    <2>3. i \in 1..Len(t) <=> i \in 1..Len(s) /\ i # Len(s)
      BY <2>1
    <2> QED
      BY <1>2, <2>1, <2>2, <2>3 DEF RunsAt, s
  <1>3. CASE r # q
    BY <1>1, <1>3 DEF RunsAt
  <1> QED
    BY <1>2, <1>3

\* The last frame goes on.
LEMMA FrameMoves ==
  ASSUME IInv, NEW q \in Roots, frames[q] # <<>>, NEW phase \in {"wait", "run"},
         Top(q).at # "run", Move(q, phase)
  PROVE  \A p : \A r \in Roots : \A i :
           /\ RunsAt(r, i, p)' <=>
                \/ RunsAt(r, i, p)
                \/ /\ r = q /\ i = Len(frames[q]) /\ phase = "run"
                   /\ Top(q).fn \notin Commands /\ PathAt(q) = p
           /\ ~RunsAt(q, Len(frames[q]), p)
  <1> SUFFICES ASSUME NEW p, NEW r \in Roots, NEW i
               PROVE  /\ RunsAt(r, i, p)' <=>
                           \/ RunsAt(r, i, p)
                           \/ /\ r = q /\ i = Len(frames[q]) /\ phase = "run"
                              /\ Top(q).fn \notin Commands /\ PathAt(q) = p
                      /\ ~RunsAt(q, Len(frames[q]), p)
    OBVIOUS
  <1>1. frames \in [Roots -> Seq(FrameSet)]
    BY DEF IInv
  <1>2. Top(q) = frames[q][Len(frames[q])] /\ Len(frames[q]) \in Nat /\ Len(frames[q]) > 0
    BY TopIs
  <1>3. CASE r = q
    <2> DEFINE s == frames[q]
               t == Front(s) \o <<[Last(s) EXCEPT !.at = phase]>>
    <2>1. /\ Len(t) = Len(s)
          /\ \A k \in 1..Len(s) : t[k].fn = s[k].fn
          /\ \A k \in 1..(Len(s) - 1) : t[k].at = s[k].at
          /\ t[Len(s)].at = phase
      BY <1>1, PhaseIs
    <2>2. frames'[r] = t /\ frames[r] = s
      BY <1>1, <1>3 DEF Move
    <2>3. Top(q) = s[Len(s)] /\ Len(s) \in Nat /\ Len(s) > 0
      BY <1>2
    <2> HIDE DEF s, t
    <2>4. CASE i = Len(s)
      BY <1>3, <2>1, <2>2, <2>3, <2>4 DEF RunsAt, PathAt, s
    <2>5. CASE i # Len(s)
      <3>1. i \in 1..Len(s) => i \in 1..(Len(s) - 1)
        BY <2>3, <2>5
      <3> QED
        BY <1>3, <2>1, <2>2, <2>3, <2>5, <3>1 DEF RunsAt, s
    <2> QED
      BY <2>4, <2>5
  <1>4. CASE r # q
    BY <1>1, <1>2, <1>4 DEF RunsAt, Move
  <1> QED
    BY <1>3, <1>4

\* A frame that is entered, and a timeout, start and end nothing.
LEMMA FrameWaits ==
  ASSUME IInv, NEW q \in Roots, NEW t, frames' = [frames EXCEPT ![q] = t],
         \A i : i \in 1..Len(t) /\ t[i].at = "run" <=>
                i \in 1..Len(frames[q]) /\ frames[q][i].at = "run",
         \A i \in 1..Len(frames[q]) : t[i].fn = frames[q][i].fn
  PROVE  \A p : \A r \in Roots : \A i : RunsAt(r, i, p)' <=> RunsAt(r, i, p)
  <1> SUFFICES ASSUME NEW p, NEW r \in Roots, NEW i
               PROVE  RunsAt(r, i, p)' <=> RunsAt(r, i, p)
    OBVIOUS
  <1>1. frames \in [Roots -> Seq(FrameSet)]
    BY DEF IInv
  <1>2. CASE r = q
    <2>1. frames'[q] = t
      BY <1>1
    <2> QED
      BY <1>2, <2>1 DEF RunsAt
  <1>3. CASE r # q
    BY <1>1, <1>3 DEF RunsAt
  <1> QED
    BY <1>2, <1>3

\* Initially nothing runs and nothing is counted.
LEMMA InitPoolInv == Init => PoolInv
  <1> SUFFICES ASSUME Init PROVE PoolInv
    OBVIOUS
  <1>1. \A p : Running(p) = {}
    BY DEF Init, Running
  <1>2. IsFiniteSet({}) /\ Cardinality({}) = 0
    BY FS_EmptySet
  <1>3. \A p \in Paths : IsFiniteSet(Running(p)) /\ Cardinality(Running(p)) = 0
    BY <1>1, <1>2
  <1>4. /\ idle \in [Paths -> Int] /\ total \in [Paths -> Int]
        /\ \A p \in Paths : idle[p] = 0 /\ total[p] = 0
    BY DEF Init
  <1> QED
    BY <1>3, <1>4 DEF PoolInv, InstancesAccounted

\* A handler's last frame ends and takes its instance out of what is lent; a
\* command has none.
LEMMA EndKeepsPools ==
  ASSUME PoolInv, IInv, IInv', NEW q \in Roots, frames[q] # <<>>, Top(q).at = "run",
         frames' = [frames EXCEPT ![q] = Front(@)],
         idle' \in [Paths -> Int], total' \in [Paths -> Int],
         \A p \in Paths : total'[p] - idle'[p] =
           IF Top(q).fn \notin Commands /\ PathAt(q) = p THEN total[p] - idle[p] - 1
                                                        ELSE total[p] - idle[p]
  PROVE  PoolInv'
  <1> DEFINE k == Len(frames[q])
  <1>1. \A p : \A r \in Roots : \A i :
          RunsAt(r, i, p)' <=> RunsAt(r, i, p) /\ ~(r = q /\ i = k)
    BY FrameEnds
  <1>2. \A p : RunsAt(q, k, p) <=> Top(q).fn \notin Commands /\ PathAt(q) = p
    BY TopIs DEF RunsAt, PathAt
  <1> HIDE DEF k
  <1>3. \A p \in Paths :
          \/ /\ \A r \in Roots : \A i : RunsAt(r, i, p)' <=> RunsAt(r, i, p)
             /\ total'[p] - idle'[p] = total[p] - idle[p]
          \/ /\ RunsAt(q, k, p)
             /\ \A r \in Roots : \A i : RunsAt(r, i, p)' <=> RunsAt(r, i, p) /\ ~(r = q /\ i = k)
             /\ total'[p] - idle'[p] = total[p] - idle[p] - 1
    <2> SUFFICES ASSUME NEW p \in Paths
                 PROVE  \/ /\ \A r \in Roots : \A i : RunsAt(r, i, p)' <=> RunsAt(r, i, p)
                           /\ total'[p] - idle'[p] = total[p] - idle[p]
                        \/ /\ RunsAt(q, k, p)
                           /\ \A r \in Roots : \A i :
                                RunsAt(r, i, p)' <=> RunsAt(r, i, p) /\ ~(r = q /\ i = k)
                           /\ total'[p] - idle'[p] = total[p] - idle[p] - 1
      OBVIOUS
    <2>1. CASE RunsAt(q, k, p)
      BY <1>1, <1>2, <2>1
    <2>2. CASE ~RunsAt(q, k, p)
      BY <1>1, <1>2, <2>2
    <2> QED
      BY <2>1, <2>2
  <1> QED
    BY <1>3, PoolStep

\* Every step keeps the account of the instances.
LEMMA NextPoolInv == PoolInv /\ IInv /\ IInv' /\ [Next]_vars => PoolInv'
  <1> SUFFICES ASSUME PoolInv, IInv, IInv', [Next]_vars PROVE PoolInv'
    OBVIOUS
  <1>1. /\ idle \in [Paths -> Int] /\ total \in [Paths -> Int] /\ Size \in Int
        /\ frames \in [Roots -> Seq(FrameSet)]
        /\ \A p \in Paths : idle[p] \in Int /\ total[p] \in Int
    BY HostCallAssumption DEF PoolInv, IInv
  <1>2. ASSUME UNCHANGED <<idle, total>>,
               \A p : \A r \in Roots : \A i : RunsAt(r, i, p)' <=> RunsAt(r, i, p)
        PROVE  PoolInv'
    BY <1>1, <1>2, PoolKept
  <1>3. ASSUME UNCHANGED <<frames, idle, total>> PROVE PoolInv'
    BY <1>2, <1>3 DEF RunsAt
  <1>4. ASSUME NEW r \in Roots, Step(r) PROVE PoolInv'
    <2>1. CASE Refuse(r) \/ GiveUp(r)
      <3>1. /\ frames[r] # <<>> /\ Top(r).at # "run"
            /\ frames' = [frames EXCEPT ![r] = Front(@)]
            /\ UNCHANGED <<idle, total>>
        BY <2>1 DEF Refuse, GiveUp, Fail, Pop, At
      <3>2. \A p : ~RunsAt(r, Len(frames[r]), p)
        BY <3>1, TopIs DEF RunsAt
      <3> QED
        BY <1>2, <3>1, <3>2, FrameEnds
    <2>2. CASE EnterCommand(r)
      <3>1. /\ frames[r] # <<>> /\ Top(r).at # "run" /\ Top(r).fn \in Commands
            /\ Move(r, "run") /\ UNCHANGED <<idle, total>>
        BY <2>2 DEF EnterCommand, At
      <3> QED
        BY <1>2, <3>1, FrameMoves
    <2>3. CASE EnterHandler(r)
      <3>1. /\ frames[r] # <<>> /\ Top(r).at # "run" /\ Move(r, "wait")
            /\ PathAt(r) \in Paths
        BY <2>3, TopIs DEF EnterHandler, At
      <3>2. /\ idle' \in [Paths -> Int] /\ total' \in [Paths -> Int]
            /\ \A p \in Paths : total'[p] - idle'[p] = total[p] - idle[p]
        BY <1>1, <2>3, <3>1 DEF EnterHandler, Refill
      <3>3. \A p : \A q \in Roots : \A i : RunsAt(q, i, p)' <=> RunsAt(q, i, p)
        BY <3>1, FrameMoves
      <3> QED
        BY <3>2, <3>3, PoolKept
    <2>4. CASE Acquire(r)
      <3> DEFINE k == Len(frames[r])
      <3>1. /\ frames[r] # <<>> /\ Top(r).at # "run" /\ Move(r, "run")
            /\ PathAt(r) \in Paths
        BY <2>4, TopIs DEF Acquire, At
      <3>2. /\ idle' \in [Paths -> Int] /\ total' \in [Paths -> Int]
            /\ \A p \in Paths : total'[p] - idle'[p] =
                 IF p = PathAt(r) THEN total[p] - idle[p] + 1 ELSE total[p] - idle[p]
        BY <1>1, <2>4, <3>1 DEF Acquire
      <3>3. \A p : \A q \in Roots : \A i :
              /\ RunsAt(q, i, p)' <=>
                   \/ RunsAt(q, i, p)
                   \/ q = r /\ i = k /\ Top(r).fn \notin Commands /\ PathAt(r) = p
              /\ ~RunsAt(r, k, p)
        BY <3>1, FrameMoves
      <3>4. Top(r).fn \notin Commands
        <4>1. Top(r) = frames[r][Len(frames[r])] /\ Len(frames[r]) \in 1..Len(frames[r])
          BY <3>1, TopIs
        <4>2. frames[r][Len(frames[r])].at = "wait"
          BY <2>4, <4>1 DEF Acquire, At
        <4>3. Chain(frames[r])
          BY DEF IInv
        <4> QED
          BY <4>1, <4>2, <4>3 DEF Chain
      <3> HIDE DEF k
      <3>5. \A p \in Paths :
              \/ /\ \A q \in Roots : \A i : RunsAt(q, i, p)' <=> RunsAt(q, i, p)
                 /\ total'[p] - idle'[p] = total[p] - idle[p]
              \/ /\ ~RunsAt(r, k, p)
                 /\ \A q \in Roots : \A i : RunsAt(q, i, p)' <=> RunsAt(q, i, p) \/ (q = r /\ i = k)
                 /\ total'[p] - idle'[p] = total[p] - idle[p] + 1
        <4> TAKE p \in Paths
        <4>1. CASE p = PathAt(r)
          BY <3>2, <3>3, <3>4, <4>1
        <4>2. CASE p # PathAt(r)
          BY <3>2, <3>3, <4>2
        <4> QED
          BY <4>1, <4>2
      <3>6. idle' \in [Paths -> Int] /\ total' \in [Paths -> Int]
        BY <3>2
      <3> QED
        BY <3>5, <3>6, PoolStep
    <2>5. CASE CallRefused(r)
      BY <1>3, <2>5 DEF CallRefused
    <2>6. CASE RunFails(r)
      <3>1. /\ frames[r] # <<>> /\ Top(r).at = "run" /\ PathAt(r) \in Paths
            /\ frames' = [frames EXCEPT ![r] = Front(@)]
        BY <2>6, TopIs DEF RunFails, Fail, Pop, At
      <3>2. /\ idle' \in [Paths -> Int] /\ total' \in [Paths -> Int]
            /\ \A p \in Paths : total'[p] - idle'[p] =
                 IF Top(r).fn \notin Commands /\ PathAt(r) = p THEN total[p] - idle[p] - 1
                                                              ELSE total[p] - idle[p]
        BY <1>1, <2>6, <3>1 DEF RunFails, Discard
      <3> QED
        BY <3>1, <3>2, EndKeepsPools
    <2>7. ASSUME NEW f \in Functions, Call(r, f) PROVE PoolInv'
      <3>1. /\ frames[r] # <<>> /\ UNCHANGED <<idle, total>>
            /\ frames' = [frames EXCEPT ![r] = Append(frames[r], Frame(f))]
        BY <2>7 DEF Call, At
      <3>2. /\ frames[r] \in Seq(FrameSet) /\ Len(frames[r]) \in Nat
        BY <1>1
      <3>3. /\ Len(Append(frames[r], Frame(f))) = Len(frames[r]) + 1
            /\ \A i \in 1..Len(frames[r]) : Append(frames[r], Frame(f))[i] = frames[r][i]
            /\ Append(frames[r], Frame(f))[Len(frames[r]) + 1].at = "enter"
        BY <3>2 DEF Frame
      <3>4. \A p : \A q \in Roots : \A i : RunsAt(q, i, p)' <=> RunsAt(q, i, p)
        <4> DEFINE t == Append(frames[r], Frame(f))
        <4>1. \A i \in 1..Len(t) : i # Len(frames[r]) + 1 => i \in 1..Len(frames[r])
          BY <3>2, <3>3
        <4> HIDE DEF t
        <4>2. frames' = [frames EXCEPT ![r] = t]
          BY <3>1 DEF t
        <4>3. /\ Len(t) = Len(frames[r]) + 1
              /\ \A i \in 1..Len(frames[r]) : t[i] = frames[r][i]
              /\ t[Len(frames[r]) + 1].at = "enter"
          BY <3>3 DEF t
        <4>4. /\ \A i : i \in 1..Len(t) /\ t[i].at = "run" <=>
                        i \in 1..Len(frames[r]) /\ frames[r][i].at = "run"
              /\ \A i \in 1..Len(frames[r]) : t[i].fn = frames[r][i].fn
          BY <3>2, <4>1, <4>3
        <4> QED
          BY <4>2, <4>4, FrameWaits
      <3> QED
        BY <1>2, <3>1, <3>4
    <2>8. ASSUME NEW size \in 0..(HalfWord - 1), Return(r, size) PROVE PoolInv'
      <3>1. /\ frames[r] # <<>> /\ Top(r).at = "run" /\ PathAt(r) \in Paths
            /\ frames' = [frames EXCEPT ![r] = Front(@)]
        BY <2>8, TopIs DEF Return, Pop, At
      <3>2. /\ idle' \in [Paths -> Int] /\ total' \in [Paths -> Int]
            /\ \A p \in Paths : total'[p] - idle'[p] =
                 IF Top(r).fn \notin Commands /\ PathAt(r) = p THEN total[p] - idle[p] - 1
                                                              ELSE total[p] - idle[p]
        BY <1>1, <2>8, <3>1 DEF Return, GiveBack
      <3> QED
        BY <3>1, <3>2, EndKeepsPools
    <2> QED
      BY <1>4, <2>1, <2>2, <2>3, <2>4, <2>5, <2>6, <2>7, <2>8 DEF Step
  <1>5. ASSUME NEW r \in Roots, NEW f \in Functions, Start(r, f) PROVE PoolInv'
    <2> DEFINE t == <<Frame(f)>>
    <2>1. /\ frames' = [frames EXCEPT ![r] = t] /\ frames[r] = <<>>
          /\ UNCHANGED <<idle, total>>
      BY <1>5 DEF Start
    <2>2. Len(t) = 1 /\ t[1].at = "enter" /\ Len(<<>>) = 0
      BY DEF Frame
    <2> HIDE DEF t
    <2>3. /\ \A i : i \in 1..Len(t) /\ t[i].at = "run" <=>
                    i \in 1..Len(frames[r]) /\ frames[r][i].at = "run"
          /\ \A i \in 1..Len(frames[r]) : t[i].fn = frames[r][i].fn
      BY <2>1, <2>2
    <2> QED
      BY <1>2, <2>1, <2>3, FrameWaits
  <1>6. ASSUME NEW r \in Roots, NEW i \in 1..(MaxDepth + 1), Expire(r, i) PROVE PoolInv'
    <2> DEFINE t == [frames[r] EXCEPT ![i].late = TRUE]
    <2>1. /\ frames' = [frames EXCEPT ![r] = t] /\ UNCHANGED <<idle, total>>
          /\ i \in DOMAIN frames[r]
      BY <1>6 DEF Expire
    <2>2. frames[r] \in Seq(FrameSet)
      BY <1>1
    <2>3. /\ Len(t) = Len(frames[r])
          /\ \A k \in 1..Len(frames[r]) : t[k].fn = frames[r][k].fn /\ t[k].at = frames[r][k].at
      BY <2>1, <2>2, LateIs
    <2> HIDE DEF t
    <2> QED
      BY <1>2, <2>1, <2>3, FrameWaits
  <1>7. CASE Finished \/ UNCHANGED vars
    BY <1>3, <1>7 DEF Finished, vars
  <1> QED
    BY <1>4, <1>5, <1>6, <1>7 DEF Next

\* Every instance that a pool counts is idle or with one running frame of one
\* chain, however calls are nested, fail or time out.
THEOREM InstancesAreAccounted == Spec => []InstancesAccounted
  <1>1. PoolInv => InstancesAccounted
    BY DEF PoolInv
  <1>2. Spec => [](IInv /\ PoolInv)
    BY InitInv, NextInv, InitPoolInv, NextPoolInv, PTL DEF Spec
  <1> QED
    BY <1>1, <1>2, PTL

-----------------------------------------------------------------------------
(* The host calls. *)

\* Every host call is answered, with a success or a failure, or a frame.
CallInv ==
  /\ FailuresAgree
  /\ succeeded \in Nat /\ failed \in Nat /\ hostCalls \in 0..MaxHostCalls
  /\ IsFiniteSet(Nested)
  /\ hostCalls = succeeded + failed + Cardinality(Nested)

NestedByFrames == \A r, i : <<r, i>> \in Nested <=> r \in Roots /\ i \in 2..Len(frames[r])

\* How long a chain is.
LEMMA LengthIs ==
  ASSUME IInv, NEW r \in Roots
  PROVE  /\ frames[r] \in Seq(FrameSet) /\ Len(frames[r]) \in Nat
         /\ DOMAIN frames[r] = 1..Len(frames[r]) /\ Len(frames[r]) <= MaxDepth + 1
         /\ frames[r] = <<>> <=> Len(frames[r]) = 0
  <1>1. frames[r] \in Seq(FrameSet) /\ Chain(frames[r])
    BY DEF IInv
  <1>2. /\ Len(frames[r]) \in Nat /\ DOMAIN frames[r] = 1..Len(frames[r])
        /\ frames[r] = <<>> <=> Len(frames[r]) = 0
    BY <1>1, LenProperties, EmptySeq
  <1>3. Len(frames[r]) <= MaxDepth + 1
    BY <1>1, <1>2, HostCallAssumption DEF Chain
  <1> QED
    BY <1>1, <1>2, <1>3

\* Nested has all frames above the first: chains are not longer than the bound.
LEMMA NestedIs == IInv => NestedByFrames
  <1> SUFFICES ASSUME IInv
               PROVE  \A r, i : <<r, i>> \in Nested <=> r \in Roots /\ i \in 2..Len(frames[r])
    BY DEF NestedByFrames
  <1>1. \A r \in Roots : \A i : i \in 2..(MaxDepth + 1) /\ i \in DOMAIN frames[r] <=> i \in 2..Len(frames[r])
    BY LengthIs, HostCallAssumption
  <1> QED
    BY <1>1 DEF Nested

\* The host calls under way, before and after a step of one chain.
LEMMA NestedStep ==
  ASSUME IInv, IInv', NEW q \in Roots, \A r \in Roots \ {q} : frames'[r] = frames[r]
  PROVE  LET k == Len(frames[q])
             l == Len(frames'[q])
         IN  /\ l = k \/ {k, l} = {0, 1} => Nested' = Nested
             /\ l = k + 1 /\ k > 0 => <<q, l>> \notin Nested /\ Nested' = Nested \cup {<<q, l>>}
             /\ l = k - 1 /\ k > 1 => <<q, k>> \in Nested /\ Nested' = Nested \ {<<q, k>>}
  <1> DEFINE k == Len(frames[q])
             l == Len(frames'[q])
             O == Nested
             N == Nested'
  <1>1. \A r, i : <<r, i>> \in O <=> r \in Roots /\ i \in 2..Len(frames[r])
    BY NestedIs DEF NestedByFrames
  <1>2. \A r, i : <<r, i>> \in N <=> r \in Roots /\ i \in 2..Len(frames'[r])
    <2>1. NestedByFrames'
      BY NestedIs, PTL
    <2> QED
      BY <2>1 DEF NestedByFrames
  <1>3. \A x \in O \cup N : \E r, i : x = <<r, i>>
    <2>1. \A x \in O \cup N : x = <<x[1], x[2]>>
      BY DEF Nested
    <2> QED
      BY <2>1
  <1>4. k \in Nat /\ l \in Nat
    <2>1. k \in Nat
      BY LengthIs
    <2>2. l \in Nat
      BY LenProperties DEF IInv
    <2> QED
      BY <2>1, <2>2
  <1>5. \A r, i : r # q => (<<r, i>> \in N <=> <<r, i>> \in O)
    BY <1>1, <1>2
  <1>6. \A i : (<<q, i>> \in O <=> i \in 2..k) /\ (<<q, i>> \in N <=> i \in 2..l)
    BY <1>1, <1>2
  <1> HIDE DEF O, N, k, l
  <1>7. ASSUME l = k \/ {k, l} = {0, 1} PROVE N = O
    <2>1. \A i : i \in 2..k <=> i \in 2..l
      <3>1. l = k \/ (k = 0 /\ l = 1) \/ (k = 1 /\ l = 0)
        BY <1>7
      <3> QED
        BY <3>1
    <2> QED
      BY <1>3, <1>5, <1>6, <2>1
  <1>8. ASSUME l = k + 1, k > 0 PROVE <<q, l>> \notin O /\ N = O \cup {<<q, l>>}
    <2>1. \A i : i \in 2..l <=> i \in 2..k \/ i = l
      BY <1>4, <1>8
    <2>2. l \notin 2..k
      BY <1>4, <1>8
    <2> QED
      BY <1>3, <1>5, <1>6, <2>1, <2>2
  <1>9. ASSUME l = k - 1, k > 1 PROVE <<q, k>> \in O /\ N = O \ {<<q, k>>}
    <2>1. \A i : i \in 2..l <=> i \in 2..k /\ i # k
      BY <1>4, <1>9
    <2>2. k \in 2..k
      BY <1>4, <1>9
    <2> QED
      BY <1>3, <1>5, <1>6, <2>1, <2>2
  <1> QED
    BY <1>7, <1>8, <1>9 DEF O, N, k, l

\* One more host call has been answered.
Answered ==
  \/ succeeded' = succeeded + 1 /\ failed' = failed
  \/ succeeded' = succeeded /\ failed' = failed + 1

\* A reply is a success or a failure.
LEMMA ReplyCounts ==
  ASSUME CallInv, NEW status \in Statuses, NEW size \in 0..(HalfWord - 1), Reply(status, size)
  PROVE  FailuresAgree' /\ Answered
  <1>1. FailuresAgree'
    BY ReplyAgrees DEF CallInv
  <1>2. Answered
    BY DEF Reply, Answered
  <1> QED
    BY <1>1, <1>2

\* One host call fewer is under way, if the frame was one.
LEMMA NestedEnds ==
  ASSUME IInv, IInv', NEW r \in Roots, frames[r] # <<>>, frames' = [frames EXCEPT ![r] = Front(@)]
  PROVE  IF Len(frames[r]) = 1 THEN Nested' = Nested
         ELSE \E x \in Nested : Nested' = Nested \ {x}
  <1> DEFINE k == Len(frames[r])
             l == Len(frames'[r])
  <1>1. /\ k \in Nat /\ k > 0 /\ l = k - 1
        /\ \A q \in Roots \ {r} : frames'[q] = frames[q]
    <2>1. k \in Nat /\ k > 0 /\ Len(Front(frames[r])) = k - 1
      BY LengthIs, FrontIs
    <2> QED
      BY <2>1 DEF IInv
  <1>2. /\ l = k \/ {k, l} = {0, 1} => Nested' = Nested
        /\ l = k - 1 /\ k > 1 => <<r, k>> \in Nested /\ Nested' = Nested \ {<<r, k>>}
    BY <1>1, NestedStep
  <1> HIDE DEF k, l
  <1>3. CASE k = 1
    <2>1. {k, l} = {0, 1}
      BY <1>1, <1>3
    <2> QED
      BY <1>2, <1>3, <2>1 DEF k
  <1>4. CASE k # 1
    <2>1. k > 1
      BY <1>1, <1>4
    <2> QED
      BY <1>1, <1>2, <1>4, <2>1 DEF k
  <1> QED
    BY <1>3, <1>4

\* A host call that is answered leaves the frames, or was never among them.
LEMMA AnswerCounts ==
  ASSUME CallInv, FailuresAgree', Answered,
         \/ hostCalls' = hostCalls /\ \E x \in Nested : Nested' = Nested \ {x}
         \/ hostCalls' = hostCalls + 1 /\ hostCalls < MaxHostCalls /\ Nested' = Nested
  PROVE  CallInv'
  <1> DEFINE n == Cardinality(Nested)
             m == Cardinality(Nested')
  <1>1. /\ IsFiniteSet(Nested') /\ n \in Nat /\ m \in Nat
        /\ \/ hostCalls' = hostCalls /\ m = n - 1
           \/ hostCalls' = hostCalls + 1 /\ m = n
    BY CountOneMore, FS_CardinalityType DEF CallInv
  <1>2. /\ hostCalls = succeeded + failed + n
        /\ hostCalls \in 0..MaxHostCalls /\ succeeded \in Nat /\ failed \in Nat
    BY DEF CallInv
  <1>3. hostCalls' \in 0..MaxHostCalls
    BY <1>2, HostCallAssumption
  <1> HIDE DEF n, m
  <1>4. /\ succeeded' \in Nat /\ failed' \in Nat
        /\ hostCalls' = succeeded' + failed' + m
    BY <1>1, <1>2 DEF Answered
  <1> QED
    BY <1>1, <1>3, <1>4, Zenon DEF CallInv, m

\* The end of a frame answers a host call, or an invocation that is none.
LEMMA PopCounts ==
  ASSUME CallInv, IInv, IInv', NEW r \in Roots, NEW replies, Pop(r, replies), frames[r] # <<>>,
         \A reply \in replies : reply[1] \in Statuses /\ reply[2] \in 0..(HalfWord - 1)
  PROVE  CallInv'
  <1>1. frames' = [frames EXCEPT ![r] = Front(@)] /\ hostCalls' = hostCalls
    BY DEF Pop
  <1>2. IF Len(frames[r]) = 1 THEN Nested' = Nested ELSE \E x \in Nested : Nested' = Nested \ {x}
    BY <1>1, NestedEnds
  <1>3. CASE Len(frames[r]) = 1
    <2>1. UNCHANGED <<hostCalls, failures, succeeded, failed>>
      BY <1>3 DEF Pop
    <2> QED
      BY <1>2, <1>3, <2>1 DEF CallInv, FailuresAgree
  <1>4. CASE Len(frames[r]) # 1
    <2>1. PICK reply \in replies : Reply(reply[1], reply[2])
      BY <1>4 DEF Pop
    <2>2. FailuresAgree' /\ Answered
      BY <2>1, ReplyCounts
    <2> QED
      BY <1>1, <1>2, <1>4, <2>2, AnswerCounts
  <1> QED
    BY <1>3, <1>4

\* A step that counts nothing and leaves every chain as long as it is.
LEMMA CallsKept ==
  ASSUME CallInv, IInv, IInv', UNCHANGED counters, NEW q \in Roots,
         \A r \in Roots \ {q} : frames'[r] = frames[r],
         Len(frames'[q]) = Len(frames[q]) \/ {Len(frames[q]), Len(frames'[q])} = {0, 1}
  PROVE  CallInv'
  <1>1. Nested' = Nested
    BY NestedStep
  <1> QED
    BY <1>1 DEF CallInv, FailuresAgree, counters

\* Initially nothing has been called.
LEMMA InitCallInv == Init => CallInv
  <1> SUFFICES ASSUME Init PROVE CallInv
    OBVIOUS
  <1>1. Nested = {}
    BY DEF Init, Nested
  <1> QED
    BY <1>1, FS_EmptySet, HostCallAssumption DEF Init, CallInv, FailuresAgree

\* Every step keeps the account of the host calls.
LEMMA NextCallInv == CallInv /\ IInv /\ IInv' /\ [Next]_vars => CallInv'
  <1> SUFFICES ASSUME CallInv, IInv, IInv', [Next]_vars PROVE CallInv'
    OBVIOUS
  <1>1. TargetError \in Statuses /\ InvalidMemory \in Statuses /\ 0 \in 0..(HalfWord - 1)
    BY HostCallAssumption DEF Statuses
  <1>2. ASSUME NEW q \in Roots, NEW t, frames' = [frames EXCEPT ![q] = t], UNCHANGED counters,
               Len(t) = Len(frames[q]) \/ {Len(frames[q]), Len(t)} = {0, 1}
        PROVE  CallInv'
    BY <1>2, CallsKept DEF IInv
  <1>3. ASSUME NEW r \in Roots, NEW phase \in {"wait", "run"}, Move(r, phase), frames[r] # <<>>,
               UNCHANGED counters
        PROVE  CallInv'
    <2> DEFINE t == Front(frames[r]) \o <<[Last(frames[r]) EXCEPT !.at = phase]>>
    <2>1. Len(t) = Len(frames[r])
      BY <1>3, LengthIs, PhaseIs
    <2>2. frames' = [frames EXCEPT ![r] = t]
      BY <1>3 DEF Move
    <2> HIDE DEF t
    <2> QED
      BY <1>2, <1>3, <2>1, <2>2
  <1>4. ASSUME NEW r \in Roots, Step(r) PROVE CallInv'
    <2>1. CASE Refuse(r) \/ GiveUp(r) \/ RunFails(r)
      BY <1>1, <2>1, PopCounts DEF Refuse, GiveUp, RunFails, Fail, At
    <2>2. ASSUME NEW size \in 0..(HalfWord - 1), Return(r, size) PROVE CallInv'
      <3>1. \A reply \in Replies(Top(r).fn, size) :
              reply[1] \in Statuses /\ reply[2] \in 0..(HalfWord - 1)
        BY <1>1 DEF Replies, Statuses
      <3> QED
        BY <2>2, <3>1, PopCounts DEF Return, At
    <2>3. CASE EnterCommand(r) \/ EnterHandler(r) \/ Acquire(r)
      BY <1>3, <2>3 DEF EnterCommand, EnterHandler, Acquire, At
    <2>4. CASE CallRefused(r)
      <3>1. PICK status \in {InvalidMemory, TargetError} : Reply(status, 0)
        BY <2>4 DEF CallRefused
      <3>2. FailuresAgree' /\ Answered
        BY <1>1, <3>1, ReplyCounts
      <3>3. hostCalls < MaxHostCalls /\ hostCalls' = hostCalls + 1 /\ Nested' = Nested
        BY <2>4 DEF CallRefused, Nested
      <3> QED
        BY <3>2, <3>3, AnswerCounts
    <2>5. ASSUME NEW f \in Functions, Call(r, f) PROVE CallInv'
      <3>1. /\ Len(frames[r]) > 0 /\ hostCalls < MaxHostCalls /\ hostCalls' = hostCalls + 1
            /\ frames' = [frames EXCEPT ![r] = Append(@, Frame(f))]
            /\ UNCHANGED <<failures, succeeded, failed>>
        BY <2>5, LengthIs DEF Call, At
      <3>2. /\ Len(frames'[r]) = Len(frames[r]) + 1
            /\ \A q \in Roots \ {r} : frames'[q] = frames[q]
        <4>1. frames[r] \in Seq(FrameSet)
          BY LengthIs
        <4> QED
          BY <3>1, <4>1, AppendProperties DEF IInv, Frame, FrameSet
      <3> DEFINE x == <<r, Len(frames'[r])>>
      <3>3. x \notin Nested /\ Nested' = Nested \cup {x}
        BY <3>1, <3>2, NestedStep
      <3>4. /\ IsFiniteSet(Nested') /\ Cardinality(Nested) \in Nat
            /\ Cardinality(Nested') = Cardinality(Nested) + 1
        BY <3>3, CountOneMore DEF CallInv
      <3> QED
        BY <3>1, <3>4, HostCallAssumption DEF CallInv, FailuresAgree
    <2> QED
      BY <1>4, <2>1, <2>2, <2>3, <2>4, <2>5 DEF Step
  <1>5. ASSUME NEW r \in Roots, NEW f \in Functions, Start(r, f) PROVE CallInv'
    <2>1. frames' = [frames EXCEPT ![r] = <<Frame(f)>>] /\ UNCHANGED counters /\ frames[r] = <<>>
      BY <1>5 DEF Start
    <2>2. Len(<<Frame(f)>>) = 1 /\ Len(frames[r]) = 0
      BY <2>1
    <2> QED
      BY <1>2, <2>1, <2>2
  <1>6. ASSUME NEW r \in Roots, NEW i \in 1..(MaxDepth + 1), Expire(r, i) PROVE CallInv'
    <2> DEFINE t == [frames[r] EXCEPT ![i].late = TRUE]
    <2>1. frames' = [frames EXCEPT ![r] = t] /\ UNCHANGED counters /\ i \in DOMAIN frames[r]
      BY <1>6 DEF Expire
    <2>2. Len(t) = Len(frames[r])
      BY <2>1, LengthIs, LateIs
    <2> HIDE DEF t
    <2> QED
      BY <1>2, <2>1, <2>2
  <1>7. CASE Finished \/ UNCHANGED vars
    <2>1. UNCHANGED <<frames, counters>>
      BY <1>7 DEF Finished, vars
    <2>2. Nested' = Nested
      BY <2>1 DEF Nested
    <2> QED
      BY <2>1, <2>2 DEF CallInv, FailuresAgree, counters
  <1> QED
    BY <1>4, <1>5, <1>6, <1>7 DEF Next

\* Every host call was answered once, and counted as its caller saw it, or is a
\* frame of a chain.
THEOREM CallsAreAccounted == Spec => []FailuresCounted
  <1>1. CallInv => FailuresCounted
    BY DEF CallInv, FailuresCounted
  <1>2. Spec => [](IInv /\ CallInv)
    BY InitInv, NextInv, InitCallInv, NextCallInv, PTL DEF Spec
  <1> QED
    BY <1>1, <1>2, PTL

-----------------------------------------------------------------------------
(* Types. *)

\* Only the last frame of a chain does not run, and a root that ended has no chain.
Chains ==
  /\ \A r \in Roots : \A i \in 1..(Len(frames[r]) - 1) : frames[r][i].at = "run"
  /\ ended \subseteq Roots /\ \A r \in ended : frames[r] = <<>>

\* A pool lends no more than it has, and counts no more than its size.
Bounds == \A p \in Paths : idle[p] >= 0 /\ total[p] <= Size

\* A step of one chain keeps the others.
LEMMA ChainsKept ==
  ASSUME Chains, IInv, NEW q \in Roots, NEW t, frames' = [frames EXCEPT ![q] = t],
         \A i \in 1..(Len(t) - 1) : t[i].at = "run",
         \/ ended' = ended /\ q \notin ended
         \/ ended' = ended \cup {q} /\ t = <<>>
  PROVE  Chains'
  <1>1. \A r \in Roots : frames'[r] = IF r = q THEN t ELSE frames[r]
    BY DEF IInv
  <1>2. \A r \in Roots : \A i \in 1..(Len(frames'[r]) - 1) : frames'[r][i].at = "run"
    BY <1>1 DEF Chains
  <1>3. ended' \subseteq Roots /\ \A r \in ended' : frames'[r] = <<>>
    BY <1>1 DEF Chains
  <1> QED
    BY <1>2, <1>3 DEF Chains

\* The last frame of a chain ends.
LEMMA ChainsPop ==
  ASSUME Chains, IInv, NEW q \in Roots, NEW replies, Pop(q, replies), frames[q] # <<>>
  PROVE  Chains'
  <1> DEFINE t == Front(frames[q])
             k == Len(frames[q])
  <1>1. /\ k \in Nat /\ t \in Seq(FrameSet) /\ Len(t) = k - 1
        /\ \A i \in 1..(k - 1) : t[i] = frames[q][i]
    BY LengthIs, FrontIs
  <1>2. \A i \in 1..(k - 1) : frames[q][i].at = "run"
    BY DEF Chains
  <1>3. frames' = [frames EXCEPT ![q] = t]
    BY DEF Pop
  <1>4. \/ ended' = ended /\ q \notin ended
        \/ ended' = ended \cup {q} /\ t = <<>>
    <2>1. q \notin ended
      BY DEF Chains
    <2>2. k = 1 => t = <<>>
      BY <1>1, EmptySeq
    <2> QED
      BY <2>1, <2>2 DEF Pop
  <1> HIDE DEF t, k
  <1>5. \A i \in 1..(Len(t) - 1) : t[i].at = "run"
    BY <1>1, <1>2
  <1> QED
    BY <1>3, <1>4, <1>5, ChainsKept

\* Every step keeps the chains linear.
LEMMA NextChains == Chains /\ IInv /\ [Next]_vars => Chains'
  <1> SUFFICES ASSUME Chains, IInv, [Next]_vars PROVE Chains'
    OBVIOUS
  <1>1. \A r \in Roots : frames[r] # <<>> => r \notin ended
    BY DEF Chains
  <1>2. ASSUME NEW r \in Roots, NEW phase \in {"wait", "run"}, Move(r, phase), frames[r] # <<>>,
               ended' = ended
        PROVE  Chains'
    <2> DEFINE t == Front(frames[r]) \o <<[Last(frames[r]) EXCEPT !.at = phase]>>
    <2>1. /\ Len(t) = Len(frames[r])
          /\ \A i \in 1..(Len(frames[r]) - 1) : t[i].at = frames[r][i].at
      BY <1>2, LengthIs, PhaseIs
    <2>2. frames' = [frames EXCEPT ![r] = t]
      BY <1>2 DEF Move
    <2> HIDE DEF t
    <2>3. \A i \in 1..(Len(t) - 1) : t[i].at = "run"
      BY <2>1 DEF Chains
    <2> QED
      BY <1>1, <1>2, <2>2, <2>3, ChainsKept
  <1>3. ASSUME NEW r \in Roots, Step(r) PROVE Chains'
    <2>1. CASE Refuse(r) \/ GiveUp(r) \/ RunFails(r) \/ \E size \in 0..(HalfWord - 1) : Return(r, size)
      BY <2>1, ChainsPop DEF Refuse, GiveUp, RunFails, Return, Fail, At
    <2>2. CASE EnterCommand(r) \/ EnterHandler(r) \/ Acquire(r)
      BY <1>2, <2>2 DEF EnterCommand, EnterHandler, Acquire, At
    <2>3. CASE CallRefused(r)
      BY <2>3 DEF CallRefused, Chains
    <2>4. ASSUME NEW f \in Functions, Call(r, f) PROVE Chains'
      <3> DEFINE t == Append(frames[r], Frame(f))
                 k == Len(frames[r])
      <3>1. /\ frames' = [frames EXCEPT ![r] = t] /\ ended' = ended
            /\ frames[r] # <<>> /\ frames[r][k].at = "run"
        BY <2>4 DEF Call, At, Top, Last
      <3>2. /\ k \in Nat /\ Len(t) = k + 1
            /\ \A i \in 1..k : t[i] = frames[r][i]
        BY LengthIs, AppendProperties DEF Frame, FrameSet
      <3>3. \A i \in 1..(k - 1) : frames[r][i].at = "run"
        BY DEF Chains
      <3> HIDE DEF t, k
      <3>4. \A i \in 1..(Len(t) - 1) : t[i].at = "run"
        <4>1. \A i \in 1..k : i = k \/ i \in 1..(k - 1)
          BY <3>2
        <4>2. Len(t) - 1 = k
          BY <3>2
        <4> QED
          BY <3>1, <3>2, <3>3, <4>1, <4>2
      <3> QED
        BY <1>1, <3>1, <3>4, ChainsKept
    <2> QED
      BY <1>3, <2>1, <2>2, <2>3, <2>4 DEF Step
  <1>4. ASSUME NEW r \in Roots, NEW f \in Functions, Start(r, f) PROVE Chains'
    <2> DEFINE t == <<Frame(f)>>
    <2>1. frames' = [frames EXCEPT ![r] = t] /\ ended' = ended /\ r \notin ended
      BY <1>4 DEF Start
    <2>2. Len(t) = 1
      OBVIOUS
    <2> HIDE DEF t
    <2>3. \A i \in 1..(Len(t) - 1) : t[i].at = "run"
      BY <2>2
    <2> QED
      BY <2>1, <2>3, ChainsKept
  <1>5. ASSUME NEW r \in Roots, NEW i \in 1..(MaxDepth + 1), Expire(r, i) PROVE Chains'
    <2> DEFINE t == [frames[r] EXCEPT ![i].late = TRUE]
    <2>1. /\ frames' = [frames EXCEPT ![r] = t] /\ ended' = ended
          /\ i \in DOMAIN frames[r] /\ frames[r] # <<>>
      BY <1>5 DEF Expire
    <2>2. /\ Len(t) = Len(frames[r])
          /\ \A k \in 1..Len(frames[r]) : t[k].at = frames[r][k].at
      BY <2>1, LengthIs, LateIs
    <2>3. \A k \in 1..(Len(frames[r]) - 1) : k \in 1..Len(frames[r])
      BY LengthIs
    <2> HIDE DEF t
    <2>4. \A k \in 1..(Len(t) - 1) : t[k].at = "run"
      BY <2>2, <2>3 DEF Chains
    <2> QED
      BY <1>1, <2>1, <2>4, ChainsKept
  <1>6. CASE Finished \/ UNCHANGED vars
    BY <1>6 DEF Finished, vars, Chains
  <1> QED
    BY <1>3, <1>4, <1>5, <1>6 DEF Next

\* Every step keeps the pools within their bounds.
LEMMA NextBounds == Bounds /\ PoolInv /\ IInv /\ [Next]_vars => Bounds'
  <1> SUFFICES ASSUME Bounds, PoolInv, IInv, [Next]_vars PROVE Bounds'
    OBVIOUS
  <1>1. /\ idle \in [Paths -> Int] /\ total \in [Paths -> Int] /\ Size \in Nat
        /\ \A p \in Paths : idle[p] \in Int /\ total[p] \in Int
    BY HostCallAssumption DEF PoolInv
  <1>2. ASSUME UNCHANGED <<idle, total>> PROVE Bounds'
    BY <1>2 DEF Bounds
  <1>3. ASSUME NEW r \in Roots, EnterHandler(r) PROVE Bounds'
    <2>1. /\ idle' = [idle EXCEPT ![PathAt(r)] = @ + (Size - total[PathAt(r)])]
          /\ total' = [total EXCEPT ![PathAt(r)] = Size]
      BY <1>3 DEF EnterHandler, Refill
    <2>2. PathAt(r) \in Paths
      BY <1>3, TopIs DEF EnterHandler, At
    <2> QED
      BY <1>1, <2>1, <2>2 DEF Bounds
  <1>4. ASSUME NEW r \in Roots, Acquire(r) PROVE Bounds'
    BY <1>1, <1>4 DEF Acquire, Bounds
  <1>5. ASSUME NEW r \in Roots, NEW size \in 0..(HalfWord - 1), Return(r, size) PROVE Bounds'
    BY <1>1, <1>5 DEF Return, GiveBack, Bounds
  <1>6. ASSUME NEW r \in Roots, RunFails(r) PROVE Bounds'
    BY <1>1, <1>6 DEF RunFails, Discard, Bounds
  <1>7. ASSUME NEW r \in Roots, Step(r) PROVE Bounds'
    BY <1>2, <1>3, <1>4, <1>5, <1>6, <1>7
       DEF Step, Refuse, EnterCommand, GiveUp, CallRefused, Call
  <1> QED
    BY <1>2, <1>7 DEF Next, Start, Expire, Finished, vars

\* The invariants together give every variable its type.
LEMMA Typed == IInv /\ PoolInv /\ CallInv /\ Chains /\ Bounds => TypeOK
  <1> SUFFICES ASSUME IInv, PoolInv, CallInv, Chains, Bounds PROVE TypeOK
    OBVIOUS
  <1>1. idle \in [Paths -> 0..Size] /\ total \in [Paths -> 0..Size]
    <2>1. \A p \in Paths : Cardinality(Running(p)) \in Nat
      BY FS_CardinalityType DEF PoolInv
    <2>2. \A p \in Paths : idle[p] \in 0..Size /\ total[p] \in 0..Size
      BY <2>1, HostCallAssumption DEF PoolInv, InstancesAccounted, Bounds
    <2> QED
      BY <2>2 DEF PoolInv
  <1>2. failures \in 0..hostCalls
    <2>1. Cardinality(Nested) \in Nat
      BY FS_CardinalityType DEF CallInv
    <2> QED
      BY <2>1 DEF CallInv, FailuresAgree
  <1> QED
    BY <1>1, <1>2 DEF TypeOK, IInv, FrameSet, Chains, CallInv

\* Every variable keeps its type; a pool neither lends nor counts more than its size.
THEOREM TypeCorrect == Spec => []TypeOK
  <1>1. Init => Chains
    BY DEF Init, Chains
  <1>2. Init => Bounds
    BY HostCallAssumption DEF Init, Bounds
  <1> QED
    BY InitInv, NextInv, InitPoolInv, NextPoolInv, InitCallInv, NextCallInv, NextChains, NextBounds,
       Typed, <1>1, <1>2, PTL DEF Spec
-----------------------------------------------------------------------------
(* When nobody waits for an instance that somebody else keeps. *)

\* No two handlers share a module.
OwnModules ==
  \A f, g \in Functions \ Commands : PathOf[f] = PathOf[g] => f = g

\* The chains that are under way are no more than a pool has instances: the workers
\* of the dispatcher, when there are no more of them than HandlerPoolSize.
Active == {r \in Roots : frames[r] # <<>>}
Few == IsFiniteSet(Active) /\ Cardinality(Active) <= Size

WaitsFor(r, p) ==
  \E i \in 1..Len(frames[r]) : frames[r][i].at = "wait" /\ PathOf[frames[r][i].fn] = p

Waiters(p) == {r \in Roots : WaitsFor(r, p)}

\* There is an idle instance for each of those who wait for one.
Enough(p) == IsFiniteSet(Waiters(p)) /\ Cardinality(Waiters(p)) <= idle[p]

WaitInv == \A p \in Paths : Enough(p)

\* What a chain has of a module, or waits for, is one frame's.
LEMMA OnePerChain ==
  ASSUME OwnModules, NEW s, Chain(s), NEW i \in 1..Len(s), NEW j \in 1..Len(s),
         s[i].at = "run", s[i].fn \notin Commands, s[j].at \in {"run", "wait"},
         s[j].fn \notin Commands, PathOf[s[i].fn] = PathOf[s[j].fn]
  PROVE  i = j
  <1>1. s \in Seq(FrameSet) /\ Len(s) \in Nat
    BY DEF Chain
  <1>2. s # <<>>
    BY <1>1, EmptySeq
  <1>3. s[i].fn \in Functions /\ s[j].fn \in Functions
    <2>1. s[i] \in FrameSet /\ s[j] \in FrameSet
      BY <1>1, ElementOfSeq
    <2> QED
      BY <2>1 DEF FrameSet
  <1>4. s[i].fn = s[j].fn
    BY <1>3 DEF OwnModules
  <1>5. CASE s[Len(s)].at = "enter"
    <2>1. i # Len(s) /\ j # Len(s)
      BY <1>5
    <2>2. i \in 1..(Len(s) - 1) /\ j \in 1..(Len(s) - 1)
      BY <1>1, <2>1
    <2>3. \A k, l \in 1..(Len(s) - 1) : s[k].fn = s[l].fn => k = l
      BY <1>2, <1>5 DEF Chain
    <2> QED
      BY <1>4, <2>2, <2>3
  <1>6. CASE s[Len(s)].at # "enter"
    BY <1>2, <1>4, <1>6 DEF Chain, Distinct
  <1> QED
    BY <1>5, <1>6

\* Some of a finite set wait, and others have one thing each.
LEMMA OneEach ==
  ASSUME NEW A, IsFiniteSet(A), NEW W \in SUBSET A, NEW R,
         \A x \in R : x[1] \in A \ W,
         \A x, y \in R : x[1] = y[1] => x = y
  PROVE  IsFiniteSet(W) /\ Cardinality(W) + Cardinality(R) <= Cardinality(A)
  <1> DEFINE first == [x \in R |-> x[1]]
  <1>1. IsFiniteSet(W) /\ IsFiniteSet(A \ W)
    BY FS_Subset
  <1>2. first \in Injection(R, A \ W)
    BY DEF Injection, IsInjective
  <1>3. IsFiniteSet(R) /\ Cardinality(R) <= Cardinality(A \ W)
    BY <1>1, <1>2, FS_Injection
  <1>4. Cardinality(A \ W) = Cardinality(A) - Cardinality(W)
    <2>1. Cardinality(A \ W) = Cardinality(A) - Cardinality(A \cap W)
      BY FS_Difference
    <2> QED
      BY <2>1
  <1>5. Cardinality(A) \in Nat /\ Cardinality(W) \in Nat /\ Cardinality(R) \in Nat
    BY <1>1, <1>3, FS_CardinalityType
  <1> QED
    BY <1>1, <1>3, <1>4, <1>5

\* A pool has enough for those who wait and those who run.
Fits ==
  \A p \in Paths :
    /\ IsFiniteSet(Waiters(p))
    /\ Cardinality(Waiters(p)) + Cardinality(Running(p)) <= Size

\* The chains that wait, and those that run with an instance, are not the same ones.
LEMMA WaitersFit == OwnModules /\ IInv /\ Few => Fits
  <1> SUFFICES ASSUME OwnModules, IInv, Few, NEW p \in Paths
               PROVE  /\ IsFiniteSet(Waiters(p))
                      /\ Cardinality(Waiters(p)) + Cardinality(Running(p)) <= Size
    BY DEF Fits
  <1>1. ASSUME NEW r \in Roots
        PROVE  /\ frames[r] \in Seq(FrameSet) /\ Chain(frames[r])
               /\ Len(frames[r]) \in Nat
               /\ \A i \in 1..Len(frames[r]) : frames[r] # <<>> /\ frames[r][i].fn \in Functions
    <2>1. frames[r] \in Seq(FrameSet) /\ Chain(frames[r])
      BY DEF IInv
    <2>2. \A i \in 1..Len(frames[r]) : frames[r][i] \in FrameSet
      BY <2>1, ElementOfSeq
    <2> QED
      BY <2>1, <2>2, EmptySeq DEF FrameSet
  <1>2. Waiters(p) \subseteq Active
    BY <1>1 DEF Waiters, WaitsFor, Active
  <1>3. \A r, i : <<r, i>> \in Running(p) <=> r \in Roots /\ RunsAt(r, i, p)
    BY RunningIs DEF RunningByFrames
  <1>4. \A x \in Running(p) : x = <<x[1], x[2]>>
    BY DEF Running
  <1>5. ASSUME NEW r \in Roots, NEW i, RunsAt(r, i, p), NEW j \in 1..Len(frames[r]),
               frames[r][j].at \in {"run", "wait"}, PathOf[frames[r][j].fn] = p,
               frames[r][j].fn \notin Commands
        PROVE  i = j
    BY <1>1, <1>5, OnePerChain DEF RunsAt
  <1>6. \A x \in Running(p) : x[1] \in Active \ Waiters(p)
    <2> SUFFICES ASSUME NEW x \in Running(p) PROVE x[1] \in Active \ Waiters(p)
      OBVIOUS
    <2> DEFINE r == x[1]
               i == x[2]
    <2>1. r \in Roots /\ RunsAt(r, i, p)
      BY <1>3, <1>4
    <2> HIDE DEF r, i
    <2>2. r \in Active
      BY <1>1, <2>1 DEF RunsAt, Active
    <2>3. ~WaitsFor(r, p)
      <3> SUFFICES ASSUME NEW j \in 1..Len(frames[r]), frames[r][j].at = "wait",
                          PathOf[frames[r][j].fn] = p
                   PROVE  FALSE
        BY DEF WaitsFor
      <3>1. frames[r][j].fn \notin Commands
        BY <1>1, <2>1 DEF Chain
      <3>2. i = j
        BY <1>5, <2>1, <3>1
      <3> QED
        BY <2>1, <3>2 DEF RunsAt
    <2>4. r \in Active \ Waiters(p)
      BY <2>2, <2>3 DEF Waiters
    <2> QED
      BY <2>4 DEF r
  <1>7. \A x, y \in Running(p) : x[1] = y[1] => x = y
    <2> SUFFICES ASSUME NEW x \in Running(p), NEW y \in Running(p), x[1] = y[1] PROVE x = y
      OBVIOUS
    <2>1. x[1] \in Roots /\ RunsAt(x[1], x[2], p) /\ RunsAt(x[1], y[2], p)
      BY <1>3, <1>4
    <2>2. x[2] = y[2]
      BY <1>5, <2>1 DEF RunsAt
    <2> QED
      BY <1>4, <2>2
  <1>8. /\ IsFiniteSet(Waiters(p))
        /\ Cardinality(Waiters(p)) + Cardinality(Running(p)) <= Cardinality(Active)
    <2> DEFINE W == Waiters(p)
               R == Running(p)
               A == Active
    <2>1. W \in SUBSET A /\ IsFiniteSet(A)
      BY <1>2 DEF Few
    <2>2. (\A x \in R : x[1] \in A \ W) /\ (\A x, y \in R : x[1] = y[1] => x = y)
      BY <1>6, <1>7
    <2> HIDE DEF W, R, A
    <2>3. IsFiniteSet(W) /\ Cardinality(W) + Cardinality(R) <= Cardinality(A)
      BY <2>1, <2>2, OneEach
    <2> QED
      BY <2>3 DEF W, R, A
  <1>9. Cardinality(Active) \in Nat /\ Cardinality(Waiters(p)) \in Nat
    BY <1>8, FS_CardinalityType DEF Few
  <1>10. IsFiniteSet(Running(p)) /\ Cardinality(Running(p)) \in Nat
    <2>1. IsFiniteSet(Active) /\ IsFiniteSet(Active \ Waiters(p))
      BY FS_Difference DEF Few
    <2> DEFINE first == [x \in Running(p) |-> x[1]]
    <2>2. first \in Injection(Running(p), Active \ Waiters(p))
      BY <1>6, <1>7 DEF Injection, IsInjective
    <2> HIDE DEF first
    <2>3. IsFiniteSet(Running(p))
      BY <2>1, <2>2, FS_Injection
    <2> QED
      BY <2>3, FS_CardinalityType
  <1> QED
    BY <1>8, <1>9, <1>10, HostCallAssumption DEF Few

\* What waits for p in chain t waits for it in chain s already.
NoneJoins(s, t, p) ==
  \A i \in 1..Len(t) : t[i].at = "wait" /\ PathOf[t[i].fn] = p =>
    i \in 1..Len(s) /\ s[i].at = "wait" /\ s[i].fn = t[i].fn

\* A chain that gets no new waiting frame.
LEMMA FewerWait ==
  ASSUME IInv, NEW q \in Roots, NEW t, frames' = [frames EXCEPT ![q] = t], NEW p,
         NoneJoins(frames[q], t, p)
  PROVE  Waiters(p)' \subseteq Waiters(p)
  <1>1. frames'[q] = t /\ \A r \in Roots \ {q} : frames'[r] = frames[r]
    BY DEF IInv
  <1>2. WaitsFor(q, p)' => WaitsFor(q, p)
    BY <1>1 DEF WaitsFor, NoneJoins
  <1>3. \A r \in Roots \ {q} : WaitsFor(r, p)' <=> WaitsFor(r, p)
    BY <1>1 DEF WaitsFor
  <1> QED
    BY <1>2, <1>3 DEF Waiters

\* No more wait and none was taken.
LEMMA StillEnough ==
  ASSUME WaitInv, PoolInv, idle' \in [Paths -> Int], NEW p \in Paths,
         Waiters(p)' \subseteq Waiters(p), idle'[p] >= idle[p]
  PROVE  Enough(p)'
  <1> DEFINE W == Waiters(p)
             N == Waiters(p)'
  <1>1. IsFiniteSet(W) /\ Cardinality(W) <= idle[p] /\ N \in SUBSET W
    BY DEF WaitInv, Enough
  <1>2. idle[p] \in Int /\ idle'[p] \in Int
    BY DEF PoolInv
  <1> HIDE DEF W, N
  <1>3. IsFiniteSet(N) /\ Cardinality(N) <= Cardinality(W)
    BY <1>1, FS_Subset
  <1>4. Cardinality(N) \in Nat /\ Cardinality(W) \in Nat
    BY <1>1, <1>3, FS_CardinalityType
  <1>5. IsFiniteSet(N) /\ Cardinality(N) <= idle'[p]
    BY <1>1, <1>2, <1>3, <1>4
  <1> QED
    BY <1>5 DEF N, Enough

\* A step of one chain in which it starts no waiting.
LEMMA NobodyJoins ==
  ASSUME WaitInv, IInv, PoolInv, idle' \in [Paths -> Int], NEW r \in Roots, NEW t,
         frames' = [frames EXCEPT ![r] = t],
         \A p \in Paths : idle'[p] >= idle[p],
         \A i \in 1..Len(t) : t[i].at = "wait" =>
           i \in 1..Len(frames[r]) /\ frames[r][i].at = "wait" /\ frames[r][i].fn = t[i].fn
  PROVE  \A p \in Paths : Enough(p)'
  <1> SUFFICES ASSUME NEW p \in Paths PROVE Enough(p)'
    OBVIOUS
  <1>1. NoneJoins(frames[r], t, p)
    BY DEF NoneJoins
  <1>2. Waiters(p)' \subseteq Waiters(p)
    BY <1>1, FewerWait
  <1> QED
    BY <1>2, StillEnough

\* Every step leaves an instance for each of those who wait, or for one more: the
\* fill of a pool is what the running frames have not.
LEMMA NextWaitInv ==
  ASSUME OwnModules
  PROVE  WaitInv /\ IInv /\ IInv' /\ PoolInv /\ PoolInv' /\ Chains /\ Few' /\ [Next]_vars
           => WaitInv'
  <1> SUFFICES ASSUME WaitInv, IInv, IInv', PoolInv, PoolInv', Chains, Few', [Next]_vars
               PROVE  WaitInv'
    OBVIOUS
  <1>1. /\ idle \in [Paths -> Int] /\ idle' \in [Paths -> Int]
        /\ total' \in [Paths -> Int] /\ Size \in Int
        /\ \A p \in Paths : idle[p] \in Int
        /\ idle' = idle => \A p \in Paths : idle'[p] >= idle[p]
    BY HostCallAssumption DEF PoolInv
  <1>3. ASSUME UNCHANGED frames, UNCHANGED idle PROVE \A p \in Paths : Enough(p)'
    BY <1>3 DEF WaitInv, Enough, Waiters, WaitsFor
  <1>4. ASSUME NEW r \in Roots, frames[r] # <<>>, frames' = [frames EXCEPT ![r] = Front(@)],
               \A p \in Paths : idle'[p] >= idle[p]
        PROVE  \A p \in Paths : Enough(p)'
    <2> DEFINE t == Front(frames[r])
    <2>1. /\ Len(frames[r]) \in Nat /\ Len(t) = Len(frames[r]) - 1
          /\ \A i \in 1..(Len(frames[r]) - 1) : t[i] = frames[r][i]
      BY <1>4, TopIs, FrontIs
    <2>2. frames' = [frames EXCEPT ![r] = t]
      BY <1>4
    <2> HIDE DEF t
    <2>3. \A i \in 1..Len(t) : i \in 1..Len(frames[r]) /\ t[i] = frames[r][i]
      BY <2>1
    <2> QED
      BY <1>1, NobodyJoins, <1>4, <2>2, <2>3
  <1>5. ASSUME NEW r \in Roots, Step(r) PROVE \A p \in Paths : Enough(p)'
    <2>1. CASE Refuse(r) \/ GiveUp(r) \/ RunFails(r)
      <3>1. /\ frames[r] # <<>> /\ frames' = [frames EXCEPT ![r] = Front(@)]
            /\ idle' = idle
        BY <2>1 DEF Refuse, GiveUp, RunFails, Fail, Pop, At
      <3> QED
        BY <1>1, <1>4, <3>1
    <2>2. CASE EnterCommand(r)
      <3> DEFINE t == Front(frames[r]) \o <<[Last(frames[r]) EXCEPT !.at = "run"]>>
      <3>1. /\ frames[r] # <<>> /\ frames' = [frames EXCEPT ![r] = t] /\ idle' = idle
        BY <2>2 DEF EnterCommand, At, Move
      <3>2. /\ frames[r] \in Seq(FrameSet) /\ Len(frames[r]) \in Nat /\ Len(frames[r]) > 0
        BY <3>1, TopIs
      <3>3. /\ Len(t) = Len(frames[r]) /\ t[Len(frames[r])].at = "run"
            /\ \A i \in 1..Len(frames[r]) : t[i].fn = frames[r][i].fn
            /\ \A i \in 1..(Len(frames[r]) - 1) : t[i].at = frames[r][i].at
        BY <3>1, <3>2, PhaseIs
      <3> HIDE DEF t
      <3>4. \A i \in 1..Len(t) : t[i].at = "wait" => i \in 1..(Len(frames[r]) - 1)
        <4>1. \A i \in 1..Len(t) : i = Len(frames[r]) \/ i \in 1..(Len(frames[r]) - 1)
          BY <3>2, <3>3
        <4> QED
          BY <3>3, <4>1
      <3>5. \A i \in 1..Len(t) : t[i].at = "wait" =>
              i \in 1..Len(frames[r]) /\ frames[r][i].at = "wait" /\ frames[r][i].fn = t[i].fn
        BY <3>3, <3>4
      <3> QED
        BY <1>1, NobodyJoins, <3>1, <3>5
    <2>3. CASE EnterHandler(r)
      <3> DEFINE t == Front(frames[r]) \o <<[Last(frames[r]) EXCEPT !.at = "wait"]>>
      <3>0. PICK o \in Paths : o = PathAt(r)
        BY <2>3, TopIs DEF EnterHandler, At
      <3>1. /\ frames[r] # <<>> /\ frames' = [frames EXCEPT ![r] = t]
            /\ total' = [total EXCEPT ![o] = Size]
            /\ \A p \in Paths : p # o => idle'[p] = idle[p]
        BY <1>1, <2>3, <3>0 DEF EnterHandler, At, Move
      <3>2. total'[o] = Size
        BY <1>1, <3>1 DEF PoolInv
      <3>3. /\ IsFiniteSet(Waiters(o)')
            /\ Cardinality(Waiters(o)') + Cardinality(Running(o)') <= Size
        <4>1. OwnModules'
          BY DEF OwnModules
        <4>2. Fits'
          BY <4>1, WaitersFit, PTL
        <4> QED
          BY <3>1, <4>2 DEF Fits, Paths
      <3>4. /\ total'[o] = idle'[o] + Cardinality(Running(o)')
            /\ IsFiniteSet(Running(o)') /\ idle'[o] \in Int
        BY <1>1, <3>1 DEF PoolInv, InstancesAccounted, Paths
      <3>5. Enough(o)'
        <4> DEFINE k == Cardinality(Running(o)')
                   n == Cardinality(Waiters(o)')
        <4>1. k \in Nat /\ n \in Nat
          BY <3>3, <3>4, FS_CardinalityType
        <4>2. n + k <= Size /\ Size = idle'[o] + k /\ idle'[o] \in Int
          BY <3>2, <3>3, <3>4
        <4> HIDE DEF k, n
        <4>3. n <= idle'[o]
          BY <1>1, <4>1, <4>2
        <4> QED
          BY <3>3, <4>3 DEF n, Enough
      <3>6. /\ frames[r] \in Seq(FrameSet) /\ Len(frames[r]) \in Nat /\ Len(frames[r]) > 0
            /\ Top(r) = frames[r][Len(frames[r])]
        BY <3>1, TopIs
      <3>7. /\ Len(t) = Len(frames[r])
            /\ \A i \in 1..Len(frames[r]) : t[i].fn = frames[r][i].fn
            /\ \A i \in 1..(Len(frames[r]) - 1) : t[i].at = frames[r][i].at
        BY <3>1, <3>6, PhaseIs
      <3>8. o = PathOf[frames[r][Len(frames[r])].fn]
        BY <3>0, <3>6 DEF PathAt
      <3> HIDE DEF t
      <3>9. ASSUME NEW p \in Paths, p # o PROVE Enough(p)'
        <4>1. ASSUME NEW i \in 1..Len(t), t[i].at = "wait", PathOf[t[i].fn] = p
              PROVE  i \in 1..Len(frames[r]) /\ frames[r][i].at = "wait" /\ frames[r][i].fn = t[i].fn
          <5>1. i \in 1..Len(frames[r]) /\ i # Len(frames[r])
            BY <3>7, <3>8, <3>9, <4>1
          <5>2. i \in 1..(Len(frames[r]) - 1)
            BY <3>6, <5>1
          <5> QED
            BY <3>7, <4>1, <5>1, <5>2
        <4>2. Waiters(p)' \subseteq Waiters(p)
          <5>1. NoneJoins(frames[r], t, p)
            BY <4>1 DEF NoneJoins
          <5> QED
            BY <3>1, <5>1, FewerWait
        <4> QED
          BY <1>1, <3>1, <3>9, <4>2, StillEnough
      <3> QED
        BY <3>5, <3>9
    <2>4. CASE Acquire(r)
      <3> DEFINE t == Front(frames[r]) \o <<[Last(frames[r]) EXCEPT !.at = "run"]>>
      <3>0. PICK o \in Paths : o = PathAt(r)
        BY <2>4, TopIs DEF Acquire, At
      <3>1. /\ frames[r] # <<>> /\ frames' = [frames EXCEPT ![r] = t]
            /\ idle' = [idle EXCEPT ![o] = @ - 1] /\ Top(r).at = "wait"
        BY <1>1, <2>4, <3>0 DEF Acquire, At, Move
      <3>2. /\ frames[r] \in Seq(FrameSet) /\ Len(frames[r]) \in Nat /\ Len(frames[r]) > 0
            /\ Top(r) = frames[r][Len(frames[r])]
        BY <3>1, TopIs
      <3>3. /\ Len(t) = Len(frames[r]) /\ t[Len(frames[r])].at = "run"
            /\ \A i \in 1..Len(frames[r]) : t[i].fn = frames[r][i].fn
            /\ \A i \in 1..(Len(frames[r]) - 1) : t[i].at = frames[r][i].at
        BY <3>1, <3>2, PhaseIs
      <3>4. \A i \in 1..(Len(frames[r]) - 1) : frames[r][i].at = "run"
        BY DEF Chains
      <3>5. o = PathOf[frames[r][Len(frames[r])].fn]
        BY <3>0, <3>2 DEF PathAt
      <3> HIDE DEF t
      <3>6. \A i \in 1..Len(t) : t[i].at # "wait"
        <4>1. \A i \in 1..Len(t) : i = Len(frames[r]) \/ i \in 1..(Len(frames[r]) - 1)
          BY <3>2, <3>3
        <4> QED
          BY <3>3, <3>4, <4>1
      <3>7. ASSUME NEW p \in Paths PROVE Waiters(p)' \subseteq Waiters(p)
        <4>1. NoneJoins(frames[r], t, p)
          BY <3>6 DEF NoneJoins
        <4> QED
          BY <3>1, <4>1, FewerWait
      <3>8. ASSUME NEW p \in Paths, p # o PROVE Enough(p)'
        <4>1. idle'[p] = idle[p]
          BY <1>1, <3>1, <3>8
        <4> QED
          BY <1>1, <3>7, <4>1, StillEnough
      <3>9. Enough(o)'
        <4> DEFINE W == Waiters(o)
                   N == Waiters(o)'
        <4>1. r \in W
          <5>1. Len(frames[r]) \in 1..Len(frames[r])
            BY <3>2
          <5> QED
            BY <3>1, <3>2, <3>5, <5>1 DEF Waiters, WaitsFor
        <4>2. r \notin N
          <5>1. frames'[r] = t
            BY <3>1 DEF IInv
          <5> QED
            BY <3>6, <5>1 DEF Waiters, WaitsFor
        <4>3. IsFiniteSet(W) /\ Cardinality(W) <= idle[o] /\ N \in SUBSET (W \ {r})
          BY <3>1, <3>7, <4>2 DEF WaitInv, Enough
        <4>4. idle'[o] = idle[o] - 1 /\ idle[o] \in Int
          BY <1>1, <3>1
        <4> HIDE DEF W, N
        <4>5. /\ Cardinality(W) \in Nat /\ IsFiniteSet(W \ {r})
              /\ Cardinality(W \ {r}) = Cardinality(W) - 1
          BY <4>1, <4>3, CountOneMore
        <4>6. /\ IsFiniteSet(N) /\ Cardinality(N) <= Cardinality(W \ {r})
          BY <4>3, <4>5, FS_Subset
        <4>7. Cardinality(N) \in Nat
          BY <4>6, FS_CardinalityType
        <4>8. IsFiniteSet(N) /\ Cardinality(N) <= idle'[o]
          BY <4>3, <4>4, <4>5, <4>6, <4>7
        <4> QED
          BY <4>8 DEF N, Enough
      <3> QED
        BY <3>8, <3>9
    <2>5. CASE CallRefused(r)
      BY <1>3, <2>5 DEF CallRefused
    <2>6. ASSUME NEW f \in Functions, Call(r, f) PROVE \A p \in Paths : Enough(p)'
      <3> DEFINE t == Append(frames[r], Frame(f))
      <3>1. frames[r] # <<>> /\ idle' = idle /\ frames' = [frames EXCEPT ![r] = t]
        BY <2>6 DEF Call, At
      <3>2. frames[r] \in Seq(FrameSet) /\ Len(frames[r]) \in Nat
        BY <3>1, TopIs
      <3>3. /\ Len(t) = Len(frames[r]) + 1
            /\ \A i \in 1..Len(frames[r]) : t[i] = frames[r][i]
            /\ t[Len(frames[r]) + 1].at = "enter"
        BY <3>2 DEF Frame
      <3> HIDE DEF t
      <3>4. \A i \in 1..Len(t) : t[i].at = "wait" => i \in 1..Len(frames[r]) /\ t[i] = frames[r][i]
        <4>1. \A i \in 1..Len(t) : i = Len(frames[r]) + 1 \/ i \in 1..Len(frames[r])
          BY <3>2, <3>3
        <4> QED
          BY <3>3, <4>1
      <3> QED
        BY <1>1, NobodyJoins, <3>1, <3>4
    <2>7. ASSUME NEW size \in 0..(HalfWord - 1), Return(r, size) PROVE \A p \in Paths : Enough(p)'
      <3>1. /\ frames[r] # <<>> /\ frames' = [frames EXCEPT ![r] = Front(@)]
            /\ PathAt(r) \in Paths
        BY <2>7, TopIs DEF Return, Pop, At
      <3>2. \A p \in Paths : idle'[p] >= idle[p]
        BY <1>1, <2>7, <3>1 DEF Return, GiveBack
      <3> QED
        BY <1>4, <3>1, <3>2
    <2> QED
      BY <1>5, <2>1, <2>2, <2>3, <2>4, <2>5, <2>6, <2>7 DEF Step
  <1>6. ASSUME NEW r \in Roots, NEW f \in Functions, Start(r, f) PROVE \A p \in Paths : Enough(p)'
    <2> DEFINE t == <<Frame(f)>>
    <2>1. frames' = [frames EXCEPT ![r] = t] /\ idle' = idle
      BY <1>6 DEF Start
    <2>2. \A i \in 1..Len(t) : t[i].at # "wait"
      BY DEF Frame
    <2> HIDE DEF t
    <2> QED
      BY <1>1, NobodyJoins, <2>1, <2>2
  <1>7. ASSUME NEW r \in Roots, NEW i \in 1..(MaxDepth + 1), Expire(r, i)
        PROVE  \A p \in Paths : Enough(p)'
    <2> DEFINE t == [frames[r] EXCEPT ![i].late = TRUE]
    <2>1. frames' = [frames EXCEPT ![r] = t] /\ idle' = idle /\ i \in DOMAIN frames[r]
      BY <1>7 DEF Expire
    <2>2. frames[r] \in Seq(FrameSet)
      BY DEF IInv
    <2>3. /\ Len(t) = Len(frames[r])
          /\ \A k \in 1..Len(frames[r]) : t[k].fn = frames[r][k].fn /\ t[k].at = frames[r][k].at
      BY <2>1, <2>2, LateIs
    <2> HIDE DEF t
    <2> QED
      BY <1>1, NobodyJoins, <2>1, <2>3
  <1>8. ASSUME Finished \/ UNCHANGED vars PROVE \A p \in Paths : Enough(p)'
    BY <1>3, <1>8 DEF Finished, vars
  <1>9. \A p \in Paths : Enough(p)'
    BY <1>5, <1>6, <1>7, <1>8 DEF Next
  <1> QED
    BY <1>9 DEF WaitInv, Paths

\* At first nobody waits.
LEMMA InitWaitInv == Init => WaitInv
  <1> SUFFICES ASSUME Init, NEW p \in Paths PROVE Enough(p)
    BY DEF WaitInv
  <1>1. Waiters(p) = {} /\ idle[p] = 0
    BY DEF Init, Waiters, WaitsFor
  <1>2. IsFiniteSet({}) /\ Cardinality({}) = 0
    BY FS_EmptySet
  <1> QED
    BY <1>1, <1>2 DEF Enough

\* With a module for each handler, and no more chains at a time than a pool has
\* instances, who waits for an instance can have one: chains of calls that hold
\* instances never wait for each other (docs/interview-defense.md:2087: workers
\* above the pool size increase the waiting).
THEOREM PoolsSuffice ==
  ASSUME OwnModules
  PROVE  Spec /\ []Few => [](\A r \in Roots : At(r, "wait") => idle[PathAt(r)] > 0)
  <1>1. IInv /\ PoolInv /\ WaitInv => \A r \in Roots : At(r, "wait") => idle[PathAt(r)] > 0
    <2> SUFFICES ASSUME IInv, PoolInv, WaitInv, NEW r \in Roots, At(r, "wait")
                 PROVE  idle[PathAt(r)] > 0
      OBVIOUS
    <2> DEFINE o == PathAt(r)
               W == Waiters(o)
    <2>1. /\ frames[r] # <<>> /\ Top(r).at = "wait" /\ o \in Paths
          /\ Top(r) = frames[r][Len(frames[r])] /\ Len(frames[r]) \in 1..Len(frames[r])
      BY TopIs DEF At
    <2>2. r \in W
      BY <2>1 DEF Waiters, WaitsFor, PathAt
    <2>3. IsFiniteSet(W) /\ Cardinality(W) <= idle[o] /\ idle[o] \in Int
      BY <2>1 DEF WaitInv, Enough, PoolInv
    <2> HIDE DEF W, o
    <2>4. Cardinality(W) \in Nat /\ Cardinality(W \ {r}) = Cardinality(W) - 1
          /\ IsFiniteSet(W \ {r})
      BY <2>2, <2>3, CountOneMore
    <2>5. Cardinality(W \ {r}) \in Nat
      BY <2>4, FS_CardinalityType
    <2>6. idle[o] > 0
      BY <2>3, <2>4, <2>5
    <2> QED
      BY <2>6 DEF o
  <1>2. Init => Chains
    BY EmptySeq DEF Init, Chains
  <1> DEFINE Inv == IInv /\ PoolInv /\ Chains
  <1>3. Spec => []Inv
    BY InitInv, NextInv, InitPoolInv, NextPoolInv, NextChains, <1>2, PTL DEF Spec
  <1>4. WaitInv /\ Inv /\ Inv' /\ Few' /\ [Next]_vars => WaitInv'
    BY NextWaitInv
  <1>5. Spec /\ []Few => []WaitInv
    BY InitWaitInv, <1>3, <1>4, PTL DEF Spec
  <1> QED
    BY <1>1, <1>3, <1>5, PTL

\* With a module for each handler, no chain waits for an instance that it has itself:
\* the check for cycles is by name (executor.go:448-457).
THEOREM NoSelfWait ==
  ASSUME OwnModules
  PROVE  Spec => [](\A r \in Roots : At(r, "wait") => \A i : ~RunsAt(r, i, PathAt(r)))
  <1>1. IInv => \A r \in Roots : At(r, "wait") => \A i : ~RunsAt(r, i, PathAt(r))
    <2> SUFFICES ASSUME IInv, NEW r \in Roots, At(r, "wait"), NEW i, RunsAt(r, i, PathAt(r))
                 PROVE  FALSE
      OBVIOUS
    <2> DEFINE k == Len(frames[r])
    <2>1. /\ frames[r] # <<>> /\ Top(r).at = "wait"
          /\ Top(r) = frames[r][k] /\ k \in 1..Len(frames[r])
      BY TopIs DEF At
    <2>2. Chain(frames[r])
      BY DEF IInv
    <2>3. frames[r][k].at = "wait" /\ frames[r][k].fn \notin Commands
      BY <2>1, <2>2 DEF Chain
    <2>4. /\ i \in 1..Len(frames[r]) /\ frames[r][i].at = "run" /\ frames[r][i].fn \notin Commands
          /\ PathOf[frames[r][i].fn] = PathOf[frames[r][k].fn]
      BY <2>1 DEF RunsAt, PathAt
    <2> HIDE DEF k
    <2>5. i = k
      BY <2>1, <2>2, <2>3, <2>4, OnePerChain
    <2> QED
      BY <2>3, <2>4, <2>5
  <1>2. Spec => []IInv
    BY InitInv, NextInv, PTL DEF Spec
  <1> QED
    BY <1>1, <1>2, PTL
=============================================================================
