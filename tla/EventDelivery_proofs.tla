------------------------ MODULE EventDelivery_proofs ------------------------
(***************************************************************************)
(* Proofs about EventDelivery, for queues, pipes, channels and numbers of  *)
(* events of any size.  StreamShapes is what the steps need of types;      *)
(* HandshakeInv says that READY is never taken for an event, nor an event  *)
(* for READY; OrderInv that what is published, on the wire, in the worker's*)
(* hand and in the queue is one ascending sequence of events; AccountInv   *)
(* that every event is in one of these places or counted, and that no event*)
(* is ahead of the report of those missing before it; WaitInv what a wait  *)
(* has seen at each of its stages; AuditInv where every audit record is.   *)
(***************************************************************************)
EXTENDS EventDelivery, TLAPS, WellFoundedInduction

-----------------------------------------------------------------------------
(* Sequences.                                                              *)

\* Append, the first of a sequence and the rest, and a new first.
LEMMA AppendIs ==
  ASSUME NEW S, NEW s \in Seq(S), NEW e \in S
  PROVE  /\ Append(s, e) \in Seq(S) /\ Len(Append(s, e)) = Len(s) + 1
         /\ DOMAIN Append(s, e) = 1..(Len(s) + 1) /\ DOMAIN s = 1..Len(s) /\ Len(s) \in Nat
         /\ \A i \in 1..Len(s) : Append(s, e)[i] = s[i]
         /\ Append(s, e)[Len(s) + 1] = e
OBVIOUS

\* The rest is one shorter.
LEMMA TailIs ==
  ASSUME NEW S, NEW s \in Seq(S), s # <<>>
  PROVE  /\ Tail(s) \in Seq(S) /\ Len(Tail(s)) = Len(s) - 1 /\ Head(s) \in S
         /\ DOMAIN Tail(s) = 1..(Len(s) - 1) /\ DOMAIN s = 1..Len(s) /\ Len(s) \in Nat \ {0}
         /\ \A i \in 1..(Len(s) - 1) : Tail(s)[i] = s[i + 1]
         /\ Head(s) = s[1]
OBVIOUS

\* A new first element moves the others on by one.
LEMMA ConsIs ==
  ASSUME NEW S, NEW s \in Seq(S), NEW e \in S
  PROVE  /\ <<e>> \o s \in Seq(S) /\ DOMAIN (<<e>> \o s) = 1..(Len(s) + 1)
         /\ DOMAIN s = 1..Len(s) /\ Len(s) \in Nat
         /\ (<<e>> \o s)[1] = e
         /\ \A i \in 2..(Len(s) + 1) : (<<e>> \o s)[i] = s[i - 1]
OBVIOUS

-----------------------------------------------------------------------------
(* The events that a sequence of frames stands for.                        *)

AnyFrame == [type : {"event", "gap", "none"}, n : Nat]

\* What holds of 0, and of a number when it holds of the one before, holds up to n.
LEMMA UpTo ==
  ASSUME NEW n \in Nat, NEW A, 0 \in A, \A i \in 1..n : i - 1 \in A => i \in A
  PROVE  \A i \in 0..n : i \in A
<1> SUFFICES ASSUME {i \in 0..n : i \notin A} # {} PROVE FALSE
  OBVIOUS
<1> DEFINE T == {i \in 0..n : i \notin A}
           R == {p \in Nat \X Nat : p[1] < p[2]}
<1>1. IsWellFoundedOn(R, Nat)
  BY NatLessThanWellFounded DEF OpToRel
<1>2. T \subseteq Nat /\ T # {}
  OBVIOUS
<1>3. PICK x \in T : \A y \in T : ~(<<y, x>> \in R)
  <2> HIDE DEF R, T
  <2> QED
    BY <1>1, <1>2, WFMin
<1>4. \A y \in T : ~(y < x)
  BY <1>2, <1>3
<1>5. x \in 0..n /\ x \notin A
  BY <1>3
<1>6. x \in 1..n /\ x - 1 \in 0..n /\ x - 1 < x
  <2>1. x # 0
    BY <1>5
  <2> QED
    BY <1>5, <2>1
<1>7. x - 1 \notin A
  BY <1>5, <1>6
<1> QED
  BY <1>4, <1>6, <1>7

\* The weights are sums of naturals, frame by frame.
SumsTo(w, s, k) ==
  /\ w \in [0..k -> Nat] /\ w[0] = 0
  /\ \A i \in 1..k : w[i] = w[i - 1] + Weight(s[i])
Sums(w, s) == SumsTo(w, s, Len(s))

LEMMA WeightIs ==
  /\ \A f \in AnyFrame : Weight(f) \in Nat /\ (f.type = "event" => Weight(f) = 1)
  /\ Weight(NoFrame) = 0
  /\ \A k \in Nat : Weight(EventFrame(k)) = 1 /\ Weight(GapFrame(k)) = k
BY DEF Weight, AnyFrame, NoFrame, EventFrame, GapFrame

\* There are such sums.
LEMMA SumsExist ==
  ASSUME NEW s \in Seq(AnyFrame)
  PROVE  \E w : Sums(w, s)
<1> DEFINE n == Len(s)
           A == {k \in 0..n : \E w : SumsTo(w, s, k)}
<1>1. n \in Nat /\ \A i \in 1..n : Weight(s[i]) \in Nat
  BY WeightIs
<1>2. 0 \in A
  <2>1. SumsTo([i \in {0} |-> 0], s, 0)
    BY DEF SumsTo
  <2> QED
    BY <1>1, <2>1
<1>3. ASSUME NEW k \in 1..n, k - 1 \in A
      PROVE  k \in A
  <2>0. PICK w : SumsTo(w, s, k - 1)
    BY <1>3
  <2>1. /\ w \in [0..(k - 1) -> Nat] /\ w[0] = 0
        /\ \A i \in 1..(k - 1) : w[i] = w[i - 1] + Weight(s[i])
    BY <2>0 DEF SumsTo
  <2> DEFINE v == [i \in 0..k |-> IF i = k THEN w[k - 1] + Weight(s[k]) ELSE w[i]]
  <2>2. w[k - 1] \in Nat /\ Weight(s[k]) \in Nat
    BY <1>1, <2>1
  <2>3. \A i \in 0..k : i = k \/ i \in 0..(k - 1)
    BY <1>1
  <2>4. v \in [0..k -> Nat]
    BY <2>1, <2>2, <2>3
  <2>5. v[0] = 0
    BY <1>1, <2>1
  <2>6. ASSUME NEW i \in 1..k
        PROVE  v[i] = v[i - 1] + Weight(s[i])
    <3>1. v[i - 1] = w[i - 1]
      BY <1>1
    <3>2. CASE i = k
      BY <1>1, <3>1, <3>2
    <3>3. CASE i \in 1..(k - 1)
      <4>1. v[i] = w[i]
        BY <1>1, <3>3
      <4> QED
        BY <2>1, <3>1, <3>3, <4>1
    <3> QED
      BY <1>1, <3>2, <3>3
  <2> HIDE DEF v
  <2>7. SumsTo(v, s, k)
    BY <2>4, <2>5, <2>6 DEF SumsTo
  <2> QED
    BY <2>7
<1>4. n \in A
  <2> HIDE DEF A
  <2>1. \A i \in 0..n : i \in A
    BY <1>1, <1>2, <1>3, UpTo
  <2> QED
    BY <1>1, <2>1
<1> QED
  BY <1>4 DEF Sums

\* Weights is one of them.
LEMMA WeightsAre ==
  ASSUME NEW s \in Seq(AnyFrame)
  PROVE  Sums(Weights(s), s)
<1> DEFINE n == Len(s)
           Def(w) == w = [i \in 0..n |-> IF i = 0 THEN 0 ELSE w[i - 1] + Weight(s[i])]
           W == Weights(s)
<1>1. n \in Nat /\ \A i \in 1..n : Weight(s[i]) \in Nat
  BY WeightIs
<1>2. PICK w : Sums(w, s)
  BY SumsExist
<1>3. Def(w)
  <2>1. \A i \in 0..n : i = 0 \/ i \in 1..n
    BY <1>1
  <2> QED
    BY <1>2, <2>1 DEF Sums, SumsTo
<1>4. W = CHOOSE v : Def(v)
  BY DEF Weights
<1>5. Def(W)
  BY <1>3, <1>4
<1> HIDE DEF W
<1>6. DOMAIN W = 0..n /\ W[0] = 0 /\ \A i \in 1..n : W[i] = W[i - 1] + Weight(s[i])
  BY <1>1, <1>5
<1> DEFINE A == {i \in 0..n : W[i] \in Nat}
<1>7. 0 \in A /\ \A i \in 1..n : i - 1 \in A => i \in A
  BY <1>1, <1>6
<1>8. \A i \in 0..n : W[i] \in Nat
  <2> HIDE DEF A
  <2>1. \A i \in 0..n : i \in A
    BY <1>1, <1>7, UpTo
  <2> QED
    BY <2>1 DEF A
<1>9. W = [i \in 0..n |-> W[i]]
  BY <1>5, <1>6
<1> QED
  BY <1>6, <1>8, <1>9 DEF Sums, SumsTo, W

\* Sums that grow alike differ by the same amount all along.
LEMMA AlikeSums ==
  ASSUME NEW n \in Nat, NEW v, NEW w,
         \A i \in 0..n : v[i] \in Int /\ w[i] \in Int,
         \A i \in 1..n : v[i] - v[i - 1] = w[i] - w[i - 1]
  PROVE  \A i \in 0..n : v[i] - w[i] = v[0] - w[0]
<1> DEFINE A == {i \in 0..n : v[i] - w[i] = v[0] - w[0]}
<1>1. 0 \in A
  OBVIOUS
<1>2. ASSUME NEW i \in 1..n, i - 1 \in A
      PROVE  i \in A
  <2>1. /\ v[i] \in Int /\ w[i] \in Int /\ v[i - 1] \in Int /\ w[i - 1] \in Int
        /\ i \in 0..n /\ v[0] \in Int /\ w[0] \in Int
    BY <1>2
  <2>2. v[i] - v[i - 1] = w[i] - w[i - 1] /\ v[i - 1] - w[i - 1] = v[0] - w[0]
    BY <1>2
  <2>3. v[i] - w[i] = v[0] - w[0]
    BY <2>1, <2>2
  <2> QED
    BY <2>1, <2>3
<1>3. \A i \in 0..n : i \in A
  <2> HIDE DEF A
  <2> QED
    BY <1>1, <1>2, UpTo
<1> QED
  BY <1>3

\* A frame at the end adds its weight and changes no earlier sum.
LEMMA AppendWeighs ==
  ASSUME NEW s \in Seq(AnyFrame), NEW f \in AnyFrame
  PROVE  /\ \A i \in 0..Len(s) : Weights(Append(s, f))[i] = Weights(s)[i]
         /\ Carried(Append(s, f)) = Carried(s) + Weight(f)
<1> DEFINE n == Len(s)
           t == Append(s, f)
           v == Weights(t)
           w == Weights(s)
<1>1. /\ n \in Nat /\ n = Len(s) /\ t \in Seq(AnyFrame) /\ Len(t) = n + 1 /\ t[n + 1] = f
      /\ \A i \in 1..n : t[i] = s[i]
  OBVIOUS
<1>2. Sums(v, t) /\ Sums(w, s)
  BY <1>1, WeightsAre
<1> HIDE DEF n, t, v, w
<1>3. \A i \in 0..n : v[i] \in Nat /\ w[i] \in Nat
  <2>1. \A i \in 0..n : i \in 0..Len(t)
    BY <1>1
  <2>2. /\ \A i \in 0..Len(t) : v[i] \in Nat
        /\ \A i \in 0..n : w[i] \in Nat
    BY <1>1, <1>2 DEF Sums, SumsTo
  <2> QED
    BY <2>1, <2>2
<1>4. \A i \in 1..n : v[i] - v[i - 1] = w[i] - w[i - 1]
  <2>1. ASSUME NEW i \in 1..n
        PROVE  v[i] - v[i - 1] = w[i] - w[i - 1]
    <3>1. /\ v[i] = v[i - 1] + Weight(s[i]) /\ w[i] = w[i - 1] + Weight(s[i])
          /\ v[i - 1] \in Nat /\ w[i - 1] \in Nat /\ Weight(s[i]) \in Nat
      BY <1>1, <1>2, <1>3, WeightIs DEF Sums, SumsTo
    <3> QED
      BY <3>1
  <2> QED
    BY <2>1
<1>5. v[0] = 0 /\ w[0] = 0
  BY <1>2 DEF Sums, SumsTo
<1>6. \A i \in 0..n : v[i] - w[i] = v[0] - w[0]
  <2>1. \A i \in 0..n : v[i] \in Int /\ w[i] \in Int
    BY <1>3
  <2> QED
    BY <1>1, <1>4, <2>1, AlikeSums
<1>7. \A i \in 0..n : v[i] = w[i]
  BY <1>3, <1>5, <1>6
<1>8. v[n + 1] = v[n] + Weight(f)
  BY <1>1, <1>2 DEF Sums, SumsTo
<1> QED
  BY <1>1, <1>7, <1>8 DEF Carried, n, t, v, w

\* Without the first frame every sum is less by its weight.
LEMMA TailWeighs ==
  ASSUME NEW s \in Seq(AnyFrame), s # <<>>
  PROVE  /\ \A i \in 0..(Len(s) - 1) : Weights(s)[i + 1] = Weights(Tail(s))[i] + Weight(Head(s))
         /\ Carried(s) = Carried(Tail(s)) + Weight(Head(s))
<1> DEFINE n == Len(s) - 1
           t == Tail(s)
           v == [i \in 0..n |-> Weights(s)[i + 1]]
           u == Weights(s)
           w == Weights(t)
<1>1. /\ n \in Nat /\ t \in Seq(AnyFrame) /\ Len(t) = n /\ Len(s) = n + 1
      /\ \A i \in 1..n : t[i] = s[i + 1] /\ s[i + 1] \in AnyFrame
      /\ Head(s) = s[1] /\ s[1] \in AnyFrame
  OBVIOUS
<1>2. Sums(u, s) /\ Sums(w, t)
  BY <1>1, WeightsAre
<1>3. \A i \in 0..n : v[i] = u[i + 1]
  BY <1>1
<1> HIDE DEF n, t, u, v, w
<1>4. \A i \in 0..n : v[i] \in Nat /\ w[i] \in Nat
  <2>1. \A i \in 0..n : i + 1 \in 0..Len(s)
    BY <1>1
  <2>2. /\ \A i \in 0..Len(s) : u[i] \in Nat
        /\ \A i \in 0..n : w[i] \in Nat
    BY <1>1, <1>2 DEF Sums, SumsTo
  <2> QED
    BY <1>3, <2>1, <2>2
<1>5. \A i \in 1..n : v[i] - v[i - 1] = w[i] - w[i - 1]
  <2>1. ASSUME NEW i \in 1..n
        PROVE  v[i] - v[i - 1] = w[i] - w[i - 1]
    <3>1. i + 1 \in 1..Len(s) /\ i - 1 \in 0..n /\ (i - 1) + 1 = i /\ (i + 1) - 1 = i /\ i \in 0..n
      BY <1>1
    <3>2. v[i] = u[i + 1] /\ v[i - 1] = u[i] /\ u[i + 1] = u[i] + Weight(s[i + 1])
      BY <1>2, <1>3, <3>1 DEF Sums, SumsTo
    <3>3. w[i] = w[i - 1] + Weight(s[i + 1])
      BY <1>1, <1>2 DEF Sums, SumsTo
    <3>4. v[i - 1] \in Nat /\ w[i - 1] \in Nat /\ Weight(s[i + 1]) \in Nat
      BY <1>1, <1>4, <3>1, WeightIs
    <3> QED
      BY <3>2, <3>3, <3>4
  <2> QED
    BY <2>1
<1>6. v[0] = Weight(s[1]) /\ w[0] = 0 /\ Weight(s[1]) \in Nat
  <2>1. u[1] = u[0] + Weight(s[1]) /\ u[0] = 0 /\ w[0] = 0
    BY <1>1, <1>2 DEF Sums, SumsTo
  <2> QED
    BY <1>1, <1>3, <2>1, WeightIs
<1>7. \A i \in 0..n : v[i] - w[i] = v[0] - w[0]
  <2>1. \A i \in 0..n : v[i] \in Int /\ w[i] \in Int
    BY <1>4
  <2> QED
    BY <1>1, <1>5, <2>1, AlikeSums
<1>8. ASSUME NEW i \in 0..n
      PROVE  u[i + 1] = w[i] + Weight(s[1])
  <2>1. v[i] - w[i] = v[0] - w[0] /\ v[i] = u[i + 1] /\ v[i] \in Nat /\ w[i] \in Nat
    BY <1>3, <1>4, <1>7
  <2> QED
    BY <1>6, <2>1
<1> QED
  BY <1>1, <1>8 DEF Carried, n, t, u, w

\* The sums are naturals; nothing weighs nothing.
LEMMA CarriedIs ==
  /\ \A s \in Seq(AnyFrame) : /\ Carried(s) \in Nat
                              /\ \A i \in 0..Len(s) : Weights(s)[i] \in Nat
                              /\ Weights(s)[0] = 0
  /\ Carried(<<>>) = 0
<1>1. ASSUME NEW s \in Seq(AnyFrame)
      PROVE  /\ Carried(s) \in Nat /\ \A i \in 0..Len(s) : Weights(s)[i] \in Nat
             /\ Weights(s)[0] = 0
  <2>1. Sums(Weights(s), s)
    BY WeightsAre
  <2> QED
    BY <2>1 DEF Sums, SumsTo, Carried
<1>2. Carried(<<>>) = 0
  <2>1. <<>> \in Seq(AnyFrame) /\ Len(<<>>) = 0
    OBVIOUS
  <2>2. Weights(<<>>)[0] = 0
    BY <1>1, <2>1
  <2> QED
    BY <2>1, <2>2 DEF Carried
<1> QED
  BY <1>1, <1>2

-----------------------------------------------------------------------------
(* Shapes.                                                                 *)

StreamShapes ==
  /\ queue \in Seq(Nat) /\ dropped \in Nat /\ produced \in Nat /\ lost \in Nat
  /\ hand \in AnyFrame /\ wire \in Seq(AnyFrame) /\ published \in Seq(AnyFrame)

\* The frames of the worker.
LEMMA FramesAre ==
  /\ NoFrame \in AnyFrame /\ NoFrame.type = "none"
  /\ \A k \in Nat : /\ EventFrame(k) \in AnyFrame /\ EventFrame(k).type = "event"
                    /\ EventFrame(k).n = k
                    /\ GapFrame(k) \in AnyFrame /\ GapFrame(k).type = "gap"
BY DEF NoFrame, EventFrame, GapFrame, AnyFrame

-----------------------------------------------------------------------------
(* The handshake.                                                          *)

\* The stages of the worker before its client may be sent events.
Unserved == {"accepting", "connecting", "hello", "instance", "greet"}

\* The stages after that, and those of a client that still waits for READY.
Serving == {"idle", "writing", "failed"}
Greeting == {"opened", "greeted"}

\* A wire whose frames after a given place are events and gaps.
Plain(w, from) == \A i \in DOMAIN w : i > from => w[i].type # "none"

\* READY is the first frame of its connection, and taken by the client that waits
\* for it; after that the wire holds events and gaps.  The worker holds a frame only
\* while it writes one.
HandshakeInv ==
  /\ worker \in Unserved => wire = <<>>
  /\ reader = "reading" => worker \notin Unserved \/ pipe # "connected"
  /\ pipe \in {"listening", "disconnected"} => wire = <<>>
  /\ pipe = "listening" => worker \notin Serving
  /\ reader \in Greeting => wire = <<>> \/ wire[1] = NoFrame
  /\ reader \in Greeting /\ pipe = "connected" /\ worker \in Serving => wire # <<>>
  /\ worker \in {"writing", "failed"} => hand.type # "none"
  /\ worker \notin {"writing", "failed"} => hand = NoFrame
  /\ stopper # "none" => stopping
  /\ Plain(wire, 1) /\ (reader = "reading" => Plain(wire, 0))
  /\ Plain(published, 0)

\* Such a wire stays one.
LEMMA PlainWire ==
  ASSUME NEW w \in Seq(AnyFrame), NEW from \in {0, 1}, Plain(w, from)
  PROVE  /\ \A f \in AnyFrame : f.type # "none" => Plain(Append(w, f), from)
         /\ w # <<>> => Plain(Tail(w), 0)
         /\ w # <<>> /\ from = 0 => Head(w).type # "none"
<1>1. ASSUME NEW f \in AnyFrame, f.type # "none"
      PROVE  Plain(Append(w, f), from)
  BY <1>1, AppendIs DEF Plain
<1>2. ASSUME w # <<>>
      PROVE  Plain(Tail(w), 0) /\ (from = 0 => Head(w).type # "none")
  BY <1>2, TailIs DEF Plain
<1> QED
  BY <1>1, <1>2

\* Each step keeps the handshake.
LEMMA HandshakeNext ==
  ASSUME StreamShapes, HandshakeInv, StreamStep \/ Publish
  PROVE  HandshakeInv'
<1> USE DEF queueVars, pipeVars, readerVars
<1>1. /\ hand \in AnyFrame /\ wire \in Seq(AnyFrame) /\ published \in Seq(AnyFrame)
      /\ Plain(<<>>, 0) /\ Plain(<<>>, 1)
  BY DEF StreamShapes, Plain
<1>2. CASE Enqueue \/ SetInstanceId \/ Connected \/ AwaitInstanceId \/ StopFlags
  BY <1>2 DEF Enqueue, SetInstanceId, Connected, AwaitInstanceId, StopFlags, Worker, WorkerOnly,
     HandshakeInv, Unserved, Serving, Greeting
<1>3. CASE Connect
  BY <1>3 DEF Connect, WorkerOnly, HandshakeInv, Unserved, Serving, Greeting
<1>4. CASE ReadFrameBounded \/ IdleEnds
  BY <1>1, <1>4 DEF ReadFrameBounded, IdleEnds, Disconnected, Worker, WorkerOnly, HandshakeInv,
     Unserved, Serving, Greeting
<1>5. CASE Greet
  <2>1. CASE worker' = "idle" /\ pipe = "connected" /\ wire' = Append(wire, NoFrame)
    <3>1. worker = "greet" /\ wire = <<>> /\ reader # "reading"
      BY <1>5, <2>1 DEF Greet, Worker, HandshakeInv, Unserved, Serving, Greeting
    <3>2. Plain(wire', 1) /\ wire' # <<>> /\ wire'[1] = NoFrame
      BY <2>1, <3>1 DEF Plain
    <3>3. /\ hand' = hand /\ hand = NoFrame /\ worker' \in Serving /\ worker' \notin Unserved
          /\ reader' = reader /\ pipe' = pipe /\ published' = published /\ stopper' = stopper
          /\ stopping' = stopping /\ worker' \notin {"writing", "failed"}
      BY <1>5, <2>1, <3>1 DEF Greet, Worker, WorkerOnly, HandshakeInv, Unserved, Serving
    <3> QED
      BY <2>1, <3>1, <3>2, <3>3 DEF HandshakeInv
  <2>2. CASE worker' = "accepting" /\ Disconnected
    BY <1>1, <1>5, <2>2 DEF Greet, Disconnected, Worker, WorkerOnly, HandshakeInv, Unserved,
       Serving, Greeting
  <2> QED
    BY <1>5, <2>1, <2>2 DEF Greet, Worker
<1>6. CASE Take
  <2>1. hand'.type # "none"
    BY <1>6 DEF Take, EventFrame, GapFrame
  <2> QED
    BY <1>6, <2>1 DEF Take, Worker, WorkerOnly, HandshakeInv, Unserved, Serving, Greeting
<1>7. CASE WriteFrame
  <2>1. CASE worker = "writing" /\ worker' = "idle" /\ wire' = Append(wire, hand)
    <3>1. hand.type # "none"
      BY <2>1 DEF HandshakeInv
    <3>2. Plain(wire', 1) /\ (reader = "reading" => Plain(wire', 0))
      BY <1>1, <2>1, <3>1, PlainWire DEF HandshakeInv
    <3>3. wire' # <<>> /\ (wire # <<>> => wire'[1] = wire[1])
      BY <1>1, <2>1, AppendIs
    <3>4. pipe = "connected" /\ pipe' = pipe
      BY <1>7, <2>1 DEF WriteFrame, Worker
    <3> QED
      BY <1>7, <2>1, <3>2, <3>3, <3>4 DEF WriteFrame, WorkerOnly, HandshakeInv, Unserved,
         Serving, Greeting
  <2>2. CASE worker' = "failed" /\ worker = "writing" /\ UNCHANGED <<hand, wire>>
    BY <1>7, <2>2 DEF WriteFrame, WorkerOnly, HandshakeInv, Unserved, Serving, Greeting
  <2> QED
    BY <1>7, <2>1, <2>2 DEF WriteFrame, Worker
<1>8. CASE PutBack
  BY <1>1, <1>8 DEF PutBack, Disconnected, Worker, WorkerOnly, HandshakeInv, Unserved,
     Serving, Greeting
<1>9. CASE StopCancels
  BY <1>9 DEF StopCancels, HandshakeInv, Unserved, Serving, Greeting
<1>10. CASE StopDisconnects
  BY <1>1, <1>10 DEF StopDisconnects, Disconnected, HandshakeInv, Unserved, Serving, Greeting
<1>11. CASE StopJoins
  BY <1>11 DEF StopJoins, HandshakeInv, Unserved, Serving, Greeting
<1>12. CASE Open \/ SayHello \/ LoseConnection
  BY <1>12 DEF Open, SayHello, LoseConnection, ReaderOnly, HandshakeInv, Greeting
<1>13. CASE CloseEnd
  BY <1>13 DEF CloseEnd, ReaderOnly, HandshakeInv, Greeting
<1>14. CASE ReadReady
  <2>1. Plain(wire', 0) /\ Plain(wire', 1)
    <3>1. Plain(Tail(wire), 0)
      BY <1>1, <1>14, PlainWire DEF ReadReady, HandshakeInv
    <3> QED
      BY <1>14, <3>1 DEF ReadReady, Plain
  <2>2. worker \notin Unserved
    BY <1>14 DEF ReadReady, HandshakeInv
  <2> QED
    BY <1>14, <2>1, <2>2 DEF ReadReady, ReaderOnly, HandshakeInv, Greeting
<1>15. CASE Publish
  <2>1. reader = "reading" /\ wire # <<>> /\ wire' = Tail(wire)
        /\ published' = Append(published, Head(wire))
    BY <1>15 DEF Publish, ReadFrame
  <2>2. Plain(Tail(wire), 0) /\ Head(wire).type # "none" /\ Head(wire) \in AnyFrame
    BY <1>1, <2>1, PlainWire, TailIs DEF HandshakeInv
  <2>3. Plain(published', 0)
    BY <1>1, <2>1, <2>2, PlainWire DEF HandshakeInv
  <2>4. Plain(wire', 0) /\ Plain(wire', 1)
    BY <2>1, <2>2 DEF Plain
  <2>5. worker \notin Unserved
    BY <2>1 DEF HandshakeInv
  <2> QED
    BY <1>15, <2>1, <2>3, <2>4, <2>5 DEF Publish, ReadFrame, ReaderOnly, HandshakeInv, Greeting
<1> QED
  BY <1>2, <1>3, <1>4, <1>5, <1>6, <1>7, <1>8, <1>9, <1>10, <1>11, <1>12, <1>13, <1>14, <1>15
  DEF StreamStep, WorkerStep, StopStep

-----------------------------------------------------------------------------
(* Moves.                                                                  *)

\* What each step does to the queue, the hand, the wire and what is published.
Enqueued ==
  /\ ~stopping
  /\ \/ queue' = Append(queue, produced + 1) /\ dropped' = dropped
     \/ queue # <<>> /\ queue' = Append(Tail(queue), produced + 1) /\ dropped' = dropped + 1
  /\ produced' = produced + 1
  /\ UNCHANGED <<hand, wire, published, lost, stopping>>

Taken ==
  /\ ~stopping /\ hand = NoFrame
  /\ \/ hand' = GapFrame(dropped) /\ dropped' = 0 /\ queue' = queue
     \/ /\ dropped = 0 /\ queue # <<>> /\ hand' = EventFrame(Head(queue))
        /\ queue' = Tail(queue) /\ dropped' = dropped
  /\ UNCHANGED <<wire, published, produced, lost, stopping>>

Written ==
  /\ \/ wire' = Append(wire, hand) /\ hand' = NoFrame
     \/ wire' = Append(wire, NoFrame) /\ hand' = hand
  /\ UNCHANGED <<queue, dropped, published, produced, lost, stopping>>

Returned ==
  /\ \/ hand.type = "event" /\ queue' = <<hand.n>> \o queue /\ dropped' = dropped
     \/ hand.type = "gap" /\ dropped' = dropped + hand.n /\ queue' = queue
  /\ hand' = NoFrame /\ wire' = <<>> /\ lost' = lost + Carried(wire)
  /\ UNCHANGED <<published, produced, stopping>>

Read ==
  /\ wire # <<>> /\ wire' = Tail(wire)
  /\ \/ Head(wire) = NoFrame /\ published' = published
     \/ published' = Append(published, Head(wire))
  /\ UNCHANGED <<queue, dropped, hand, produced, lost, stopping>>

Cleared ==
  /\ \/ wire' = wire /\ lost' = lost
     \/ wire' = <<>> /\ lost' = lost + Carried(wire)
  /\ \/ queue' = queue /\ dropped' = dropped
     \/ queue' = <<>> /\ dropped' = 0
  /\ produced' \in {produced, produced + 1}
  /\ stopping \/ UNCHANGED <<queue, dropped, produced>>
  /\ stopping => stopping'
  /\ UNCHANGED <<hand, published>>

\* These are all the steps there are.
LEMMA StreamMoves ==
  ASSUME StreamShapes, HandshakeInv, StreamStep \/ Publish
  PROVE  Enqueued \/ Taken \/ Written \/ Returned \/ Read \/ Cleared
<1> USE DEF queueVars, pipeVars, readerVars
<1>1. CASE Enqueue
  <2>1. CASE stopping /\ UNCHANGED <<queue, dropped>>
    BY <1>1, <2>1 DEF Enqueue, Cleared
  <2>2. CASE Len(queue) = MaxQueuedEvents /\ queue' = Append(Tail(queue), produced + 1)
             /\ dropped' = dropped + 1
    <3>1. queue # <<>>
      BY <2>2, StreamAssumption DEF StreamShapes
    <3> QED
      BY <1>1, <2>2, <3>1 DEF Enqueue, Enqueued
  <2>3. CASE queue' = Append(queue, produced + 1) /\ UNCHANGED dropped
    BY <1>1, <2>3 DEF Enqueue, Enqueued
  <2> QED
    BY <1>1, <2>1, <2>2, <2>3 DEF Enqueue
<1>2. CASE SetInstanceId \/ Connect \/ Connected \/ AwaitInstanceId
  BY <1>2 DEF SetInstanceId, Connect, Connected, AwaitInstanceId, WorkerOnly, Cleared
<1>3. CASE ReadFrameBounded \/ IdleEnds
  BY <1>3 DEF ReadFrameBounded, IdleEnds, Disconnected, WorkerOnly, Cleared
<1>4. CASE Greet
  BY <1>4 DEF Greet, Disconnected, WorkerOnly, Cleared, Written
<1>5. CASE Take
  BY <1>5 DEF Take, Worker, WorkerOnly, HandshakeInv, Taken
<1>6. CASE WriteFrame
  BY <1>6 DEF WriteFrame, WorkerOnly, Written, Cleared
<1>7. CASE PutBack
  BY <1>7 DEF PutBack, Disconnected, WorkerOnly, Returned
<1>8. CASE StopStep
  BY <1>8 DEF StopStep, StopFlags, StopCancels, StopDisconnects, StopJoins, Disconnected,
     HandshakeInv, Cleared
<1>9. CASE Open \/ SayHello \/ LoseConnection \/ CloseEnd
  BY <1>9 DEF Open, SayHello, LoseConnection, CloseEnd, ReaderOnly, Cleared
<1>10. CASE ReadReady
  <2>1. Head(wire) = NoFrame
    BY <1>10, TailIs DEF ReadReady, HandshakeInv, Greeting, StreamShapes
  <2> QED
    BY <1>10, <2>1 DEF ReadReady, ReaderOnly, Read
<1>11. CASE Publish
  BY <1>11 DEF Publish, ReadFrame, ReaderOnly, Read
<1> QED
  BY <1>1, <1>2, <1>3, <1>4, <1>5, <1>6, <1>7, <1>8, <1>9, <1>10, <1>11 DEF StreamStep, WorkerStep

\* The shapes are kept.
LEMMA StreamShapesNext ==
  ASSUME StreamShapes, Enqueued \/ Taken \/ Written \/ Returned \/ Read \/ Cleared
  PROVE  StreamShapes'
<1>1. /\ queue \in Seq(Nat) /\ dropped \in Nat /\ produced \in Nat /\ produced + 1 \in Nat
      /\ hand \in AnyFrame /\ wire \in Seq(AnyFrame) /\ published \in Seq(AnyFrame)
      /\ hand.n \in Nat
  BY DEF StreamShapes, AnyFrame
<1>2. /\ <<>> \in Seq(Nat) /\ <<>> \in Seq(AnyFrame)
      /\ queue # <<>> => Tail(queue) \in Seq(Nat) /\ Head(queue) \in Nat
      /\ wire # <<>> => Tail(wire) \in Seq(AnyFrame) /\ Head(wire) \in AnyFrame
  BY <1>1, TailIs
<1>3. queue' \in Seq(Nat)
  <2>1. /\ Append(queue, produced + 1) \in Seq(Nat)
        /\ queue # <<>> => Append(Tail(queue), produced + 1) \in Seq(Nat)
    BY <1>1, <1>2, AppendIs
  <2>2. <<hand.n>> \o queue \in Seq(Nat)
    BY <1>1, ConsIs
  <2> QED
    BY <1>1, <1>2, <2>1, <2>2, Zenon DEF Enqueued, Taken, Written, Returned, Read, Cleared
<1>4. wire' \in Seq(AnyFrame)
  <2>1. Append(wire, hand) \in Seq(AnyFrame) /\ Append(wire, NoFrame) \in Seq(AnyFrame)
    BY <1>1, AppendIs, FramesAre
  <2> QED
    BY <1>1, <1>2, <2>1, Zenon DEF Enqueued, Taken, Written, Returned, Read, Cleared
<1>5. published' \in Seq(AnyFrame)
  <2>1. wire # <<>> => Append(published, Head(wire)) \in Seq(AnyFrame)
    BY <1>1, <1>2, AppendIs
  <2> QED
    BY <1>1, <2>1, Zenon DEF Enqueued, Taken, Written, Returned, Read, Cleared
<1>6. hand' \in AnyFrame
  BY <1>1, <1>2, FramesAre, Zenon DEF Enqueued, Taken, Written, Returned, Read, Cleared
<1>7. produced' \in Nat /\ dropped' \in Nat
  <2>1. dropped + 1 \in Nat /\ dropped + hand.n \in Nat /\ 0 \in Nat
    BY <1>1
  <2> QED
    BY <1>1, <2>1, Zenon DEF Enqueued, Taken, Written, Returned, Read, Cleared
<1>8. lost' \in Nat
  <2>1. lost \in Nat /\ lost + Carried(wire) \in Nat
    BY <1>1, CarriedIs DEF StreamShapes
  <2> QED
    BY <2>1, Zenon DEF Enqueued, Taken, Written, Returned, Read, Cleared
<1> QED
  BY <1>3, <1>4, <1>5, <1>6, <1>7, <1>8 DEF StreamShapes

-----------------------------------------------------------------------------
(* Order.                                                                  *)

\* The events among frames, and in a queue.
Number(f) == {k \in {f.n} : f.type = "event"}
Numbers(s) == UNION {Number(s[i]) : i \in DOMAIN s}
Queued(q) == {q[i] : i \in DOMAIN q}
Below(A, B) == \A a \in A, b \in B : a < b

Ascends(s) ==
  \A i, j \in DOMAIN s : i < j /\ s[i].type = "event" /\ s[j].type = "event" => s[i].n < s[j].n
QueueAscends(q) == \A i, j \in DOMAIN q : i < j => q[i] < q[j]

\* A frame at the end of a sequence.
LEMMA AppendAscends ==
  ASSUME NEW s \in Seq(AnyFrame), NEW f \in AnyFrame, NEW t, t = Append(s, f)
  PROVE  /\ Numbers(t) \subseteq Numbers(s) \cup Number(f)
         /\ Ascends(s) /\ Below(Numbers(s), Number(f)) => Ascends(t)
<1>1. /\ DOMAIN t = 1..(Len(s) + 1) /\ DOMAIN s = 1..Len(s) /\ Len(s) \in Nat
      /\ \A i \in 1..Len(s) : t[i] = s[i]
      /\ t[Len(s) + 1] = f
  BY AppendIs
<1>2. \A i \in DOMAIN t : (i \in DOMAIN s /\ t[i] = s[i]) \/ (i = Len(s) + 1 /\ t[i] = f)
  BY <1>1
<1>3. Numbers(t) \subseteq Numbers(s) \cup Number(f)
  BY <1>2 DEF Numbers
<1>4. ASSUME Ascends(s), Below(Numbers(s), Number(f)), NEW i \in DOMAIN t, NEW j \in DOMAIN t,
             i < j, t[i].type = "event", t[j].type = "event"
      PROVE  t[i].n < t[j].n
  <2>1. i \in DOMAIN s /\ t[i] = s[i]
    BY <1>1, <1>4
  <2>2. CASE j \in DOMAIN s /\ t[j] = s[j]
    BY <1>4, <2>1, <2>2 DEF Ascends
  <2>3. CASE t[j] = f
    <3>1. s[i].n \in Numbers(s) /\ f.n \in Number(f)
      BY <1>4, <2>1, <2>3 DEF Numbers, Number
    <3> QED
      BY <1>4, <2>1, <2>3, <3>1 DEF Below
  <2> QED
    BY <1>2, <2>2, <2>3
<1> QED
  BY <1>3, <1>4 DEF Ascends

\* The first frame and the rest.
LEMMA TailAscends ==
  ASSUME NEW s \in Seq(AnyFrame), s # <<>>, Ascends(s)
  PROVE  /\ Numbers(Tail(s)) \subseteq Numbers(s) /\ Number(Head(s)) \subseteq Numbers(s)
         /\ Ascends(Tail(s)) /\ Below(Number(Head(s)), Numbers(Tail(s)))
<1> DEFINE t == Tail(s)
<1>1. /\ DOMAIN t = 1..(Len(s) - 1) /\ DOMAIN s = 1..Len(s) /\ Len(s) \in Nat \ {0}
      /\ \A i \in 1..(Len(s) - 1) : t[i] = s[i + 1]
      /\ Head(s) = s[1]
  BY TailIs
<1> HIDE DEF t
<1>2. \A i \in DOMAIN t : i + 1 \in DOMAIN s /\ t[i] = s[i + 1] /\ 1 < i + 1 /\ i \in Int
  BY <1>1
<1>3. 1 \in DOMAIN s
  BY <1>1
<1>4. Numbers(t) \subseteq Numbers(s)
  BY <1>2 DEF Numbers
<1>5. Number(Head(s)) \subseteq Numbers(s)
  BY <1>1, <1>3 DEF Numbers
<1>6. Ascends(t)
  <2>1. ASSUME NEW i \in DOMAIN t, NEW j \in DOMAIN t, i < j
        PROVE  i + 1 < j + 1
    BY <1>2, <2>1
  <2> QED
    BY <1>2, <2>1 DEF Ascends
<1>7. Below(Number(Head(s)), Numbers(t))
  <2>1. ASSUME NEW a \in Number(Head(s)), NEW b \in Numbers(t)
        PROVE  a < b
    <3>1. a = s[1].n /\ s[1].type = "event"
      BY <1>1, <2>1 DEF Number
    <3>2. PICK i \in DOMAIN t : b = t[i].n /\ t[i].type = "event"
      BY <2>1 DEF Numbers, Number
    <3> QED
      BY <1>2, <1>3, <3>1, <3>2 DEF Ascends
  <2> QED
    BY <2>1 DEF Below
<1> QED
  BY <1>4, <1>5, <1>6, <1>7 DEF t

\* The queue, at its end, at its front, and with a new front.
LEMMA QueueOrder ==
  ASSUME NEW q \in Seq(Nat), QueueAscends(q)
  PROVE  /\ \A k \in Nat : /\ Queued(Append(q, k)) \subseteq Queued(q) \cup {k}
                           /\ Below(Queued(q), {k}) => QueueAscends(Append(q, k))
                           /\ Queued(<<k>> \o q) \subseteq Queued(q) \cup {k}
                           /\ Below({k}, Queued(q)) => QueueAscends(<<k>> \o q)
         /\ q # <<>> => /\ Queued(Tail(q)) \subseteq Queued(q) /\ Head(q) \in Queued(q)
                        /\ QueueAscends(Tail(q)) /\ Below({Head(q)}, Queued(Tail(q)))
<1>1. ASSUME NEW k \in Nat
      PROVE  /\ Queued(Append(q, k)) \subseteq Queued(q) \cup {k}
             /\ Below(Queued(q), {k}) => QueueAscends(Append(q, k))
  BY <1>1, AppendIs DEF Queued, Below, QueueAscends
<1>2. ASSUME NEW k \in Nat
      PROVE  /\ Queued(<<k>> \o q) \subseteq Queued(q) \cup {k}
             /\ Below({k}, Queued(q)) => QueueAscends(<<k>> \o q)
  BY <1>2, ConsIs DEF Queued, Below, QueueAscends
<1>3. ASSUME q # <<>>
      PROVE  /\ Queued(Tail(q)) \subseteq Queued(q) /\ Head(q) \in Queued(q)
             /\ QueueAscends(Tail(q)) /\ Below({Head(q)}, Queued(Tail(q)))
  BY <1>3, TailIs DEF Queued, Below, QueueAscends
<1> QED
  BY <1>1, <1>2, <1>3

\* One ascending sequence: published, on the wire, in the hand, in the queue.
InOrder(P, W, h, Q, last) ==
  /\ Ascends(P) /\ Ascends(W) /\ QueueAscends(Q)
  /\ Below(Numbers(P), Numbers(W)) /\ Below(Numbers(P), Number(h)) /\ Below(Numbers(P), Queued(Q))
  /\ Below(Numbers(W), Number(h)) /\ Below(Numbers(W), Queued(Q))
  /\ Below(Number(h), Queued(Q))
  /\ Numbers(P) \cup Numbers(W) \cup Number(h) \cup Queued(Q) \subseteq 0..last

OrderInv == InOrder(published, wire, hand, queue, produced)

\* Nothing is out of order where there is nothing.
LEMMA EmptyIsInOrder ==
  /\ Numbers(<<>>) = {} /\ Queued(<<>>) = {} /\ Ascends(<<>>) /\ QueueAscends(<<>>)
  /\ Number(NoFrame) = {} /\ \A k : Number(GapFrame(k)) = {} /\ Number(EventFrame(k)) = {k}
  /\ \A A : Below(A, {}) /\ Below({}, A)
BY DEF Numbers, Number, Queued, Ascends, QueueAscends, NoFrame, GapFrame, EventFrame, Below

\* Below is kept by parts and by unions.
LEMMA BelowParts ==
  ASSUME NEW A, NEW B, NEW C, NEW D, Below(A, B), C \subseteq A, D \subseteq B
  PROVE  Below(C, D)
BY DEF Below

\* Whatever moves, it moves within the one sequence.
LEMMA OrderNext ==
  ASSUME StreamShapes, OrderInv, Enqueued \/ Taken \/ Written \/ Returned \/ Read \/ Cleared
  PROVE  OrderInv'
<1> USE DEF OrderInv
<1>1. /\ queue \in Seq(Nat) /\ dropped \in Nat /\ produced \in Nat /\ hand.n \in Nat
      /\ hand \in AnyFrame /\ wire \in Seq(AnyFrame) /\ published \in Seq(AnyFrame)
  BY DEF StreamShapes, AnyFrame
<1>2. /\ Ascends(published) /\ Ascends(wire) /\ QueueAscends(queue)
      /\ Below(Numbers(published), Numbers(wire)) /\ Below(Numbers(published), Number(hand))
      /\ Below(Numbers(published), Queued(queue)) /\ Below(Numbers(wire), Number(hand))
      /\ Below(Numbers(wire), Queued(queue)) /\ Below(Number(hand), Queued(queue))
      /\ Numbers(published) \subseteq 0..produced /\ Numbers(wire) \subseteq 0..produced
      /\ Number(hand) \subseteq 0..produced /\ Queued(queue) \subseteq 0..produced
  BY DEF InOrder
<1>3. \A A : A \subseteq 0..produced => A \subseteq 0..(produced + 1) /\ Below(A, {produced + 1})
  BY <1>1 DEF Below
<1>4. CASE Enqueued
  <2> DEFINE q == IF queue' = Append(queue, produced + 1) THEN queue ELSE Tail(queue)
  <2>1. /\ q \in Seq(Nat) /\ QueueAscends(q) /\ Queued(q) \subseteq Queued(queue)
        /\ queue' = Append(q, produced + 1)
    BY <1>1, <1>2, <1>4, QueueOrder, TailIs DEF Enqueued
  <2> HIDE DEF q
  <2>2. Queued(q) \subseteq 0..produced
    BY <1>2, <2>1
  <2>3. Queued(queue') \subseteq Queued(queue) \cup {produced + 1} /\ QueueAscends(queue')
    <3>1. Below(Queued(q), {produced + 1})
      BY <1>3, <2>2
    <3>2. produced + 1 \in Nat
      BY <1>1
    <3>3. /\ Queued(Append(q, produced + 1)) \subseteq Queued(q) \cup {produced + 1}
          /\ QueueAscends(Append(q, produced + 1))
      BY <2>1, <3>1, <3>2, QueueOrder
    <3> QED
      BY <2>1, <3>3
  <2>4. \A A : A \subseteq 0..produced /\ Below(A, Queued(queue)) => Below(A, Queued(queue'))
    BY <1>3, <2>3 DEF Below
  <2>5. Queued(queue') \subseteq 0..(produced + 1)
    BY <1>1, <1>2, <2>3
  <2> QED
    BY <1>2, <1>3, <1>4, <2>3, <2>4, <2>5 DEF Enqueued, InOrder
<1>5. CASE Taken
  <2>1. CASE hand' = GapFrame(dropped) /\ queue' = queue
    BY <1>2, <1>5, <2>1, EmptyIsInOrder DEF Taken, InOrder
  <2>2. CASE queue # <<>> /\ hand' = EventFrame(Head(queue)) /\ queue' = Tail(queue)
    <3>1. /\ Number(hand') = {Head(queue)} /\ {Head(queue)} \subseteq Queued(queue)
          /\ Queued(queue') \subseteq Queued(queue)
          /\ QueueAscends(queue') /\ Below(Number(hand'), Queued(queue'))
      <4>1. Number(EventFrame(Head(queue))) = {Head(queue)}
        BY EmptyIsInOrder
      <4>2. /\ Queued(Tail(queue)) \subseteq Queued(queue) /\ Head(queue) \in Queued(queue)
            /\ QueueAscends(Tail(queue)) /\ Below({Head(queue)}, Queued(Tail(queue)))
        BY <1>1, <1>2, <2>2, QueueOrder
      <4> QED
        BY <2>2, <4>1, <4>2
    <3>2. \A A : Below(A, Queued(queue)) => Below(A, Number(hand')) /\ Below(A, Queued(queue'))
      BY <3>1 DEF Below
    <3> QED
      BY <1>2, <1>5, <3>1, <3>2 DEF Taken, InOrder
  <2> QED
    BY <1>5, <2>1, <2>2 DEF Taken
<1>6. CASE Written
  <2>1. PICK f \in {hand, NoFrame} : /\ wire' = Append(wire, f)
                                     /\ hand' = NoFrame \/ (f = NoFrame /\ hand' = hand)
    BY <1>6 DEF Written
  <2>2. f \in AnyFrame /\ Number(f) \subseteq Number(hand) /\ Number(hand') \subseteq Number(hand)
    BY <1>1, <2>1, EmptyIsInOrder, FramesAre
  <2>3. Below(Numbers(wire), Number(f))
    BY <1>2, <2>2, BelowParts
  <2>4. Numbers(wire') \subseteq Numbers(wire) \cup Number(hand) /\ Ascends(wire')
    BY <1>1, <1>2, <2>1, <2>2, <2>3, AppendAscends
  <2>5. Below(Numbers(published), Numbers(wire')) /\ Below(Numbers(wire'), Queued(queue))
    BY <1>2, <2>4 DEF Below
  <2>6. Below(Numbers(wire'), Number(hand'))
    <3>1. CASE hand' = NoFrame
      BY <3>1, EmptyIsInOrder
    <3>2. CASE f = NoFrame /\ hand' = hand
      <4>1. Numbers(wire') \subseteq Numbers(wire)
        BY <1>1, <2>1, <2>2, <3>2, AppendAscends, EmptyIsInOrder
      <4> QED
        BY <1>2, <3>2, <4>1, BelowParts
    <3> QED
      BY <2>1, <3>1, <3>2
  <2>7. /\ Below(Numbers(published), Number(hand')) /\ Below(Number(hand'), Queued(queue))
        /\ Numbers(wire') \subseteq 0..produced /\ Number(hand') \subseteq 0..produced
    BY <1>2, <2>2, <2>4 DEF Below
  <2> QED
    BY <1>2, <1>6, <2>4, <2>5, <2>6, <2>7 DEF Written, InOrder
<1>7. CASE Returned
  <2>1. Numbers(wire') = {} /\ Number(hand') = {} /\ Ascends(wire')
    BY <1>7, EmptyIsInOrder DEF Returned
  <2>2. Queued(queue') \subseteq Queued(queue) \cup Number(hand) /\ QueueAscends(queue')
    <3>1. CASE hand.type = "event" /\ queue' = <<hand.n>> \o queue
      <4>1. Number(hand) = {hand.n}
        BY <3>1 DEF Number
      <4> QED
        BY <1>1, <1>2, <3>1, <4>1, QueueOrder
    <3>2. CASE queue' = queue
      BY <1>2, <3>2
    <3> QED
      BY <1>7, <3>1, <3>2 DEF Returned
  <2>3. Below(Numbers(published), Queued(queue')) /\ Queued(queue') \subseteq 0..produced
    BY <1>2, <2>2 DEF Below
  <2> QED
    BY <1>2, <1>7, <2>1, <2>2, <2>3, EmptyIsInOrder DEF Returned, InOrder
<1>8. CASE Read
  <2>1. /\ Head(wire) \in AnyFrame /\ Numbers(wire') \subseteq Numbers(wire)
        /\ Number(Head(wire)) \subseteq Numbers(wire)
        /\ Ascends(wire') /\ Below(Number(Head(wire)), Numbers(wire'))
    BY <1>1, <1>2, <1>8, TailAscends, TailIs DEF Read
  <2>2. Below(Numbers(published), Number(Head(wire)))
    BY <1>2, <2>1, BelowParts
  <2>3. /\ Numbers(published') \subseteq Numbers(published) \cup Number(Head(wire))
        /\ Ascends(published')
    BY <1>1, <1>2, <1>8, <2>1, <2>2, AppendAscends DEF Read
  <2>4. /\ Below(Numbers(published'), Numbers(wire')) /\ Below(Numbers(published'), Number(hand))
        /\ Below(Numbers(published'), Queued(queue))
        /\ Below(Numbers(wire'), Number(hand)) /\ Below(Numbers(wire'), Queued(queue))
    BY <1>2, <2>1, <2>3 DEF Below
  <2>5. Numbers(published') \subseteq 0..produced /\ Numbers(wire') \subseteq 0..produced
    BY <1>2, <2>1, <2>3
  <2> QED
    BY <1>2, <1>8, <2>1, <2>3, <2>4, <2>5 DEF Read, InOrder
<1>9. CASE Cleared
  <2>1. Numbers(wire') \subseteq Numbers(wire) /\ Ascends(wire')
    BY <1>2, <1>9, EmptyIsInOrder DEF Cleared
  <2>2. Queued(queue') \subseteq Queued(queue) /\ QueueAscends(queue')
    BY <1>2, <1>9, EmptyIsInOrder DEF Cleared
  <2>3. \A A : A \subseteq 0..produced => A \subseteq 0..produced'
    BY <1>3, <1>9 DEF Cleared
  <2>4. /\ Below(Numbers(published), Numbers(wire')) /\ Below(Numbers(published), Queued(queue'))
        /\ Below(Numbers(wire'), Number(hand)) /\ Below(Numbers(wire'), Queued(queue'))
        /\ Below(Number(hand), Queued(queue'))
    BY <1>2, <2>1, <2>2 DEF Below
  <2>5. /\ Numbers(published) \subseteq 0..produced' /\ Numbers(wire') \subseteq 0..produced'
        /\ Number(hand) \subseteq 0..produced' /\ Queued(queue') \subseteq 0..produced'
    BY <1>2, <2>1, <2>2, <2>3
  <2> QED
    BY <1>2, <1>9, <2>1, <2>2, <2>4, <2>5 DEF Cleared, InOrder
<1> QED
  BY <1>4, <1>5, <1>6, <1>7, <1>8, <1>9

-----------------------------------------------------------------------------
(* events.wait.                                                            *)

WaitFields == {"at", "next", "after", "session", "event"}

\* Matches of wait_event, for a session and a barrier.
MatchesFor(f, session, after) ==
  f.type = "event" /\ SessionOf(f.n) = session /\ f.n > after /\ f.n \in Wanted

\* What a wait w knows of what was published: it has its place, and what is before
\* that place is not what it waits for.
WaitOK(w, P) ==
  /\ DOMAIN w = WaitFields
  /\ w.at \in {"armed", "asked", "waiting", "ok"} => w.next \in 1..(Len(P) + 1)
  /\ w.at \in {"asked", "waiting", "ok"} =>
       \A i \in DOMAIN P : i < w.next => ~MatchesFor(P[i], w.session, w.after)
  /\ w.at = "ok" => /\ w.next \in DOMAIN P /\ MatchesFor(P[w.next], w.session, w.after)
                    /\ w.event = P[w.next].n

WaitInv == WaitOK(wait, published)

\* What is published later comes after the wait's place.
LEMMA WaitSurvives ==
  ASSUME NEW w, NEW P \in Seq(AnyFrame), WaitOK(w, P), NEW f \in AnyFrame
  PROVE  WaitOK(w, Append(P, f))
<1> DEFINE Q == Append(P, f)
<1>1. /\ DOMAIN Q = 1..(Len(P) + 1) /\ DOMAIN P = 1..Len(P) /\ Len(P) \in Nat
      /\ Len(Q) = Len(P) + 1 /\ \A i \in 1..Len(P) : Q[i] = P[i]
  BY AppendIs
<1> HIDE DEF Q
<1>2. w.at \in {"armed", "asked", "waiting", "ok"} => w.next \in 1..(Len(Q) + 1)
  BY <1>1 DEF WaitOK
<1>3. ASSUME w.at \in {"asked", "waiting", "ok"}, NEW i \in DOMAIN Q, i < w.next
      PROVE  ~MatchesFor(Q[i], w.session, w.after)
  <2>1. i \in DOMAIN P /\ Q[i] = P[i]
    BY <1>1, <1>3 DEF WaitOK
  <2> QED
    BY <1>3, <2>1 DEF WaitOK
<1>4. w.at = "ok" => /\ w.next \in DOMAIN Q /\ MatchesFor(Q[w.next], w.session, w.after)
                     /\ w.event = Q[w.next].n
  BY <1>1 DEF WaitOK
<1> QED
  BY <1>2, <1>3, <1>4 DEF WaitOK, Q

\* The wait's own steps.
LEMMA WaitStepKeeps ==
  ASSUME StreamShapes, OrderInv, WaitInv, WaitStep
  PROVE  WaitInv'
<1>1. /\ published \in Seq(AnyFrame) /\ DOMAIN published = 1..Len(published)
      /\ Len(published) \in Nat /\ produced \in Nat
  BY DEF StreamShapes
<1>2. DOMAIN wait = WaitFields /\ WaitOK(wait, published)
  BY DEF WaitInv, WaitOK
<1>3. published' = published
  BY DEF WaitStep, Arm, Barrier, BarrierArrives, Receive, WaitTimesOut, streamVars, readerVars
<1>4. SUFFICES WaitOK(wait', published)
  BY <1>3 DEF WaitInv
<1>5. CASE Arm
  <2>1. /\ DOMAIN wait' = WaitFields /\ wait'.at = "armed" /\ wait'.next = Len(published) + 1
    BY <1>2, <1>5 DEF Arm, WaitFields
  <2> QED
    BY <1>1, <2>1 DEF WaitOK
<1>6. CASE Barrier
  <2>1. CASE wait' = [wait EXCEPT !.at = "failed"]
    BY <1>2, <2>1 DEF WaitOK, WaitFields
  <2>2. CASE wait' = [wait EXCEPT !.at = "asked", !.after = produced,
                                  !.session = SessionOf(produced)]
    <3>1. /\ DOMAIN wait' = WaitFields /\ wait'.at = "asked" /\ wait'.next = wait.next
          /\ wait'.after = produced
      BY <1>2, <2>2 DEF WaitFields
    <3>2. \A i \in DOMAIN published : ~MatchesFor(published[i], wait'.session, wait'.after)
      <4>1. ASSUME NEW i \in DOMAIN published, published[i].type = "event"
            PROVE  ~(published[i].n > produced)
        <5>1. published[i].n \in Numbers(published)
          BY <4>1 DEF Numbers, Number
        <5>2. published[i].n \in 0..produced
          BY <5>1 DEF OrderInv, InOrder
        <5> QED
          BY <1>1, <5>2
      <4> QED
        BY <3>1, <4>1 DEF MatchesFor
    <3>3. wait.next \in 1..(Len(published) + 1)
      BY <1>2, <1>6 DEF Barrier, WaitOK
    <3> QED
      BY <3>1, <3>2, <3>3 DEF WaitOK
  <2> QED
    BY <1>6, <2>1, <2>2 DEF Barrier
<1>7. CASE BarrierArrives
  <2>1. /\ DOMAIN wait' = WaitFields /\ wait'.at = "waiting" /\ wait.at = "asked"
        /\ wait'.next = wait.next /\ wait'.after = wait.after /\ wait'.session = wait.session
    BY <1>2, <1>7 DEF BarrierArrives, WaitFields
  <2> QED
    BY <1>2, <2>1 DEF WaitOK
<1>8. CASE Receive
  <2>1. wait.at = "waiting" /\ wait.next \in DOMAIN published /\ wait.next \in Nat
    BY <1>1, <1>2, <1>8 DEF Receive, WaitOK
  <2>2. CASE wait' = [wait EXCEPT !.at = "overflow"] \/ wait' = [wait EXCEPT !.at = "cancelled"]
    BY <1>2, <2>2 DEF WaitOK, WaitFields
  <2>3. CASE /\ Matches(published[wait.next])
             /\ wait' = [wait EXCEPT !.at = "ok", !.event = published[wait.next].n]
    <3>1. /\ DOMAIN wait' = WaitFields /\ wait'.at = "ok" /\ wait'.event = published[wait.next].n
          /\ wait'.next = wait.next /\ wait'.after = wait.after /\ wait'.session = wait.session
      BY <1>2, <2>3 DEF WaitFields
    <3>2. MatchesFor(published[wait.next], wait.session, wait.after)
      BY <2>3 DEF Matches, MatchesFor
    <3> QED
      BY <1>2, <2>1, <3>1, <3>2 DEF WaitOK
  <2>4. CASE /\ ~Matches(published[wait.next])
             /\ wait' = [wait EXCEPT !.next = @ + 1]
    <3>1. /\ DOMAIN wait' = WaitFields /\ wait'.at = wait.at /\ wait'.next = wait.next + 1
          /\ wait'.after = wait.after /\ wait'.session = wait.session
      BY <1>2, <2>4 DEF WaitFields
    <3>2. ~MatchesFor(published[wait.next], wait.session, wait.after)
      BY <2>4 DEF Matches, MatchesFor
    <3>3. \A i \in DOMAIN published : i < wait.next + 1 => i < wait.next \/ i = wait.next
      BY <1>1, <2>1
    <3>4. wait.next + 1 \in 1..(Len(published) + 1)
      BY <1>1, <2>1
    <3> QED
      BY <1>2, <2>1, <3>1, <3>2, <3>3, <3>4 DEF WaitOK
  <2> QED
    BY <1>8, <2>2, <2>3, <2>4 DEF Receive
<1>9. CASE WaitTimesOut
  BY <1>2, <1>9 DEF WaitTimesOut, WaitOK, WaitFields
<1> QED
  BY <1>5, <1>6, <1>7, <1>8, <1>9 DEF WaitStep

-----------------------------------------------------------------------------
(* The audit log.                                                          *)

AuditFields == {"open", "channel", "line", "queued", "dropped", "reported", "written", "gaps"}

\* What the log a holds of the published records: the reserved budget is that of
\* the channel and the line, and every record is written, reserved or counted.
AuditOK(a, records) ==
  /\ DOMAIN a = AuditFields
  /\ a.channel \in Seq(AnyFrame) /\ Plain(a.channel, 0) /\ Len(a.channel) <= AuditRecords
  /\ a.line = NoFrame \/ a.line.type # "none"
  /\ a.dropped \in Nat /\ a.written \in Nat /\ a.reported \in Nat
  /\ a.line = NoFrame => a.queued = Len(a.channel)
  /\ a.line # NoFrame => a.queued = Len(a.channel) + 1
  /\ records = a.written + a.queued + a.dropped
  /\ a.gaps = a.reported /\ a.gaps <= a.dropped

AuditInv == AuditOK(audit, Len(published))

\* A record goes to the channel or is counted.
LEMMA RecordKeeps ==
  ASSUME NEW a, NEW records, AuditOK(a, records), NEW f \in AnyFrame, f.type # "none", NEW b,
         \/ /\ Len(a.channel) < AuditRecords
            /\ b = [a EXCEPT !.channel = Append(@, f), !.queued = @ + 1]
         \/ b = [a EXCEPT !.dropped = @ + 1]
  PROVE  AuditOK(b, records + 1)
<1>1. /\ DOMAIN a = AuditFields /\ a.channel \in Seq(AnyFrame) /\ Plain(a.channel, 0)
      /\ Len(a.channel) \in Nat /\ Len(a.channel) <= AuditRecords
      /\ a.line = NoFrame \/ a.line.type # "none"
      /\ a.dropped \in Nat /\ a.written \in Nat /\ a.reported \in Nat /\ a.queued \in Nat
      /\ a.line = NoFrame => a.queued = Len(a.channel)
      /\ a.line # NoFrame => a.queued = Len(a.channel) + 1
      /\ records = a.written + a.queued + a.dropped
      /\ a.gaps = a.reported /\ a.gaps <= a.dropped
  BY DEF AuditOK
<1>2. AuditRecords \in Nat
  BY DeliveryAssumption
<1>3. CASE /\ Len(a.channel) < AuditRecords
           /\ b = [a EXCEPT !.channel = Append(@, f), !.queued = @ + 1]
  <2> DEFINE ch == Append(a.channel, f)
  <2>1. ch \in Seq(AnyFrame) /\ Len(ch) = Len(a.channel) + 1 /\ Plain(ch, 0)
    BY <1>1, AppendIs, PlainWire
  <2> HIDE DEF ch
  <2>2. /\ DOMAIN b = AuditFields /\ b.channel = ch /\ b.queued = a.queued + 1 /\ b.line = a.line
        /\ b.dropped = a.dropped /\ b.written = a.written /\ b.reported = a.reported
        /\ b.gaps = a.gaps
    BY <1>1, <1>3 DEF AuditFields, ch
  <2>3. /\ b.line = NoFrame => b.queued = Len(ch)
        /\ b.line # NoFrame => b.queued = Len(ch) + 1
        /\ Len(ch) <= AuditRecords
    BY <1>1, <1>2, <1>3, <2>1, <2>2
  <2>4. records + 1 = b.written + b.queued + b.dropped
    BY <1>1, <2>2
  <2> QED
    BY <1>1, <2>1, <2>2, <2>3, <2>4 DEF AuditOK
<1>4. CASE b = [a EXCEPT !.dropped = @ + 1]
  <2>1. /\ DOMAIN b = AuditFields /\ b.channel = a.channel /\ b.queued = a.queued
        /\ b.line = a.line /\ b.dropped = a.dropped + 1 /\ b.written = a.written
        /\ b.reported = a.reported /\ b.gaps = a.gaps
    BY <1>1, <1>4 DEF AuditFields
  <2>2. records + 1 = b.written + b.queued + b.dropped /\ b.gaps <= b.dropped /\ b.dropped \in Nat
    BY <1>1, <2>1
  <2> QED
    BY <1>1, <2>1, <2>2 DEF AuditOK
<1> QED
  BY <1>3, <1>4

\* The writer takes a line, and writes or counts it.
LEMMA WriterKeeps ==
  ASSUME AuditInv, WriterTakes \/ WriterAppends
  PROVE  AuditInv'
<1> DEFINE a == audit
           b == audit'
<1>1. /\ DOMAIN a = AuditFields /\ a.channel \in Seq(AnyFrame) /\ Plain(a.channel, 0)
      /\ Len(a.channel) \in Nat /\ Len(a.channel) <= AuditRecords
      /\ a.line = NoFrame \/ a.line.type # "none"
      /\ a.dropped \in Nat /\ a.written \in Nat /\ a.reported \in Nat /\ a.queued \in Nat
      /\ a.line = NoFrame => a.queued = Len(a.channel)
      /\ a.line # NoFrame => a.queued = Len(a.channel) + 1
      /\ Len(published) = a.written + a.queued + a.dropped
      /\ a.gaps = a.reported /\ a.gaps <= a.dropped
  BY DEF AuditInv, AuditOK
<1>2. AuditRecords \in Nat /\ published' = published
  BY DeliveryAssumption DEF WriterTakes, WriterAppends, streamVars, readerVars
<1>3. SUFFICES AuditOK(b, Len(published))
  BY <1>2 DEF AuditInv
<1>4. CASE WriterTakes
  <2> DEFINE ch == Tail(a.channel)
             f == Head(a.channel)
  <2>1. a.channel # <<>> /\ a.line = NoFrame
    BY <1>4 DEF WriterTakes
  <2>2. ch \in Seq(AnyFrame) /\ Len(ch) = Len(a.channel) - 1 /\ Plain(ch, 0) /\ f.type # "none"
    BY <1>1, <2>1, TailIs, PlainWire
  <2>3. /\ DOMAIN b = AuditFields /\ b.channel = ch /\ b.queued = a.queued /\ b.line = f
        /\ b.dropped = a.dropped /\ b.written = a.written /\ b.reported = a.reported
        /\ b.gaps = a.gaps
    BY <1>1, <1>4 DEF WriterTakes, AuditFields
  <2> HIDE DEF ch, f
  <2>4. f # NoFrame
    BY <2>2, FramesAre
  <2>5. b.queued = Len(ch) + 1 /\ Len(ch) <= AuditRecords
    BY <1>1, <1>2, <2>1, <2>2, <2>3
  <2> HIDE DEF b
  <2> QED
    BY <1>1, <2>2, <2>3, <2>4, <2>5 DEF AuditOK
<1>5. CASE WriterAppends
  <2>1. /\ a.line # NoFrame /\ a.queued = Len(a.channel) + 1
    BY <1>1, <1>5 DEF WriterAppends
  <2>2. /\ DOMAIN b = AuditFields /\ b.channel = a.channel /\ b.line = NoFrame
        /\ b.queued = a.queued - 1
        /\ \/ b.written = a.written + 1 /\ b.dropped = a.dropped
           \/ b.written = a.written /\ b.dropped = a.dropped + 1
        /\ \/ b.reported = a.reported /\ b.gaps = a.gaps
           \/ b.reported = a.dropped /\ b.gaps = a.gaps + (a.dropped - a.reported)
    <3> DEFINE due == a.dropped - a.reported
               taken == [a EXCEPT !.line = NoFrame, !.queued = @ - 1]
               told == [taken EXCEPT !.reported = a.dropped, !.gaps = @ + due]
    <3>1. /\ DOMAIN taken = AuditFields /\ taken.channel = a.channel /\ taken.line = NoFrame
          /\ taken.queued = a.queued - 1 /\ taken.written = a.written /\ taken.dropped = a.dropped
          /\ taken.reported = a.reported /\ taken.gaps = a.gaps
      BY <1>1 DEF AuditFields
    <3>2. /\ DOMAIN told = AuditFields /\ told.channel = a.channel /\ told.line = NoFrame
          /\ told.queued = a.queued - 1 /\ told.written = a.written /\ told.dropped = a.dropped
          /\ told.reported = a.dropped /\ told.gaps = a.gaps + due
      <4> HIDE DEF taken
      <4> QED
        BY <3>1 DEF AuditFields
    <3>3. \/ b = [told EXCEPT !.written = @ + 1]
          \/ b = [told EXCEPT !.dropped = @ + 1]
          \/ b = [taken EXCEPT !.dropped = @ + 1]
      BY <1>5 DEF WriterAppends
    <3> HIDE DEF taken, told, b
    <3> QED
      BY <3>1, <3>2, <3>3 DEF AuditFields
  <2> HIDE DEF a, b
  <2>3. b.written \in Nat /\ b.dropped \in Nat /\ b.reported \in Nat
    BY <1>1, <2>2
  <2>4. Len(published) = b.written + b.queued + b.dropped
    <3>1. \A w, q, d \in Int : /\ (w + 1) + (q - 1) + d = w + q + d
                               /\ w + (q - 1) + (d + 1) = w + q + d
      OBVIOUS
    <3>2. a.written \in Int /\ a.queued \in Int /\ a.dropped \in Int
      BY <1>1, <2>1
    <3>3. /\ (a.written + 1) + (a.queued - 1) + a.dropped = a.written + a.queued + a.dropped
          /\ a.written + (a.queued - 1) + (a.dropped + 1) = a.written + a.queued + a.dropped
      BY <3>1, <3>2
    <3>4. CASE b.written = a.written + 1 /\ b.dropped = a.dropped
      BY <1>1, <2>2, <3>3, <3>4
    <3>5. CASE b.written = a.written /\ b.dropped = a.dropped + 1
      BY <1>1, <2>2, <3>3, <3>5
    <3> QED
      BY <2>2, <3>4, <3>5
  <2>5. b.gaps = b.reported /\ b.gaps <= b.dropped
    BY <1>1, <2>2
  <2>6. b.queued = Len(b.channel)
    BY <1>1, <2>1, <2>2
  <2> QED
    BY <1>1, <2>2, <2>3, <2>4, <2>5, <2>6 DEF AuditOK
<1> QED
  BY <1>4, <1>5

-----------------------------------------------------------------------------
(* Accounts.                                                               *)

\* Every event produced is somewhere.
Balanced(P, W, h, Q, d, total, l) ==
  total = Len(Q) + d + Weight(h) + Carried(W) + Carried(P) + l

\* An event has at most as many before it as are accounted for ahead of it: in the
\* queue, in the hand, on the wire and where it is published.
QueueBehind(Q, total) == \A i \in DOMAIN Q : Q[i] - i <= total - Len(Q)
HandBehind(h, ahead) == h.type = "event" => h.n - 1 <= ahead
WireBehind(W, told) ==
  \A k \in DOMAIN W : W[k].type = "event" => W[k].n - 1 <= told + Weights(W)[k - 1]
PublishedBehind(P, l) == \A i \in DOMAIN P : P[i].type = "event" => P[i].n <= Weights(P)[i] + l

AccountInv ==
  /\ ~stopping => /\ Balanced(published, wire, hand, queue, dropped, produced, lost)
                  /\ QueueBehind(queue, produced)
                  /\ HandBehind(hand, produced - Len(queue) - 1)
  /\ HandBehind(hand, Carried(wire) + Carried(published) + lost)
  /\ WireBehind(wire, Carried(published) + lost)
  /\ PublishedBehind(published, lost)

\* The queue, at its end, at its front, and with a new front.
LEMMA QueueCounts ==
  ASSUME NEW q \in Seq(Nat), NEW total \in Nat, QueueBehind(q, total)
  PROVE  /\ QueueBehind(Append(q, total + 1), total + 1)
         /\ q # <<>> => QueueBehind(Tail(q), total) /\ Head(q) - 1 <= total - Len(q)
         /\ \A k \in Nat : k - 1 <= total - Len(q) - 1 => QueueBehind(<<k>> \o q, total)
<1>1. /\ Len(q) \in Nat /\ DOMAIN q = 1..Len(q)
      /\ \A i \in 1..Len(q) : q[i] \in Nat /\ q[i] - i <= total - Len(q)
  BY DEF QueueBehind
<1>2. QueueBehind(Append(q, total + 1), total + 1)
  <2> DEFINE t == Append(q, total + 1)
  <2>1. /\ Len(t) = Len(q) + 1 /\ DOMAIN t = 1..(Len(q) + 1)
        /\ \A i \in 1..Len(q) : t[i] = q[i]
        /\ t[Len(q) + 1] = total + 1
    BY AppendIs
  <2> HIDE DEF t
  <2>2. ASSUME NEW i \in DOMAIN t
        PROVE  t[i] - i <= (total + 1) - Len(t)
    <3>1. CASE i \in 1..Len(q)
      BY <1>1, <2>1, <3>1
    <3>2. CASE i = Len(q) + 1
      BY <1>1, <2>1, <3>2
    <3> QED
      BY <1>1, <2>1, <2>2, <3>1, <3>2
  <2> QED
    BY <2>2 DEF QueueBehind, t
<1>3. ASSUME q # <<>>
      PROVE  QueueBehind(Tail(q), total) /\ Head(q) - 1 <= total - Len(q)
  <2> DEFINE t == Tail(q)
  <2>1. /\ Len(t) = Len(q) - 1 /\ DOMAIN t = 1..(Len(q) - 1) /\ Len(q) \in Nat \ {0}
        /\ \A i \in 1..(Len(q) - 1) : t[i] = q[i + 1]
        /\ Head(q) = q[1]
    BY <1>3, TailIs
  <2> HIDE DEF t
  <2>2. ASSUME NEW i \in DOMAIN t
        PROVE  t[i] - i <= total - Len(t)
    <3>1. i \in Nat /\ i + 1 \in 1..Len(q) /\ t[i] = q[i + 1]
      BY <2>1, <2>2
    <3>2. q[i + 1] \in Nat /\ q[i + 1] - (i + 1) <= total - Len(q)
      BY <1>1, <3>1
    <3> QED
      BY <1>1, <2>1, <3>1, <3>2
  <2> QED
    BY <1>1, <2>1, <2>2 DEF QueueBehind, t
<1>4. ASSUME NEW k \in Nat, k - 1 <= total - Len(q) - 1
      PROVE  QueueBehind(<<k>> \o q, total)
  <2> DEFINE t == <<k>> \o q
  <2>1. /\ Len(t) = Len(q) + 1 /\ DOMAIN t = 1..(Len(q) + 1) /\ t[1] = k
        /\ \A i \in 2..(Len(q) + 1) : t[i] = q[i - 1]
    BY ConsIs
  <2> HIDE DEF t
  <2>2. ASSUME NEW i \in DOMAIN t
        PROVE  t[i] - i <= total - Len(t)
    <3>1. CASE i = 1
      BY <1>1, <1>4, <2>1, <3>1
    <3>2. CASE i \in 2..(Len(q) + 1)
      <4>1. i \in Nat /\ i - 1 \in 1..Len(q) /\ t[i] = q[i - 1]
        BY <1>1, <2>1, <3>2
      <4>2. q[i - 1] \in Nat /\ q[i - 1] - (i - 1) <= total - Len(q)
        BY <1>1, <4>1
      <4> QED
        BY <1>1, <2>1, <4>1, <4>2
    <3> QED
      BY <1>1, <2>1, <2>2, <3>1, <3>2
  <2> QED
    BY <2>2 DEF QueueBehind, t
<1> QED
  BY <1>2, <1>3, <1>4

\* A frame is written at the end of the wire.
LEMMA WireGrows ==
  ASSUME NEW w \in Seq(AnyFrame), NEW f \in AnyFrame, NEW told \in Nat,
         WireBehind(w, told), HandBehind(f, Carried(w) + told)
  PROVE  WireBehind(Append(w, f), told)
<1> DEFINE t == Append(w, f)
<1>1. /\ DOMAIN t = 1..(Len(w) + 1) /\ DOMAIN w = 1..Len(w) /\ Len(w) \in Nat
      /\ \A i \in 1..Len(w) : t[i] = w[i]
      /\ t[Len(w) + 1] = f
  BY AppendIs
<1>2. \A i \in 0..Len(w) : Weights(t)[i] = Weights(w)[i]
  BY AppendWeighs
<1>3. Weights(w)[Len(w)] = Carried(w) /\ Carried(w) \in Nat
  BY CarriedIs DEF Carried
<1> HIDE DEF t
<1>4. ASSUME NEW k \in DOMAIN t, t[k].type = "event"
      PROVE  t[k].n - 1 <= told + Weights(t)[k - 1]
  <2>1. CASE k \in 1..Len(w)
    <3>1. k - 1 \in 0..Len(w) /\ t[k] = w[k] /\ k \in DOMAIN w
      BY <1>1, <2>1
    <3>2. w[k].n - 1 <= told + Weights(w)[k - 1]
      BY <1>4, <3>1 DEF WireBehind
    <3> QED
      BY <1>2, <3>1, <3>2
  <2>2. CASE k = Len(w) + 1
    <3>1. k - 1 = Len(w) /\ t[k] = f /\ Len(w) \in 0..Len(w)
      BY <1>1, <2>2
    <3>2. Weights(t)[k - 1] = Carried(w)
      BY <1>2, <1>3, <3>1
    <3>3. f.n - 1 <= Carried(w) + told
      BY <1>4, <3>1 DEF HandBehind
    <3>4. Carried(w) + told = told + Carried(w)
      BY <1>3
    <3> QED
      BY <3>1, <3>2, <3>3, <3>4
  <2> QED
    BY <1>1, <1>4, <2>1, <2>2
<1> QED
  BY <1>4 DEF WireBehind, t

\* A frame is read from the front of the wire.
LEMMA WireShrinks ==
  ASSUME NEW w \in Seq(AnyFrame), w # <<>>, NEW told \in Nat, WireBehind(w, told)
  PROVE  WireBehind(Tail(w), told + Weight(Head(w))) /\ HandBehind(Head(w), told)
<1> DEFINE t == Tail(w)
           x == Weight(Head(w))
<1>1. /\ DOMAIN t = 1..(Len(w) - 1) /\ DOMAIN w = 1..Len(w) /\ Len(w) \in Nat \ {0}
      /\ \A i \in 1..(Len(w) - 1) : t[i] = w[i + 1]
      /\ Head(w) = w[1] /\ Head(w) \in AnyFrame /\ t \in Seq(AnyFrame) /\ Len(t) = Len(w) - 1
  BY TailIs
<1>2. \A i \in 0..(Len(w) - 1) : Weights(w)[i + 1] = Weights(t)[i] + x
  BY TailWeighs
<1>3. x \in Nat /\ Weights(w)[0] = 0 /\ \A i \in 0..(Len(w) - 1) : Weights(t)[i] \in Nat
  BY <1>1, WeightIs, CarriedIs
<1> HIDE DEF t, x
<1>4. ASSUME NEW k \in DOMAIN t, t[k].type = "event"
      PROVE  t[k].n - 1 <= (told + x) + Weights(t)[k - 1]
  <2>1. /\ k + 1 \in DOMAIN w /\ t[k] = w[k + 1] /\ k - 1 \in 0..(Len(w) - 1)
        /\ (k + 1) - 1 = (k - 1) + 1
    BY <1>1, <1>4
  <2>2. w[k + 1].n - 1 <= told + Weights(w)[(k + 1) - 1]
    BY <1>4, <2>1 DEF WireBehind
  <2>3. Weights(w)[(k + 1) - 1] = Weights(t)[k - 1] + x /\ Weights(t)[k - 1] \in Nat
    BY <1>2, <1>3, <2>1
  <2>4. told + (Weights(t)[k - 1] + x) = (told + x) + Weights(t)[k - 1]
    BY <1>3, <2>3
  <2> QED
    BY <2>1, <2>2, <2>3, <2>4
<1>5. HandBehind(Head(w), told)
  <2>1. 1 \in DOMAIN w /\ 1 - 1 = 0 /\ told + 0 = told
    BY <1>1
  <2> QED
    BY <1>1, <1>3, <2>1 DEF WireBehind, HandBehind
<1> QED
  BY <1>4, <1>5 DEF WireBehind, t, x

\* A frame is published.
LEMMA PublishedGrows ==
  ASSUME NEW s \in Seq(AnyFrame), NEW f \in AnyFrame, NEW l \in Nat,
         PublishedBehind(s, l), HandBehind(f, Carried(s) + l)
  PROVE  PublishedBehind(Append(s, f), l)
<1> DEFINE t == Append(s, f)
<1>1. /\ DOMAIN t = 1..(Len(s) + 1) /\ DOMAIN s = 1..Len(s) /\ Len(s) \in Nat
      /\ \A i \in 1..Len(s) : t[i] = s[i]
      /\ t[Len(s) + 1] = f /\ Len(t) = Len(s) + 1 /\ f.n \in Nat
  BY AppendIs DEF AnyFrame
<1>2. \A i \in 0..Len(s) : Weights(t)[i] = Weights(s)[i]
  BY AppendWeighs
<1>3. Weights(t)[Len(s) + 1] = Carried(s) + Weight(f) /\ Carried(s) \in Nat
  BY <1>1, AppendWeighs, CarriedIs DEF Carried
<1> HIDE DEF t
<1>4. ASSUME NEW i \in DOMAIN t, t[i].type = "event"
      PROVE  t[i].n <= Weights(t)[i] + l
  <2>1. CASE i \in 1..Len(s)
    <3>1. i \in 0..Len(s) /\ t[i] = s[i] /\ i \in DOMAIN s
      BY <1>1, <2>1
    <3> QED
      BY <1>2, <1>4, <3>1 DEF PublishedBehind
  <2>2. CASE i = Len(s) + 1
    <3>1. f.type = "event" /\ Weight(f) = 1
      BY <1>1, <1>4, <2>2, WeightIs
    <3>2. f.n - 1 <= Carried(s) + l
      BY <3>1 DEF HandBehind
    <3>3. f.n <= (Carried(s) + 1) + l
      BY <1>1, <1>3, <3>2
    <3> QED
      BY <1>1, <1>3, <2>2, <3>1, <3>3
  <2> QED
    BY <1>1, <1>4, <2>1, <2>2
<1> QED
  BY <1>4 DEF PublishedBehind, t

\* What is lost with the pipe covers what it carried.
LEMMA PublishedCovered ==
  ASSUME NEW s \in Seq(AnyFrame), NEW l \in Nat, NEW m \in Nat, PublishedBehind(s, l)
  PROVE  PublishedBehind(s, l + m)
<1>1. ASSUME NEW i \in DOMAIN s, s[i].type = "event"
      PROVE  s[i].n <= Weights(s)[i] + (l + m)
  <2>1. s[i].n \in Nat /\ i \in 0..Len(s)
    <3>1. i \in 1..Len(s) /\ s[i] \in AnyFrame /\ Len(s) \in Nat
      BY <1>1
    <3> QED
      BY <3>1 DEF AnyFrame
  <2>2. Weights(s)[i] \in Nat
    BY <2>1, CarriedIs
  <2>3. s[i].n <= Weights(s)[i] + l
    BY <1>1 DEF PublishedBehind
  <2> QED
    BY <2>1, <2>2, <2>3
<1> QED
  BY <1>1 DEF PublishedBehind

\* The same total, with one more event, a frame moved on, and a frame put back.
LEMMA TotalMoves ==
  ASSUME NEW p \in Int, NEW n \in Int, NEW d \in Int, NEW h \in Int, NEW w \in Int, NEW c \in Int,
         NEW l \in Int, p = n + d + h + w + c + l
  PROVE  /\ p + 1 = (n + 1) + d + h + w + c + l
         /\ p + 1 = n + (d + 1) + h + w + c + l
         /\ p = n + d + 0 + (w + h) + c + l
         /\ p = n + d + h + (w + 0) + c + l
         /\ p = n + (d + h) + 0 + 0 + c + (l + w)
         /\ h = 1 => p = (n + 1) + d + 0 + 0 + c + (l + w)
OBVIOUS

\* Whatever moves, the books stay balanced.
LEMMA AccountNext ==
  ASSUME StreamShapes, AccountInv, Enqueued \/ Taken \/ Written \/ Returned \/ Read \/ Cleared
  PROVE  AccountInv'
<1> DEFINE cw == Carried(wire)
           cp == Carried(published)
           n == Len(queue)
<1>1. /\ queue \in Seq(Nat) /\ dropped \in Nat /\ produced \in Nat /\ lost \in Nat
      /\ hand \in AnyFrame /\ wire \in Seq(AnyFrame) /\ published \in Seq(AnyFrame)
      /\ hand.n \in Nat
  BY DEF StreamShapes, AnyFrame
<1>2. cw \in Nat /\ cp \in Nat /\ Weight(hand) \in Nat /\ n \in Nat /\ cp + lost \in Nat
      /\ Carried(<<>>) = 0 /\ Weight(NoFrame) = 0 /\ Len(<<>>) = 0
      /\ NoFrame \in AnyFrame /\ NoFrame.type = "none"
  BY <1>1, CarriedIs, WeightIs, FramesAre
<1>3. /\ ~stopping => produced = n + dropped + Weight(hand) + cw + cp + lost
      /\ ~stopping => QueueBehind(queue, produced)
      /\ ~stopping => HandBehind(hand, produced - n - 1)
      /\ HandBehind(hand, cw + cp + lost)
      /\ WireBehind(wire, cp + lost)
      /\ PublishedBehind(published, lost)
  BY DEF AccountInv, Balanced
<1> HIDE DEF cw, cp, n
<1>0. /\ produced \in Int /\ n \in Int /\ dropped \in Int /\ Weight(hand) \in Int
      /\ cw \in Int /\ cp \in Int /\ lost \in Int
  BY <1>1, <1>2
<1>4. \A a : HandBehind(NoFrame, a)
  BY <1>2 DEF HandBehind
<1>5. \A f, a, b : f \in AnyFrame /\ a \in Int /\ b \in Int /\ a <= b /\ HandBehind(f, a)
                   => HandBehind(f, b)
  <2> SUFFICES ASSUME NEW f \in AnyFrame, NEW a \in Int, NEW b \in Int, a <= b,
                      f.type = "event" => f.n - 1 <= a, f.type = "event"
               PROVE  f.n - 1 <= b
    BY DEF HandBehind
  <2>1. f.n \in Nat
    BY DEF AnyFrame
  <2> QED
    BY <2>1
<1>6. CASE Enqueued
  <2>1. /\ hand' = hand /\ wire' = wire /\ published' = published /\ lost' = lost
        /\ stopping' = stopping /\ ~stopping /\ produced' = produced + 1
    BY <1>6 DEF Enqueued
  <2>2. CASE queue' = Append(queue, produced + 1) /\ dropped' = dropped
    <3>1. Len(queue') = n + 1 /\ QueueBehind(queue', produced + 1)
      BY <1>1, <1>3, <2>1, <2>2, AppendIs, QueueCounts DEF n
    <3>2. produced + 1 = (n + 1) + dropped + Weight(hand) + cw + cp + lost
      BY <1>0, <1>3, <2>1, TotalMoves
    <3>3. (produced + 1) - (n + 1) - 1 = produced - n - 1
      BY <1>1, <1>2
    <3> QED
      BY <1>3, <2>1, <2>2, <3>1, <3>2, <3>3 DEF AccountInv, Balanced, cw, cp
  <2>3. CASE queue # <<>> /\ queue' = Append(Tail(queue), produced + 1) /\ dropped' = dropped + 1
    <3>1. Tail(queue) \in Seq(Nat) /\ Len(Tail(queue)) = n - 1 /\ QueueBehind(Tail(queue), produced)
      BY <1>1, <1>3, <2>1, <2>3, TailIs, QueueCounts DEF n
    <3>2. Len(queue') = n /\ QueueBehind(queue', produced + 1)
      <4>1. Len(queue') = (n - 1) + 1
        BY <1>1, <2>3, <3>1, AppendIs
      <4>2. (n - 1) + 1 = n
        BY <1>2
      <4> QED
        BY <1>1, <2>3, <3>1, <4>1, <4>2, QueueCounts
    <3>3. produced + 1 = n + (dropped + 1) + Weight(hand) + cw + cp + lost
      BY <1>0, <1>3, <2>1, TotalMoves
    <3>4. HandBehind(hand, (produced + 1) - n - 1)
      <4>1. /\ produced - n - 1 \in Int /\ (produced + 1) - n - 1 \in Int
            /\ produced - n - 1 <= (produced + 1) - n - 1
        BY <1>1, <1>2
      <4> QED
        BY <1>1, <1>3, <1>5, <2>1, <4>1
    <3> QED
      BY <1>3, <2>1, <2>3, <3>2, <3>3, <3>4 DEF AccountInv, Balanced, cw, cp
  <2> QED
    BY <1>6, <2>2, <2>3 DEF Enqueued
<1>7. CASE Taken
  <2>1. /\ wire' = wire /\ published' = published /\ lost' = lost /\ stopping' = stopping
        /\ ~stopping /\ produced' = produced /\ hand = NoFrame
    BY <1>7 DEF Taken
  <2>2. produced = n + dropped + 0 + cw + cp + lost
    BY <1>2, <1>3, <2>1
  <2>3. CASE hand' = GapFrame(dropped) /\ dropped' = 0 /\ queue' = queue
    <3>1. Weight(hand') = dropped /\ hand'.type # "event"
      BY <1>1, <2>3, WeightIs, FramesAre
    <3>2. produced = n + 0 + dropped + cw + cp + lost
      BY <1>1, <1>2, <2>2
    <3> QED
      BY <1>3, <2>1, <2>3, <3>1, <3>2 DEF AccountInv, Balanced, HandBehind, cw, cp, n
  <2>4. CASE /\ dropped = 0 /\ queue # <<>> /\ hand' = EventFrame(Head(queue))
             /\ queue' = Tail(queue) /\ dropped' = dropped
    <3>1. /\ Head(queue) \in Nat /\ Len(queue') = n - 1 /\ QueueBehind(queue', produced)
          /\ Head(queue) - 1 <= produced - n
      BY <1>1, <1>3, <2>1, <2>4, TailIs, QueueCounts DEF n
    <3>2. Weight(hand') = 1 /\ hand'.type = "event" /\ hand'.n = Head(queue)
      BY <2>4, <3>1, WeightIs, FramesAre
    <3>3. produced = (n - 1) + 0 + 1 + cw + cp + lost
      BY <1>1, <1>2, <2>2, <2>4
    <3>4. produced - (n - 1) - 1 = produced - n /\ produced - n = cw + cp + lost
      BY <1>1, <1>2, <2>2, <2>4
    <3>5. HandBehind(hand', produced - (n - 1) - 1) /\ HandBehind(hand', cw + cp + lost)
      BY <3>1, <3>2, <3>4 DEF HandBehind
    <3> QED
      BY <1>3, <2>1, <2>4, <3>1, <3>2, <3>3, <3>5 DEF AccountInv, Balanced, cw, cp
  <2> QED
    BY <1>7, <2>3, <2>4 DEF Taken
<1>8. CASE Written
  <2>1. /\ published' = published /\ lost' = lost /\ stopping' = stopping
        /\ produced' = produced /\ queue' = queue /\ dropped' = dropped
    BY <1>8 DEF Written
  <2>2. PICK f \in {hand, NoFrame} : /\ wire' = Append(wire, f)
                                     /\ \/ f = hand /\ hand' = NoFrame
                                        \/ f = NoFrame /\ hand' = hand
    BY <1>8 DEF Written
  <2>3. f \in AnyFrame /\ Weight(f) \in Nat /\ Carried(wire') = cw + Weight(f)
    BY <1>1, <1>2, <2>2, AppendWeighs DEF cw
  <2>4. WireBehind(wire', cp + lost)
    <3>1. cw + (cp + lost) = cw + cp + lost
      BY <1>1, <1>2
    <3>2. HandBehind(f, Carried(wire) + (cp + lost))
      BY <1>3, <1>4, <2>2, <3>1 DEF cw
    <3> QED
      BY <1>1, <1>2, <1>3, <2>2, <2>3, <3>2, WireGrows
  <2>5. HandBehind(hand', (cw + Weight(f)) + cp + lost)
    <3>1. /\ cw + cp + lost \in Int /\ (cw + Weight(f)) + cp + lost \in Int
          /\ cw + cp + lost <= (cw + Weight(f)) + cp + lost
      BY <1>1, <1>2, <2>3
    <3> QED
      BY <1>1, <1>3, <1>4, <1>5, <2>2, <3>1
  <2>6. ~stopping => produced = n + dropped + Weight(hand') + (cw + Weight(f)) + cp + lost
    <3>1. \/ Weight(f) = Weight(hand) /\ Weight(hand') = 0
          \/ Weight(f) = 0 /\ Weight(hand') = Weight(hand)
      BY <1>2, <2>2
    <3> QED
      BY <1>0, <1>3, <3>1, TotalMoves
  <2>7. ~stopping => HandBehind(hand', produced - n - 1)
    BY <1>3, <1>4, <2>2
  <2> QED
    BY <1>3, <2>1, <2>3, <2>4, <2>5, <2>6, <2>7 DEF AccountInv, Balanced, cp, n
<1>9. CASE Returned
  <2>1. /\ published' = published /\ lost' = lost + cw /\ stopping' = stopping
        /\ produced' = produced /\ hand' = NoFrame /\ wire' = <<>>
    BY <1>9 DEF Returned, cw
  <2>2. WireBehind(wire', cp + (lost + cw)) /\ HandBehind(hand', 0 + cp + (lost + cw))
    BY <1>4, <2>1 DEF WireBehind
  <2>3. PublishedBehind(published, lost + cw)
    BY <1>1, <1>2, <1>3, PublishedCovered
  <2>4. ASSUME ~stopping
        PROVE  /\ produced = Len(queue') + dropped' + 0 + 0 + cp + (lost + cw)
               /\ QueueBehind(queue', produced)
    <3>1. CASE hand.type = "event" /\ queue' = <<hand.n>> \o queue /\ dropped' = dropped
      <4>1. Len(queue') = n + 1 /\ Weight(hand) = 1
        BY <1>1, <3>1, WeightIs, ConsIs DEF n
      <4>2. produced = (n + 1) + dropped + 0 + 0 + cp + (lost + cw)
        BY <1>0, <1>3, <2>4, <4>1, TotalMoves
      <4>3. hand.n - 1 <= produced - Len(queue) - 1
        BY <1>3, <2>4, <3>1 DEF HandBehind, n
      <4> QED
        BY <1>1, <1>3, <2>4, <3>1, <4>1, <4>2, <4>3, QueueCounts
    <3>2. CASE hand.type = "gap" /\ dropped' = dropped + hand.n /\ queue' = queue
      <4>1. Weight(hand) = hand.n
        BY <3>2 DEF Weight
      <4>2. produced = n + (dropped + hand.n) + 0 + 0 + cp + (lost + cw)
        <5>1. produced = n + (dropped + Weight(hand)) + 0 + 0 + cp + (lost + cw)
          BY <1>0, <1>3, <2>4, TotalMoves
        <5> QED
          BY <4>1, <5>1
      <4> QED
        BY <1>3, <2>4, <3>2, <4>2 DEF n
    <3> QED
      BY <1>9, <3>1, <3>2 DEF Returned
  <2> QED
    BY <1>2, <1>4, <2>1, <2>2, <2>3, <2>4 DEF AccountInv, Balanced, cp
<1>10. CASE Read
  <2> DEFINE x == Weight(Head(wire))
             ct == Carried(wire')
  <2>1. /\ lost' = lost /\ stopping' = stopping /\ produced' = produced /\ hand' = hand
        /\ queue' = queue /\ dropped' = dropped /\ wire # <<>> /\ wire' = Tail(wire)
    BY <1>10 DEF Read
  <2>2. /\ Head(wire) \in AnyFrame /\ x \in Nat /\ ct \in Nat /\ cw = ct + x
    BY <1>1, <2>1, TailIs, TailWeighs, WeightIs, CarriedIs DEF cw
  <2>3. /\ Carried(published') = cp + x
        /\ PublishedBehind(published', lost)
    <3>1. CASE Head(wire) = NoFrame /\ published' = published
      <4>1. cp + x = cp
        BY <1>2, <3>1
      <4> QED
        BY <1>3, <3>1, <4>1 DEF cp
    <3>2. CASE published' = Append(published, Head(wire))
      <4>1. HandBehind(Head(wire), Carried(published) + lost)
        BY <1>1, <1>2, <1>3, <2>1, WireShrinks DEF cp
      <4>2. PublishedBehind(Append(published, Head(wire)), lost)
        BY <1>1, <1>3, <2>2, <4>1, PublishedGrows
      <4>3. Carried(Append(published, Head(wire))) = cp + x
        BY <1>1, <2>2, AppendWeighs DEF cp
      <4> QED
        BY <3>2, <4>2, <4>3
    <3> QED
      BY <1>10, <3>1, <3>2 DEF Read
  <2>4. WireBehind(wire', (cp + x) + lost)
    <3>1. WireBehind(Tail(wire), (cp + lost) + Weight(Head(wire)))
      BY <1>1, <1>2, <1>3, <2>1, WireShrinks
    <3>2. (cp + lost) + x = (cp + x) + lost
      BY <1>1, <1>2, <2>2
    <3> QED
      BY <2>1, <3>1, <3>2
  <2> HIDE DEF x, ct
  <2>5. ct + (cp + x) + lost = cw + cp + lost
    BY <1>1, <1>2, <2>2
  <2>6. ~stopping => produced = n + dropped + Weight(hand) + ct + (cp + x) + lost
    BY <1>1, <1>2, <1>3, <2>2
  <2> QED
    BY <1>3, <2>1, <2>3, <2>4, <2>5, <2>6 DEF AccountInv, Balanced, ct, n
<1>11. CASE Cleared
  <2>1. /\ hand' = hand /\ published' = published /\ (stopping => stopping')
        /\ stopping \/ (queue' = queue /\ dropped' = dropped /\ produced' = produced)
    BY <1>11 DEF Cleared
  <2>2. PICK m \in {0, cw} : /\ lost' = lost + m /\ Carried(wire') = cw - m
                             /\ (wire' = wire /\ m = 0) \/ wire' = <<>>
    <3>1. CASE wire' = wire /\ lost' = lost
      <4>1. lost' = lost + 0 /\ Carried(wire') = cw - 0
        <5>1. lost + 0 = lost /\ cw - 0 = cw
          BY <1>1, <1>2
        <5> QED
          BY <3>1, <5>1 DEF cw
      <4> QED
        BY <3>1, <4>1
    <3>2. CASE wire' = <<>> /\ lost' = lost + cw
      <4>1. Carried(wire') = cw - cw
        BY <1>2, <3>2
      <4> QED
        BY <3>2, <4>1
    <3> QED
      BY <1>11, <3>1, <3>2 DEF Cleared, cw
  <2>3. m \in Nat
    BY <1>2, <2>2
  <2>4. PublishedBehind(published, lost + m)
    BY <1>1, <1>3, <2>3, PublishedCovered
  <2>5. WireBehind(wire', cp + (lost + m))
    <3>1. CASE wire' = wire /\ m = 0
      <4>1. cp + (lost + m) = cp + lost
        BY <1>1, <1>2, <3>1
      <4> QED
        BY <1>3, <3>1, <4>1
    <3>2. CASE wire' = <<>>
      BY <3>2 DEF WireBehind
    <3> QED
      BY <2>2, <3>1, <3>2
  <2>6. (cw - m) + cp + (lost + m) = cw + cp + lost
    BY <1>1, <1>2, <2>3
  <2>7. ~stopping => produced = n + dropped + Weight(hand) + (cw - m) + cp + (lost + m)
    BY <1>1, <1>2, <1>3, <2>3
  <2> QED
    BY <1>3, <2>1, <2>2, <2>4, <2>5, <2>6, <2>7 DEF AccountInv, Balanced, cp, n
<1> QED
  BY <1>6, <1>7, <1>8, <1>9, <1>10, <1>11

-----------------------------------------------------------------------------
(* The system.                                                             *)

DeliveryInv == StreamShapes /\ OrderInv /\ HandshakeInv /\ AccountInv /\ WaitInv /\ AuditInv

\* It holds at first.
LEMMA DeliveryInit ==
  ASSUME Init
  PROVE  DeliveryInv
<1>1. /\ queue = <<>> /\ wire = <<>> /\ published = <<>> /\ hand = NoFrame
      /\ dropped = 0 /\ produced = 0 /\ lost = 0 /\ stopper = "none"
      /\ worker = "accepting" /\ reader \in {"away", "dead"}
  BY DEF Init
<1>2. StreamShapes
  BY <1>1, FramesAre DEF StreamShapes
<1>3. OrderInv
  BY <1>1, EmptyIsInOrder DEF OrderInv, InOrder
<1>4. HandshakeInv
  BY <1>1 DEF HandshakeInv, Plain, Serving, Greeting
<1>5. WaitInv
  BY DEF Init, WaitInv, WaitOK, WaitFields
<1>6. AuditInv
  <2>1. /\ DOMAIN audit = AuditFields /\ audit.channel = <<>> /\ audit.line = NoFrame
        /\ audit.queued = 0 /\ audit.dropped = 0 /\ audit.reported = 0 /\ audit.written = 0
        /\ audit.gaps = 0
    BY DEF Init, AuditFields
  <2>2. Len(published) = 0 /\ Len(audit.channel) = 0 /\ Plain(audit.channel, 0)
    BY <1>1, <2>1 DEF Plain
  <2> QED
    BY <2>1, <2>2, DeliveryAssumption DEF AuditInv, AuditOK
<1>7. AccountInv
  <2>1. Carried(<<>>) = 0 /\ Weight(NoFrame) = 0 /\ Len(<<>>) = 0 /\ NoFrame.type # "event"
    BY CarriedIs, WeightIs, FramesAre
  <2>2. produced = Len(queue) + dropped + Weight(hand) + Carried(wire) + Carried(published) + lost
    BY <1>1, <2>1
  <2> QED
    BY <1>1, <2>1, <2>2 DEF AccountInv, Balanced, QueueBehind, HandBehind, WireBehind,
       PublishedBehind
<1> QED
  BY <1>2, <1>3, <1>4, <1>5, <1>6, <1>7 DEF DeliveryInv

\* The pipe, the wait and the audit log keep it together.
LEMMA DeliveryNext ==
  ASSUME DeliveryInv, [Next]_deliveryVars
  PROVE  DeliveryInv'
<1>1. StreamShapes /\ OrderInv /\ HandshakeInv /\ AccountInv /\ WaitInv /\ AuditInv
  BY DEF DeliveryInv
<1>2. ASSUME StreamStep \/ Publish
      PROVE  (StreamShapes /\ OrderInv /\ HandshakeInv /\ AccountInv)'
  <2>1. Enqueued \/ Taken \/ Written \/ Returned \/ Read \/ Cleared
    BY <1>1, <1>2, StreamMoves
  <2> QED
    BY <1>1, <1>2, <2>1, StreamShapesNext, OrderNext, HandshakeNext,
       AccountNext
<1>3. ASSUME UNCHANGED streamVars
      PROVE  (StreamShapes /\ OrderInv /\ HandshakeInv /\ AccountInv)' /\ published' = published
  BY <1>1, <1>3 DEF streamVars, queueVars, pipeVars, readerVars, StreamShapes, OrderInv,
     HandshakeInv, AccountInv
<1>4. CASE StreamStep
  <2>1. UNCHANGED <<wait, audit, published>>
    BY <1>4 DEF StreamStep, Enqueue, SetInstanceId, WorkerStep, Connect, Connected,
       ReadFrameBounded, AwaitInstanceId, Greet, Take, IdleEnds, WriteFrame, PutBack, StopStep,
       StopFlags, StopCancels, StopDisconnects, StopJoins, Open, SayHello, ReadReady,
       LoseConnection, CloseEnd, WorkerOnly, readerVars
  <2> QED
    BY <1>1, <1>2, <1>4, <2>1 DEF DeliveryInv, WaitInv, AuditInv
<1>5. CASE Publish
  <2>1. /\ reader = "reading" /\ wire # <<>> /\ published' = Append(published, Head(wire))
        /\ wait' = wait /\ Recorded(Head(wire))
    BY <1>5 DEF Publish, ReadFrame
  <2>2. Head(wire) \in AnyFrame /\ Head(wire).type # "none" /\ published \in Seq(AnyFrame)
    BY <1>1, <2>1, TailIs, PlainWire DEF StreamShapes, HandshakeInv
  <2>3. WaitInv'
    BY <1>1, <2>1, <2>2, WaitSurvives DEF WaitInv
  <2>4. AuditInv'
    <3>1. \/ /\ Len(audit.channel) < AuditRecords
             /\ audit' = [audit EXCEPT !.channel = Append(@, Head(wire)), !.queued = @ + 1]
          \/ audit' = [audit EXCEPT !.dropped = @ + 1]
      BY <2>1 DEF Recorded
    <3>2. AuditOK(audit', Len(published) + 1)
      BY <1>1, <2>2, <3>1, RecordKeeps DEF AuditInv
    <3>3. Len(published') = Len(published) + 1
      BY <2>1, <2>2, AppendIs
    <3> QED
      BY <3>2, <3>3 DEF AuditInv
  <2> QED
    BY <1>2, <1>5, <2>3, <2>4 DEF DeliveryInv
<1>6. CASE WaitStep
  <2>1. UNCHANGED <<streamVars, audit>>
    BY <1>6 DEF WaitStep, Arm, Barrier, BarrierArrives, Receive, WaitTimesOut
  <2> QED
    BY <1>1, <1>3, <1>6, <2>1, WaitStepKeeps DEF DeliveryInv, AuditInv
<1>7. CASE WriterTakes \/ WriterAppends
  <2>1. UNCHANGED <<streamVars, wait>>
    BY <1>7 DEF WriterTakes, WriterAppends
  <2> QED
    BY <1>1, <1>3, <1>7, <2>1, WriterKeeps DEF DeliveryInv, WaitInv
<1>8. CASE UNCHANGED deliveryVars
  BY <1>1, <1>3, <1>8 DEF deliveryVars, DeliveryInv, WaitInv, AuditInv
<1> QED
  BY <1>4, <1>5, <1>6, <1>7, <1>8 DEF Next

\* DeliveryInv holds always.
THEOREM DeliveryInvHolds == Spec => []DeliveryInv
<1>1. Init => DeliveryInv
  BY DeliveryInit
<1>2. DeliveryInv /\ [Next]_deliveryVars => DeliveryInv'
  BY DeliveryNext
<1> QED
  BY <1>1, <1>2, PTL DEF Spec

\* Until Stop, every event recorded is queued, counted as dropped, in the worker's hand,
\* on the wire, published, covered by a published gap, or was lost with the pipe's
\* buffer: no path forgets one or counts one twice (Enqueue, Worker, receive_events).
THEOREM EveryEventAccountedHolds == Spec => []EveryEventAccounted
<1>1. DeliveryInv => EveryEventAccounted
  BY DEF DeliveryInv, AccountInv, Balanced, EveryEventAccounted
<1> QED
  BY <1>1, DeliveryInvHolds, PTL

\* The sidecar publishes events in sequence order and never twice, across overflows of
\* the queue, failed writes put back and reconnections; and an event after a hole comes
\* after gaps at least as large, up to what was lost with the pipe: the worker reports
\* drops before events (Worker, receive_events).
THEOREM StreamIsHonestHolds == Spec => []StreamIsHonest
<1>1. DeliveryInv => HolesAreAnnounced
  BY DEF DeliveryInv, AccountInv, PublishedBehind, HolesAreAnnounced
<1>2. DeliveryInv => StreamIsHonest
  BY <1>1 DEF StreamIsHonest, DeliveryInv, OrderInv, InOrder, Ascends, PublishedInOrder
<1> QED
  BY <1>2, DeliveryInvHolds, PTL

\* events.wait answers with the first matching event published after its barrier and,
\* while it waits, has skipped none (wait_event).
THEOREM WaitSeesEverythingHolds == Spec => []WaitSeesEverything
<1>1. DeliveryInv => WaitSeesEverything
  <2> SUFFICES ASSUME DeliveryInv PROVE WaitSeesEverything
    OBVIOUS
  <2> DEFINE first == {i \in DOMAIN published : Matches(published[i])}
  <2>1. WaitOK(wait, published) /\ DOMAIN published \subseteq Int
    BY DEF DeliveryInv, WaitInv, StreamShapes
  <2>2. \A i \in DOMAIN published :
          Matches(published[i]) <=> MatchesFor(published[i], wait.session, wait.after)
    BY DEF Matches, MatchesFor
  <2>3. wait.at \in {"waiting", "ok"} => \A i \in first : i >= wait.next
    <3>1. wait.at \in {"waiting", "ok"} => \A i \in first : ~(i < wait.next)
      BY <2>1, <2>2 DEF WaitOK
    <3>2. wait.at \in {"waiting", "ok"} => wait.next \in Int
      BY <2>1 DEF WaitOK, DeliveryInv, StreamShapes
    <3> QED
      BY <2>1, <3>1, <3>2
  <2>4. wait.at = "ok" => wait.next \in first /\ published[wait.next].n = wait.event
    BY <2>1, <2>2 DEF WaitOK
  <2>5. wait.at = "ok" => Min(first) = wait.next
    BY <2>1, <2>3, <2>4 DEF Min
  <2> QED
    BY <2>3, <2>4, <2>5 DEF WaitSeesEverything
<1> QED
  BY <1>1, DeliveryInvHolds, PTL

\* The budget of the audit queue is exactly what its lines take, every record was
\* written, is queued or was counted, and the file claims no gap that was none
\* (record, writer_loop).
THEOREM AuditBalancedHolds == Spec => []AuditBalanced
<1>1. DeliveryInv => AuditBalanced
  <2> SUFFICES ASSUME DeliveryInv PROVE AuditBalanced
    OBVIOUS
  <2>1. /\ audit.line = NoFrame => audit.queued = Len(audit.channel)
        /\ audit.line # NoFrame => audit.queued = Len(audit.channel) + 1
        /\ Len(published) = audit.written + audit.queued + audit.dropped
        /\ audit.gaps = audit.reported /\ audit.gaps <= audit.dropped
        /\ Len(audit.channel) \in Nat
    BY DEF DeliveryInv, AuditInv, AuditOK
  <2>2. CASE audit.line = NoFrame
    <3>1. (IF audit.line = NoFrame THEN 0 ELSE 1) = 0 /\ audit.queued = Len(audit.channel) + 0
      BY <2>1, <2>2
    <3> QED
      BY <2>1, <3>1 DEF AuditBalanced
  <2>3. CASE audit.line # NoFrame
    <3>1. (IF audit.line = NoFrame THEN 0 ELSE 1) = 1 /\ audit.queued = Len(audit.channel) + 1
      BY <2>1, <2>3
    <3> QED
      BY <2>1, <3>1 DEF AuditBalanced
  <2> QED
    BY <2>2, <2>3
<1> QED
  BY <1>1, DeliveryInvHolds, PTL

=============================================================================
