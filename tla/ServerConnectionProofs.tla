----------------------- MODULE ServerConnectionProofs -----------------------
(***************************************************************************)
(* What the tasks around server_connection rely on, for all bounds and     *)
(* whatever the network does:                                              *)
(*   - the registry of the CoAP client is exact, and the config never goes *)
(*     back while an observation lasts (CoapClient);                       *)
(*   - a result of the search for a server belongs together (Discovery).   *)
(* The invariant of the client is ClientInv of ClientRequests.             *)
(***************************************************************************)
EXTENDS ClientRequests, Discovery, SequenceTheorems, TLAPS

-----------------------------------------------------------------------------
(* Lists                                                                    *)

\* The elements of a list.
LEMMA Elements ==
  ASSUME NEW S, NEW s \in Seq(S)
  PROVE  /\ ToSet(s) \subseteq S /\ DOMAIN s = 1 .. Len(s) /\ Len(s) \in Nat
         /\ \A i \in 1 .. Len(s) : s[i] \in ToSet(s) /\ s[i] \in S
<1>1. DOMAIN s = 1 .. Len(s) /\ Len(s) \in Nat /\ \A i \in 1 .. Len(s) : s[i] \in S
  BY LenProperties, ElementOfSeq
<1> QED
  BY <1>1 DEF ToSet

\* Nothing is in the empty list.
LEMMA EmptyElements == ToSet(<<>>) = {}
BY DEF ToSet

\* One more at the end.
LEMMA AppendElements ==
  ASSUME NEW S, NEW s \in Seq(S), NEW e \in S
  PROVE  /\ Append(s, e) \in Seq(S) /\ Len(Append(s, e)) = Len(s) + 1
         /\ \A i \in 1 .. Len(s) : Append(s, e)[i] = s[i]
         /\ Append(s, e)[Len(s) + 1] = e
         /\ ToSet(Append(s, e)) = ToSet(s) \cup {e}
<1> DEFINE a == Append(s, e)
<1>1. /\ a \in Seq(S) /\ Len(a) = Len(s) + 1
      /\ \A i \in 1 .. Len(s) : a[i] = s[i]
      /\ a[Len(s) + 1] = e
  BY AppendProperties
<1>2. DOMAIN s = 1 .. Len(s) /\ DOMAIN a = 1 .. Len(s) + 1 /\ Len(s) \in Nat
  BY <1>1, LenProperties
<1> HIDE DEF a
<1>3. ToSet(a) = ToSet(s) \cup {e}
  BY <1>1, <1>2 DEF ToSet
<1> QED
  BY <1>1, <1>3 DEF a

\* One less at the front.
LEMMA TailElements ==
  ASSUME NEW S, NEW s \in Seq(S), s # <<>>
  PROVE  /\ Tail(s) \in Seq(S) /\ Len(s) \in Nat /\ Len(s) >= 1 /\ Len(Tail(s)) = Len(s) - 1
         /\ \A i \in 1 .. Len(s) - 1 : Tail(s)[i] = s[i + 1]
         /\ Head(s) = s[1] /\ Head(s) \in S /\ Head(s) \in ToSet(s)
         /\ ToSet(Tail(s)) \subseteq ToSet(s)
<1> DEFINE t == Tail(s)
<1>1. Len(s) \in Nat /\ Len(s) # 0 /\ DOMAIN s = 1 .. Len(s) /\ \A i \in 1 .. Len(s) : s[i] \in S
  BY LenProperties, ElementOfSeq, EmptySeq
<1>2. /\ Head(s) = s[1]
      /\ t \in Seq(S) /\ Len(t) = Len(s) - 1
      /\ \A i \in 1 .. Len(s) - 1 : t[i] = s[i + 1]
  BY <1>1, HeadTailProperties
<1>3. DOMAIN t = 1 .. Len(s) - 1
  BY <1>2, LenProperties
<1>4. 1 \in 1 .. Len(s) /\ \A i \in 1 .. Len(s) - 1 : i + 1 \in 1 .. Len(s)
  BY <1>1
<1> HIDE DEF t
<1>5. ToSet(t) \subseteq ToSet(s)
  BY <1>1, <1>2, <1>3, <1>4 DEF ToSet
<1>6. Head(s) \in ToSet(s) /\ Head(s) \in S
  BY <1>1, <1>2, <1>4 DEF ToSet
<1>7. Len(s) >= 1
  BY <1>1
<1> QED
  BY <1>1, <1>2, <1>5, <1>6, <1>7 DEF t

\* One list after the other.
LEMMA ConcatElements ==
  ASSUME NEW S, NEW a \in Seq(S), NEW b \in Seq(S)
  PROVE  /\ a \o b \in Seq(S) /\ Len(a \o b) = Len(a) + Len(b)
         /\ ToSet(a \o b) = ToSet(a) \cup ToSet(b)
<1> DEFINE c == a \o b
<1>1. /\ c \in Seq(S) /\ Len(c) = Len(a) + Len(b)
      /\ \A i \in 1 .. Len(a) + Len(b) : c[i] = IF i <= Len(a) THEN a[i] ELSE b[i - Len(a)]
  BY ConcatProperties
<1>2. /\ Len(a) \in Nat /\ Len(b) \in Nat /\ DOMAIN a = 1 .. Len(a) /\ DOMAIN b = 1 .. Len(b)
      /\ DOMAIN c = 1 .. Len(a) + Len(b)
  BY <1>1, LenProperties
<1> HIDE DEF c
<1>3. ASSUME NEW i \in 1 .. Len(a) + Len(b) PROVE c[i] \in ToSet(a) \cup ToSet(b)
  <2>1. CASE i <= Len(a)
    <3>1. c[i] = a[i] /\ i \in DOMAIN a
      BY <1>1, <1>2, <2>1
    <3> QED
      BY <3>1 DEF ToSet
  <2>2. CASE ~(i <= Len(a))
    <3>1. c[i] = b[i - Len(a)] /\ i - Len(a) \in DOMAIN b
      BY <1>1, <1>2, <2>2
    <3> QED
      BY <3>1 DEF ToSet
  <2> QED
    BY <2>1, <2>2
<1>7. ToSet(c) \subseteq ToSet(a) \cup ToSet(b)
  BY <1>2, <1>3 DEF ToSet
<1>4. ToSet(a) \subseteq ToSet(c)
  BY <1>1, <1>2 DEF ToSet
<1>5. ASSUME NEW j \in 1 .. Len(b) PROVE b[j] \in ToSet(c)
  <2>1. Len(a) + j \in 1 .. Len(a) + Len(b) /\ ~(Len(a) + j <= Len(a)) /\ (Len(a) + j) - Len(a) = j
    BY <1>2
  <2>2. c[Len(a) + j] = b[j]
    BY <1>1, <2>1
  <2> QED
    BY <1>2, <2>1, <2>2 DEF ToSet
<1>6. ToSet(b) \subseteq ToSet(c)
  BY <1>2, <1>5 DEF ToSet
<1> QED
  BY <1>1, <1>4, <1>6, <1>7 DEF c

\* A list of one.
LEMMA SingleElement ==
  ASSUME NEW S, NEW e \in S
  PROVE  /\ Append(<<>>, e) \in Seq(S) /\ Len(Append(<<>>, e)) = 1
         /\ ToSet(Append(<<>>, e)) = {e}
<1> DEFINE n == <<>>
<1>1. n \in Seq(S) /\ Len(n) = 0 /\ ToSet(n) = {}
  BY EmptySeq, EmptyElements
<1> HIDE DEF n
<1>2. ASSUME NEW z \in Seq(S), Len(z) = 0, ToSet(z) = {}
      PROVE  /\ Append(z, e) \in Seq(S) /\ Len(Append(z, e)) = 1
             /\ ToSet(Append(z, e)) = {e}
  <2>1. /\ Append(z, e) \in Seq(S) /\ Len(Append(z, e)) = Len(z) + 1
        /\ ToSet(Append(z, e)) = ToSet(z) \cup {e}
    BY AppendElements
  <2> QED
    BY <1>2, <2>1
<1> QED
  BY <1>1, <1>2 DEF n

-----------------------------------------------------------------------------
(* What the model's constructors make                                       *)

\* The vas task between two requests.
LEMMA AtFields ==
  ASSUME NEW pc
  PROVE  /\ DOMAIN At(pc) = {"pc", "gen", "token", "kind"}
         /\ At(pc).pc = pc /\ At(pc).gen = 0 /\ At(pc).kind = "none"
BY DEF At

\* A request that is about to return an error.
LEMMA FailedFields ==
  ASSUME VasShape
  PROVE  /\ DOMAIN Failed = {"pc", "gen", "token", "kind"}
         /\ Failed.pc = "unregister" /\ Failed.gen = vas.gen /\ Failed.token = vas.token
         /\ Failed.kind = IF vas.kind = "tap" THEN "tap" ELSE "failed"
BY DEF Failed, VasShape

\* Another place of the request, and nothing else of it.
LEMMA VasAt ==
  ASSUME VasShape, NEW pc
  PROVE  /\ DOMAIN [vas EXCEPT !.pc = pc] = {"pc", "gen", "token", "kind"}
         /\ [vas EXCEPT !.pc = pc].pc = pc
         /\ [vas EXCEPT !.pc = pc].gen = vas.gen
         /\ [vas EXCEPT !.pc = pc].token = vas.token
         /\ [vas EXCEPT !.pc = pc].kind = vas.kind
BY DEF VasShape

\* The end of an iteration of the dispatcher.
LEMMA NextIterationFields ==
  ASSUME DispatcherShape
  PROVE  /\ DOMAIN NextIteration = {"pc", "gen", "msg"}
         /\ NextIteration.gen = dispatcher.gen /\ NextIteration.msg = <<>>
         /\ NextIteration.pc \in {"recv", "exited"}
         /\ OwnedByRun(dispatcher.gen) => NextIteration.pc = "recv"
BY DEF NextIteration, DispatcherShape

\* The dispatcher waits with a message.
LEMMA SuspendedFields ==
  ASSUME DispatcherShape, NEW pc, NEW msg
  PROVE  LET d == [dispatcher EXCEPT !.pc = pc, !.msg = msg] IN
           DOMAIN d = {"pc", "gen", "msg"} /\ d.pc = pc /\ d.gen = dispatcher.gen /\ d.msg = msg
BY DEF DispatcherShape

\* A message is taken from a channel.
LEMMA PopFields ==
  ASSUME RegistryShape, NEW t
  PROVE  /\ DOMAIN Pop(t) = DOMAIN registry
         /\ \A u \in DOMAIN registry :
              /\ DOMAIN Pop(t)[u] = {"gen", "queue"} /\ Pop(t)[u].gen = registry[u].gen
              /\ u = t => Pop(t)[u].queue = Tail(registry[t].queue)
              /\ u # t => Pop(t)[u].queue = registry[u].queue
BY DEF Pop, RegistryShape

\* A message is put into a channel.
LEMMA PushFields ==
  ASSUME RegistryShape, NEW t, NEW m
  PROVE  /\ DOMAIN Push(t, m) = DOMAIN registry
         /\ \A u \in DOMAIN registry :
              /\ DOMAIN Push(t, m)[u] = {"gen", "queue"} /\ Push(t, m)[u].gen = registry[u].gen
              /\ u = t => Push(t, m)[u].queue = Append(registry[t].queue, m)
              /\ u # t => Push(t, m)[u].queue = registry[u].queue
BY DEF Push, RegistryShape

\* A channel is removed.
LEMMA WithoutFields ==
  ASSUME NEW t
  PROVE  /\ DOMAIN Without(t) = DOMAIN registry \ {t}
         /\ \A u \in DOMAIN registry \ {t} : Without(t)[u] = registry[u]
BY DEF Without

\* What is not None is a record, and no record is None.
LEMMA RecordIsNotNone ==
  ASSUME NEW r, DOMAIN r # {}
  PROVE  r # None
BY DEF None

\* TypeOK says less than Shape.
LEMMA ShapeTypes == Shape => TypeOK
<1> SUFFICES ASSUME Shape PROVE TypeOK
  OBVIOUS
<1>1. MaxConnections \in Nat /\ generation \in 0 .. MaxConnections
  BY ClientAssumption DEF Shape, LinkShape
<1>2. \A t \in DOMAIN registry :
        /\ registry[t].gen \in 1 .. MaxConnections
        /\ registry[t].queue \in Seq(Messages) /\ Len(registry[t].queue) <= 1
  BY <1>1 DEF Shape, RegistryShape
<1>3. dispatcher.gen \in 0 .. MaxConnections
  BY <1>1 DEF Shape, DispatcherShape
<1>4. packets_send \in Seq([token : Tokens, kind : {"observe", "tap", "reset"}])
  BY DEF Shape, ChannelShape, Packets
<1> QED
  BY <1>2, <1>3, <1>4
  DEF TypeOK, Shape, LinkShape, ChannelShape, RegistryShape, DispatcherShape, VasShape,
      ObservationShape, ServerShape

-----------------------------------------------------------------------------
(* The shape is kept                                                        *)

\* Which groups of variables a step leaves as they are.
LEMMA GroupsKept ==
  ASSUME Shape
  PROVE  /\ UNCHANGED <<link, generation>> /\ dispatcher'.gen = dispatcher.gen
            /\ (dispatcher'.pc = "exited" => dispatcher.pc = "exited" \/ link # "up")
              => LinkShape'
         /\ UNCHANGED runVars => ChannelShape'
         /\ UNCHANGED <<registry, generation>> => RegistryShape'
         /\ UNCHANGED <<dispatcher, generation>> => DispatcherShape'
         /\ UNCHANGED <<vas, generation>> => VasShape'
         /\ UNCHANGED <<observation, config, leaked, generation, server_sequence>> => ObservationShape'
         /\ UNCHANGED <<serverVars, net>> => ServerShape'
BY DEF Shape, LinkShape, ChannelShape, RegistryShape, DispatcherShape, VasShape,
       ObservationShape, ServerShape, runVars, serverVars, Messages, Requests, Packets, InRequest


\* A channel that is read is shorter.
LEMMA PopShape ==
  ASSUME RegistryShape, NEW t \in DOMAIN registry, registry[t].queue # <<>>,
         registry' = Pop(t), UNCHANGED generation
  PROVE  /\ RegistryShape'
         /\ Head(registry[t].queue) \in Messages
         /\ Head(registry[t].queue) \in ToSet(registry[t].queue)
         /\ \A u \in DOMAIN registry : ToSet(registry'[u].queue) \subseteq ToSet(registry[u].queue)
<1> DEFINE q == registry[t].queue
<1>1. q \in Seq(Messages) /\ Len(q) <= 1 /\ q # <<>>
  BY DEF RegistryShape
<1> HIDE DEF q
<1>2. /\ Tail(q) \in Seq(Messages) /\ Len(Tail(q)) <= 1
      /\ Head(q) \in Messages /\ Head(q) \in ToSet(q)
      /\ ToSet(Tail(q)) \subseteq ToSet(q)
  <2>1. /\ Tail(q) \in Seq(Messages) /\ Len(q) \in Nat /\ Len(Tail(q)) = Len(q) - 1
        /\ Head(q) \in Messages /\ Head(q) \in ToSet(q)
        /\ ToSet(Tail(q)) \subseteq ToSet(q)
    BY <1>1, TailElements
  <2>2. Len(Tail(q)) <= 1
    BY <1>1, <2>1
  <2> QED
    BY <2>1, <2>2
<1>3. /\ DOMAIN registry' = DOMAIN registry
      /\ \A u \in DOMAIN registry :
           /\ DOMAIN registry'[u] = {"gen", "queue"} /\ registry'[u].gen = registry[u].gen
           /\ u = t => registry'[u].queue = Tail(q)
           /\ u # t => registry'[u].queue = registry[u].queue
  BY PopFields DEF q
<1>4. RegistryShape'
  BY <1>2, <1>3 DEF RegistryShape
<1>5. \A u \in DOMAIN registry : ToSet(registry'[u].queue) \subseteq ToSet(registry[u].queue)
  BY <1>2, <1>3 DEF q
<1> QED
  BY <1>2, <1>4, <1>5 DEF q

\* An empty channel takes a message.
LEMMA PushShape ==
  ASSUME RegistryShape, NEW t, NEW m \in Messages,
         t \in DOMAIN registry => registry[t].queue = <<>>,
         registry' = Push(t, m), UNCHANGED generation
  PROVE  /\ RegistryShape'
         /\ \A u \in DOMAIN registry :
              ToSet(registry'[u].queue) \subseteq
                ToSet(registry[u].queue) \cup (IF u = t THEN {m} ELSE {})
<1>1. /\ DOMAIN registry' = DOMAIN registry
      /\ \A u \in DOMAIN registry :
           /\ DOMAIN registry'[u] = {"gen", "queue"} /\ registry'[u].gen = registry[u].gen
           /\ u = t => registry'[u].queue = Append(registry[t].queue, m)
           /\ u # t => registry'[u].queue = registry[u].queue
  BY PushFields
<1> DEFINE s == Append(<<>>, m)
<1>4. s \in Seq(Messages) /\ Len(s) <= 1 /\ ToSet(s) = {m}
  BY SingleElement
<1>5. \A u \in DOMAIN registry : u = t => registry'[u].queue = s
  BY <1>1
<1> HIDE DEF s
<1>6. RegistryShape'
  BY <1>1, <1>4, <1>5 DEF RegistryShape
<1> QED
  BY <1>1, <1>4, <1>5, <1>6

\* The dispatcher goes on or ends.
LEMMA NextIterationShape ==
  ASSUME DispatcherShape, dispatcher' = NextIteration, UNCHANGED <<link, generation>>, LinkShape
  PROVE  DispatcherShape' /\ LinkShape'
<1>1. /\ DOMAIN dispatcher' = {"pc", "gen", "msg"}
      /\ dispatcher'.gen = dispatcher.gen /\ dispatcher'.msg = <<>>
      /\ dispatcher'.pc \in {"recv", "exited"}
      /\ OwnedByRun(dispatcher.gen) => dispatcher'.pc = "recv"
  BY NextIterationFields
<1>2. <<>> \in Seq(Messages)
  BY EmptySeq
<1>3. DispatcherShape'
  BY <1>1, <1>2 DEF DispatcherShape
<1>4. LinkShape'
  BY <1>1 DEF LinkShape, OwnedByRun
<1> QED
  BY <1>3, <1>4

\* The dispatcher waits for room.
LEMMA SuspendedShape ==
  ASSUME DispatcherShape, NEW pc \in {"chan_send", "reset_send"}, NEW m \in Messages,
         dispatcher' = [dispatcher EXCEPT !.pc = pc, !.msg = <<m>>],
         UNCHANGED <<link, generation>>, LinkShape
  PROVE  DispatcherShape' /\ LinkShape'
<1> DEFINE s == <<m>>
<1>1. s \in Seq(Messages) /\ Len(s) = 1
  OBVIOUS
<1> HIDE DEF s
<1>2. DOMAIN dispatcher' = {"pc", "gen", "msg"} /\ dispatcher'.pc = pc
      /\ dispatcher'.gen = dispatcher.gen /\ dispatcher'.msg = s
  BY SuspendedFields DEF s
<1>3. DispatcherShape'
  BY <1>1, <1>2 DEF DispatcherShape
<1>4. LinkShape'
  BY <1>2 DEF LinkShape
<1> QED
  BY <1>3, <1>4

\* A packet is added where there is room.
LEMMA SendShape ==
  ASSUME ChannelShape, NEW p \in Packets, Len(packets_send) < SendCapacity,
         packets_send' = Append(packets_send, p), UNCHANGED <<packets_recv, delivering>>
  PROVE  ChannelShape'
<1>1. packets_send' \in Seq(Packets) /\ Len(packets_send') = Len(packets_send) + 1
  BY AppendElements DEF ChannelShape
<1>2. Len(packets_send) \in Nat /\ SendCapacity \in Nat
  BY ClientAssumption, LenProperties DEF ChannelShape
<1>3. Len(packets_send') <= SendCapacity
  BY <1>1, <1>2
<1> QED
  BY <1>1, <1>3 DEF ChannelShape

\* The shape is kept by every step.
LEMMA ShapeStep ==
  ASSUME Shape, Entered, LastWord, Next
  PROVE  Shape'
<1> USE DEF Shape
<1>0. /\ MaxConnections \in Nat /\ SendCapacity \in Nat \ {0} /\ RecvCapacity \in Nat \ {0}
      /\ MaxSequence \in Nat /\ ResponseKinds \subseteq Kinds
      /\ generation \in Nat /\ server_sequence \in Nat
  BY ClientAssumption DEF LinkShape, ServerShape
<1>1. CASE Connect
  <2>1. CASE dispatcher.pc # "exited"
    BY <1>1, <2>1, GroupsKept
    DEF Connect, LinkShape, runVars, clientVars, serverVars, ObservationShape
  <2>2. CASE dispatcher.pc = "exited"
    <3>1. /\ link' = "up" /\ generation' = generation + 1
          /\ packets_send' = <<>> /\ packets_recv' = <<>> /\ delivering' = <<>>
          /\ dispatcher' = [pc |-> "recv", gen |-> generation + 1, msg |-> <<>>]
          /\ registry' =
               [t \in {u \in DOMAIN registry :
                         vas.pc \in InRequest /\ registry[u].gen = vas.gen}
                  |-> registry[t]]
          /\ leaked' \subseteq leaked
          /\ UNCHANGED <<vas, observation, config, serverVars, net>>
          /\ generation < MaxConnections
      BY <1>1, <2>2 DEF Connect
    <3>2. generation' \in 1 .. MaxConnections /\ generation' > generation
      BY <1>0, <3>1
    <3>3. LinkShape'
      BY <3>1, <3>2 DEF LinkShape
    <3>4. ChannelShape'
      BY <1>0, <3>1, EmptySeq DEF ChannelShape
    <3>5. RegistryShape'
      <4>1. /\ DOMAIN registry' \subseteq DOMAIN registry
            /\ \A t \in DOMAIN registry' : registry'[t] = registry[t]
        BY <3>1
      <4>2. \A t \in DOMAIN registry' : registry'[t].gen \in 1 .. generation'
        BY <1>0, <3>1, <4>1 DEF RegistryShape
      <4> QED
        BY <4>1, <4>2 DEF RegistryShape, Messages
    <3>6. DispatcherShape'
      BY <1>0, <3>1, EmptySeq DEF DispatcherShape, Messages
    <3>7. VasShape'
      BY <1>0, <3>1 DEF VasShape, InRequest
    <3>8. ObservationShape'
      BY <1>0, <3>1 DEF ObservationShape, serverVars
    <3>9. ServerShape'
      BY <3>1, GroupsKept
    <3> QED
      BY <3>3, <3>4, <3>5, <3>6, <3>7, <3>8, <3>9
  <2> QED
    BY <2>1, <2>2
<1>2. CASE ConnectionLost
  BY <1>2, GroupsKept DEF ConnectionLost, LinkShape, ServerShape, clientVars, vasVars
<1>3. CASE RunSend
  <2>1. /\ packets_send # <<>> /\ packets_send' = Tail(packets_send)
        /\ UNCHANGED <<packets_recv, delivering>>
        /\ UNCHANGED <<link, generation, clientVars, vasVars, server_sequence, net>>
        /\ LET p == Head(packets_send) IN
             \/ observers' \in {observers, observers \ {p.token}} /\ UNCHANGED owed
             \/ p.kind # "reset" /\ owed' \in {owed, owed \cup {p}} /\ UNCHANGED observers
    BY <1>3 DEF RunSend
  <2>2. /\ Tail(packets_send) \in Seq(Packets) /\ Len(Tail(packets_send)) = Len(packets_send) - 1
        /\ Head(packets_send) \in Packets /\ Len(packets_send) \in Nat
    BY <2>1, TailElements DEF ChannelShape
  <2>3. Len(Tail(packets_send)) <= SendCapacity
    BY <1>0, <2>2 DEF ChannelShape
  <2>4. ChannelShape'
    BY <2>1, <2>2, <2>3 DEF ChannelShape, Packets, Messages
  <2>5. Head(packets_send).kind # "reset" => Head(packets_send) \in Requests
    BY <2>2 DEF Packets, Requests
  <2>6. ServerShape'
    BY <2>1, <2>5 DEF ServerShape, Requests, Messages
  <2> QED
    BY <2>1, <2>4, <2>6, GroupsKept DEF clientVars, vasVars
<1>4. CASE RunReceive
  <2>1. PICK m \in net :
          /\ delivering' = <<m>> /\ net' \subseteq net
          /\ UNCHANGED <<link, generation, packets_send, packets_recv, clientVars, vasVars, serverVars>>
    BY <1>4 DEF RunReceive
  <2>2. m \in Messages
    BY DEF ServerShape
  <2>3. <<m>> \in Seq(Messages) /\ Len(<<m>>) = 1
    BY <2>2
  <2>4. ChannelShape'
    BY <2>1, <2>3 DEF ChannelShape
  <2>5. ServerShape'
    BY <2>1 DEF ServerShape, serverVars, Messages, Requests
  <2> QED
    BY <2>1, <2>4, <2>5, GroupsKept DEF clientVars, vasVars, serverVars
<1>5. CASE RunDeliver
  <2>1. /\ delivering # <<>> /\ Len(packets_recv) < RecvCapacity
        /\ packets_recv' = packets_recv \o delivering /\ delivering' = <<>>
        /\ UNCHANGED <<world, packets_send, clientVars, vasVars>>
    BY <1>5 DEF RunDeliver
  <2>2. packets_recv' \in Seq(Messages) /\ Len(packets_recv') = Len(packets_recv) + Len(delivering)
    BY <2>1, ConcatElements DEF ChannelShape
  <2>3. Len(packets_recv) \in Nat /\ Len(delivering) \in Nat /\ Len(delivering) <= 1
    BY LenProperties DEF ChannelShape
  <2>4. Len(packets_recv') <= RecvCapacity
    BY <1>0, <2>1, <2>2, <2>3
  <2>5. ChannelShape'
    BY <2>1, <2>2, <2>4, EmptySeq DEF ChannelShape, Packets, Messages
  <2> QED
    BY <2>1, <2>5, GroupsKept DEF world, clientVars, vasVars, serverVars
<1>6. CASE Dispatch
  <2> DEFINE m == Head(packets_recv)
  <2>1. /\ packets_recv # <<>> /\ packets_recv' = Tail(packets_recv)
        /\ UNCHANGED <<world, delivering, vasVars>>
    BY <1>6 DEF Dispatch
  <2>2. \/ /\ m.token \in DOMAIN registry => registry[m.token].queue = <<>>
           /\ registry' = Push(m.token, m) /\ dispatcher' = NextIteration
           /\ UNCHANGED packets_send
        \/ /\ dispatcher' = [dispatcher EXCEPT !.pc = "chan_send", !.msg = <<m>>]
           /\ UNCHANGED <<registry, packets_send>>
        \/ /\ Len(packets_send) < SendCapacity
           /\ packets_send' = Append(packets_send, [token |-> m.token, kind |-> "reset"])
           /\ dispatcher' = NextIteration
           /\ UNCHANGED registry
        \/ /\ dispatcher' = [dispatcher EXCEPT !.pc = "reset_send", !.msg = <<m>>]
           /\ UNCHANGED <<registry, packets_send>>
    BY <1>6 DEF Dispatch
  <2>3. /\ Tail(packets_recv) \in Seq(Messages) /\ m \in Messages
        /\ Len(Tail(packets_recv)) = Len(packets_recv) - 1 /\ Len(packets_recv) \in Nat
    BY <2>1, TailElements DEF ChannelShape
  <2> HIDE DEF m
  <2>4. Len(Tail(packets_recv)) <= RecvCapacity
    BY <1>0, <2>3 DEF ChannelShape
  <2>5. UNCHANGED packets_send => ChannelShape'
    BY <2>1, <2>3, <2>4 DEF ChannelShape, Packets, Messages
  <2>6. UNCHANGED <<link, generation>>
    BY <2>1 DEF world
  <2>7. VasShape' /\ ObservationShape' /\ ServerShape'
    BY <2>1, GroupsKept DEF world, vasVars, serverVars
  <2>8. CASE /\ m.token \in DOMAIN registry => registry[m.token].queue = <<>>
             /\ registry' = Push(m.token, m) /\ dispatcher' = NextIteration
             /\ UNCHANGED packets_send
    BY <2>3, <2>5, <2>6, <2>7, <2>8, PushShape, NextIterationShape
  <2>9. CASE /\ \/ dispatcher' = [dispatcher EXCEPT !.pc = "chan_send", !.msg = <<m>>]
                \/ dispatcher' = [dispatcher EXCEPT !.pc = "reset_send", !.msg = <<m>>]
             /\ UNCHANGED <<registry, packets_send>>
    <3>1. DispatcherShape' /\ LinkShape'
      BY <2>3, <2>6, <2>9, SuspendedShape
    <3>2. RegistryShape'
      BY <2>6, <2>9, GroupsKept
    <3> QED
      BY <2>5, <2>7, <2>9, <3>1, <3>2
  <2>10. CASE /\ Len(packets_send) < SendCapacity
              /\ packets_send' = Append(packets_send, [token |-> m.token, kind |-> "reset"])
              /\ dispatcher' = NextIteration
              /\ UNCHANGED registry
    <3> DEFINE p == [token |-> m.token, kind |-> "reset"]
    <3>1. p \in Packets
      BY <2>3 DEF Packets, Messages
    <3> HIDE DEF p
    <3>2. Append(packets_send, p) \in Seq(Packets) /\ Len(Append(packets_send, p)) = Len(packets_send) + 1
      BY <3>1, AppendElements DEF ChannelShape
    <3>3. Len(packets_send) \in Nat
      BY LenProperties DEF ChannelShape
    <3>4. Len(Append(packets_send, p)) <= SendCapacity
      BY <1>0, <2>10, <3>2, <3>3
    <3>5. packets_send' = Append(packets_send, p)
      BY <2>10 DEF p
    <3>6. ChannelShape'
      BY <2>1, <2>3, <2>4, <3>2, <3>4, <3>5 DEF ChannelShape, Packets, Messages
    <3>7. RegistryShape'
      BY <2>6, <2>10, GroupsKept
    <3> QED
      BY <2>6, <2>7, <2>10, <3>6, <3>7, NextIterationShape
  <2> QED
    BY <2>2, <2>8, <2>9, <2>10
<1>7. CASE DispatchResume
  <2> DEFINE m == dispatcher.msg[1]
  <2>1. /\ dispatcher.pc = "chan_send" /\ registry[m.token].queue = <<>>
        /\ registry' = Push(m.token, m) /\ dispatcher' = NextIteration
        /\ UNCHANGED <<world, runVars, vasVars>>
    BY <1>7 DEF DispatchResume
  <2>2. m \in Messages
    BY <2>1, Elements DEF DispatcherShape
  <2> HIDE DEF m
  <2>3. UNCHANGED <<link, generation>>
    BY <2>1 DEF world
  <2>4. ChannelShape' /\ VasShape' /\ ObservationShape' /\ ServerShape'
    BY <2>1, GroupsKept DEF world, vasVars, serverVars
  <2> QED
    BY <2>1, <2>2, <2>3, <2>4, PushShape, NextIterationShape
<1>8. CASE ResetResume
  <2> DEFINE p == [token |-> dispatcher.msg[1].token, kind |-> "reset"]
  <2>1. /\ dispatcher.pc = "reset_send" /\ Len(packets_send) < SendCapacity
        /\ packets_send' = Append(packets_send, p) /\ dispatcher' = NextIteration
        /\ UNCHANGED <<world, packets_recv, delivering, registry, vasVars>>
    BY <1>8 DEF ResetResume
  <2>2. dispatcher.msg[1] \in Messages
    BY <2>1, Elements DEF DispatcherShape
  <2>3. p \in Packets
    BY <2>2 DEF Packets, Messages
  <2> HIDE DEF p
  <2>4. UNCHANGED <<link, generation>>
    BY <2>1 DEF world
  <2>5. RegistryShape' /\ VasShape' /\ ObservationShape' /\ ServerShape'
    BY <2>1, GroupsKept DEF world, vasVars, serverVars
  <2> QED
    BY <2>1, <2>3, <2>4, <2>5, SendShape, NextIterationShape
<1>9. CASE DispatcherExit
  <2>1. /\ dispatcher' = NextIteration /\ UNCHANGED <<world, runVars, registry, vasVars>>
    BY <1>9 DEF DispatcherExit
  <2>2. UNCHANGED <<link, generation>>
    BY <2>1 DEF world
  <2>3. ChannelShape' /\ RegistryShape' /\ VasShape' /\ ObservationShape' /\ ServerShape'
    BY <2>1, GroupsKept DEF world, vasVars, serverVars
  <2> QED
    BY <2>1, <2>2, <2>3, NextIterationShape
<1>10. ASSUME NEW t \in Tokens, Fetch(t) \/ Submit(t) PROVE Shape'
  <2>1. PICK k \in {"observe", "tap"} : Request(t, k)
    BY <1>10 DEF Fetch, Submit
  <2>2. UNCHANGED <<world, runVars, clientVars, observation, config, leaked>>
    BY <1>10 DEF Fetch, Submit
  <2>3. VasShape'
    BY <1>0, <2>1, <2>2 DEF Request, VasShape, InRequest, world
  <2> QED
    BY <2>2, <2>3, GroupsKept DEF world, clientVars, serverVars
<1>11. CASE Tap \/ NoResult
  <2>1. PICK pc \in {"exchange", "main"} : vas' = At(pc)
    BY <1>11 DEF Tap, NoResult
  <2>2. UNCHANGED <<world, runVars, clientVars, observation, config, leaked>>
    BY <1>11 DEF Tap, NoResult
  <2>3. VasShape'
    BY <1>0, <2>1, <2>2, AtFields DEF VasShape, InRequest, world
  <2> QED
    BY <2>2, <2>3, GroupsKept DEF world, clientVars, serverVars
<1>12. CASE Register
  <2>1. /\ vas.pc = "register" /\ vas' = [vas EXCEPT !.pc = "send"]
        /\ leaked' \subseteq leaked
        /\ registry' = [t \in DOMAIN registry \cup {vas.token} |->
                    IF t = vas.token THEN [gen |-> vas.gen, queue |-> <<>>]
                    ELSE registry[t]]
        /\ UNCHANGED <<world, runVars, dispatcher, observation, config>>
    BY <1>12 DEF Register
  <2>2. UNCHANGED <<link, generation, server_sequence>>
    BY <2>1 DEF world, serverVars
  <2>3. vas.token \in Tokens /\ vas.gen \in 1 .. generation
    BY <1>0, <2>1 DEF VasShape, InRequest
  <2>4. VasShape'
    BY <2>1, <2>2, VasAt DEF VasShape, InRequest
  <2>5. RegistryShape'
    <3> DEFINE e == [gen |-> vas.gen, queue |-> <<>>]
    <3>1. DOMAIN e = {"gen", "queue"} /\ e.gen = vas.gen /\ e.queue = <<>>
      OBVIOUS
    <3>2. registry' = [t \in DOMAIN registry \cup {vas.token} |->
                         IF t = vas.token THEN e ELSE registry[t]]
      BY <2>1
    <3> HIDE DEF e
    <3>3. <<>> \in Seq(Messages) /\ Len(<<>>) = 0
      BY EmptySeq
    <3>4. /\ DOMAIN registry' = DOMAIN registry \cup {vas.token}
          /\ registry'[vas.token] = e
          /\ \A t \in DOMAIN registry : t # vas.token => registry'[t] = registry[t]
      BY <3>2
    <3>5. e.queue \in Seq(Messages) /\ Len(e.queue) <= 1
      BY <3>1, <3>3
    <3> QED
      BY <2>2, <2>3, <3>1, <3>4, <3>5 DEF RegistryShape, Messages
  <2>6. ObservationShape'
    BY <2>1, <2>2 DEF ObservationShape
  <2> QED
    BY <2>1, <2>4, <2>5, <2>6, GroupsKept DEF world, serverVars
<1>13. CASE SendUpgrade
  <2>1. /\ vas.pc = "send" /\ vas' \in {[vas EXCEPT !.pc = "sending"], Failed}
        /\ UNCHANGED <<world, runVars, clientVars, observation, config, leaked>>
    BY <1>13 DEF SendUpgrade
  <2>2. VasShape'
    BY <2>1, VasAt, FailedFields DEF VasShape, InRequest, world
  <2> QED
    BY <2>1, <2>2, GroupsKept DEF world, clientVars, serverVars
<1>14. CASE SendPacket
  <2> DEFINE p == [token |-> vas.token, kind |-> vas.kind]
  <2>1. /\ vas.pc = "sending" /\ vas' \in {[vas EXCEPT !.pc = "wait"], [vas EXCEPT !.pc = "send"]}
        /\ \/ Len(packets_send) < SendCapacity /\ packets_send' = Append(packets_send, p)
           \/ UNCHANGED packets_send
        /\ UNCHANGED <<world, packets_recv, delivering, clientVars, observation, config, leaked>>
    BY <1>14 DEF SendPacket
  <2>2. p \in Packets
    BY <2>1 DEF VasShape, InRequest, Packets
  <2> HIDE DEF p
  <2>3. VasShape'
    BY <2>1, VasAt DEF VasShape, InRequest, world
  <2>4. ChannelShape'
    BY <2>1, <2>2, SendShape, GroupsKept DEF runVars
  <2> QED
    BY <2>1, <2>3, <2>4, GroupsKept DEF world, clientVars, serverVars
<1>15. CASE Response
  <2> DEFINE m == Head(registry[vas.token].queue)
  <2>1. /\ vas.pc = "wait" /\ registry[vas.token].queue # <<>>
        /\ \/ tap_answered(m) \/ config_refused(m) \/ config_without_observe(m)
           \/ config_observed(m) \/ config_invalid(m)
        /\ registry' = Pop(vas.token)
        /\ UNCHANGED <<world, runVars, dispatcher>>
    BY <1>15 DEF Response
  <2>2. vas.token \in DOMAIN registry /\ UNCHANGED <<link, generation, server_sequence>>
    BY <2>1 DEF Entered, Pending, world, serverVars
  <2>3. RegistryShape' /\ m \in Messages
    BY <2>1, <2>2, PopShape
  <2>4. m.sequence \in 0 .. MaxSequence /\ m.sequence \in 0 .. server_sequence
    <3>1. m \in InFlight
      BY <2>1, <2>2, PopShape DEF InFlight, Queued
    <3>2. m.sequence <= server_sequence
      BY <3>1 DEF LastWord
    <3> QED
      BY <1>0, <2>3, <3>2 DEF Messages
  <2> HIDE DEF m
  <2>5. VasShape' /\ ObservationShape'
    <3>1. /\ vas.token \in Tokens /\ vas.gen \in 1 .. generation
          /\ vas.kind \in {"observe", "tap"}
      BY <1>0, <2>1 DEF VasShape, InRequest
    <3>2. CASE tap_answered(m) \/ config_refused(m) \/ config_without_observe(m)
      <4>1. /\ vas' \in {[vas EXCEPT !.pc = "unregister"], Failed}
            /\ UNCHANGED <<observation, leaked>> /\ config' \in {config, m.sequence}
        BY <3>2 DEF tap_answered, config_refused, config_without_observe
      <4>2. VasShape'
        BY <2>2, <3>1, <4>1, VasAt, FailedFields DEF VasShape, InRequest
      <4>3. ObservationShape'
        BY <2>2, <2>4, <4>1 DEF ObservationShape
      <4> QED
        BY <4>2, <4>3
    <3>3. CASE config_observed(m) \/ config_invalid(m)
      <4>1. /\ vas' \in {At("main"), At("fetch")}
            /\ config' \in {config, m.sequence} /\ leaked' \in {leaked, leaked \cup {vas.token}}
            /\ \/ UNCHANGED observation
               \/ observation' = [token |-> vas.token, gen |-> vas.gen,
                                  last |-> m.sequence, is_done |-> FALSE]
        BY <3>3 DEF config_observed, config_invalid
      <4>2. VasShape'
        BY <1>0, <2>2, <4>1, AtFields DEF VasShape, InRequest
      <4>3. ObservationShape'
        <5>1. config' \in 0 .. MaxSequence /\ leaked' \subseteq Tokens
          BY <2>4, <3>1, <4>1 DEF ObservationShape
        <5>2. CASE UNCHANGED observation
          BY <2>2, <5>1, <5>2 DEF ObservationShape
        <5>3. CASE observation' = [token |-> vas.token, gen |-> vas.gen,
                                   last |-> m.sequence, is_done |-> FALSE]
          <6>1. /\ DOMAIN observation' = {"token", "gen", "last", "is_done"}
                /\ observation'.token = vas.token /\ observation'.gen = vas.gen
                /\ observation'.last = m.sequence /\ observation'.is_done = FALSE
            BY <5>3
          <6> QED
            BY <2>2, <2>4, <3>1, <5>1, <6>1 DEF ObservationShape
        <5> QED
          BY <4>1, <5>2, <5>3
      <4> QED
        BY <4>2, <4>3
    <3> QED
      BY <2>1, <3>2, <3>3
  <2> QED
    BY <2>1, <2>3, <2>5, GroupsKept DEF world, serverVars
<1>16. CASE RequestTimeout
  <2>1. /\ vas.pc = "wait" /\ vas' = Failed
        /\ UNCHANGED <<world, runVars, clientVars, observation, config, leaked>>
    BY <1>16 DEF RequestTimeout
  <2>2. VasShape'
    BY <2>1, VasAt, FailedFields DEF VasShape, InRequest, world
  <2> QED
    BY <2>1, <2>2, GroupsKept DEF world, clientVars, serverVars
<1>17. CASE Unregister
  <2>1. /\ registry' = Without(vas.token)
        /\ vas' \in {At("fetch"), At("main")}
        /\ UNCHANGED <<world, runVars, dispatcher, observation, config, leaked>>
    BY <1>17 DEF Unregister
  <2>2. UNCHANGED <<link, generation>>
    BY <2>1 DEF world
  <2>3. VasShape'
    BY <1>0, <2>1, <2>2, AtFields DEF VasShape, InRequest
  <2>4. RegistryShape'
    <3>1. /\ DOMAIN registry' \subseteq DOMAIN registry
          /\ \A u \in DOMAIN registry' : registry'[u] = registry[u]
      BY <2>1, WithoutFields
    <3> QED
      BY <2>2, <3>1 DEF RegistryShape, Messages
  <2> QED
    BY <2>1, <2>3, <2>4, GroupsKept DEF world, serverVars
<1>18. CASE TakeNotification
  <2> DEFINE t == observation.token
             m == Head(registry[observation.token].queue)
  <2>1. /\ vas.pc \in {"main", "next"} /\ observation # None /\ Registered(t)
        /\ registry[t].queue # <<>>
        /\ \/ observation_ended(m) \/ config_updated(m)
           \/ update_invalid(m) \/ update_stale(m)
        /\ registry' = Pop(t)
        /\ UNCHANGED <<world, runVars, dispatcher>>
    BY <1>18 DEF TakeNotification
  <2>2. t \in DOMAIN registry /\ UNCHANGED <<link, generation, server_sequence>>
    BY <2>1 DEF Registered, world, serverVars
  <2>3. RegistryShape' /\ m \in Messages
    BY <2>1, <2>2, PopShape
  <2>4. m.sequence \in 0 .. MaxSequence /\ m.sequence \in 0 .. server_sequence
    <3>1. m \in InFlight
      BY <2>1, <2>2, PopShape DEF InFlight, Queued
    <3>2. m.sequence <= server_sequence
      BY <3>1 DEF LastWord
    <3> QED
      BY <1>0, <2>3, <3>2 DEF Messages
  <2> HIDE DEF m
  <2>5. /\ \E pc \in {"close_error", "close_plain", "main", "fetch", "next"} : vas' = At(pc)
        /\ config' \in {config, m.sequence} /\ leaked' \in {leaked, leaked \cup {t}}
        /\ \/ UNCHANGED observation \/ observation' = None
           \/ observation' = [observation EXCEPT !.is_done = TRUE]
           \/ observation' = [observation EXCEPT !.last = m.sequence]
    BY <2>1 DEF observation_ended, config_updated, update_invalid, update_stale
  <2>6. VasShape'
    BY <1>0, <2>2, <2>5, AtFields DEF VasShape, InRequest
  <2>7. ObservationShape'
    BY <2>1, <2>2, <2>4, <2>5 DEF ObservationShape
  <2> QED
    BY <2>1, <2>3, <2>6, <2>7, GroupsKept DEF world, serverVars
<1>19. CASE CloseObservation
  <2>1. /\ registry' = Without(observation.token)
        /\ vas' \in {At("fetch"), At("main")}
        /\ observation' \in {observation, None}
        /\ UNCHANGED <<world, runVars, dispatcher, config, leaked>>
    BY <1>19 DEF CloseObservation
  <2>2. UNCHANGED <<link, generation, server_sequence>>
    BY <2>1 DEF world, serverVars
  <2>3. VasShape'
    BY <1>0, <2>1, <2>2, AtFields DEF VasShape, InRequest
  <2>4. RegistryShape'
    <3>1. /\ DOMAIN registry' \subseteq DOMAIN registry
          /\ \A u \in DOMAIN registry' : registry'[u] = registry[u]
      BY <2>1, WithoutFields
    <3> QED
      BY <2>2, <3>1 DEF RegistryShape, Messages
  <2>5. ObservationShape'
    BY <2>1, <2>2 DEF ObservationShape
  <2> QED
    BY <2>1, <2>3, <2>4, <2>5, GroupsKept DEF world, serverVars
<1>20. CASE ObservationLost \/ ObservationDone
  <2>1. /\ vas' \in {vas, At("fetch")} /\ observation' = None
        /\ UNCHANGED <<world, runVars, clientVars, config, leaked>>
    BY <1>20 DEF ObservationLost, ObservationDone
  <2>2. UNCHANGED <<link, generation, server_sequence>>
    BY <2>1 DEF world, serverVars
  <2>3. VasShape'
    BY <1>0, <2>1, <2>2, AtFields DEF VasShape, InRequest
  <2>4. ObservationShape'
    BY <2>1, <2>2 DEF ObservationShape
  <2> QED
    BY <2>1, <2>3, <2>4, GroupsKept DEF world, clientVars, serverVars
<1>21. CASE Answer
  <2>1. PICK r \in owed, k \in ResponseKinds :
          /\ net' = net \cup {[token |-> r.token, kind |-> k, sequence |->
                               IF r.kind = "tap" THEN 0 ELSE server_sequence]}
          /\ owed' = owed \ {r}
          /\ observers' \subseteq observers \cup {r.token}
          /\ UNCHANGED <<link, generation, runVars, clientVars, vasVars, server_sequence>>
    BY <1>21 DEF Answer
  <2>2. r.token \in Tokens /\ k \in Kinds /\ 0 \in 0 .. MaxSequence /\ server_sequence \in 0 .. MaxSequence
    BY <1>0 DEF ServerShape, Requests
  <2>3. [token |-> r.token, kind |-> k, sequence |->
           IF r.kind = "tap" THEN 0 ELSE server_sequence] \in Messages
    BY <2>2 DEF Messages
  <2>4. ServerShape'
    BY <2>1, <2>2, <2>3 DEF ServerShape, Requests, Messages
  <2> QED
    BY <2>1, <2>4, GroupsKept DEF clientVars, vasVars
<1>22. CASE Notify
  <2>1. PICK t \in observers, k \in ResponseKinds :
          /\ net' = net \cup {[token |-> t, kind |-> k, sequence |-> server_sequence']}
          /\ observers' \subseteq observers
          /\ server_sequence < MaxSequence /\ server_sequence' = server_sequence + 1
          /\ UNCHANGED <<link, generation, runVars, clientVars, vasVars, owed>>
    BY <1>22 DEF Notify
  <2>2. t \in Tokens /\ k \in Kinds /\ server_sequence' \in 0 .. MaxSequence
        /\ 0 .. server_sequence \subseteq 0 .. server_sequence'
    BY <1>0, <2>1 DEF ServerShape
  <2>3. [token |-> t, kind |-> k, sequence |-> server_sequence'] \in Messages
    BY <2>2 DEF Messages
  <2>4. ServerShape'
    BY <2>1, <2>2, <2>3 DEF ServerShape, Requests, Messages
  <2>5. ObservationShape'
    BY <2>1, <2>2 DEF ObservationShape, vasVars
  <2> QED
    BY <2>1, <2>4, <2>5, GroupsKept DEF clientVars, vasVars
<1>23. CASE Lose
  <2>1. net' \subseteq net /\ UNCHANGED <<link, generation, runVars, clientVars, vasVars, serverVars>>
    BY <1>23 DEF Lose
  <2>2. ServerShape'
    BY <2>1 DEF ServerShape, serverVars, Requests, Messages
  <2> QED
    BY <2>1, <2>2, GroupsKept DEF clientVars, vasVars, serverVars
<1> QED
  BY <1>1, <1>2, <1>3, <1>4, <1>5, <1>6, <1>7, <1>8, <1>9, <1>10, <1>11, <1>12, <1>13, <1>14,
     <1>15, <1>16, <1>17, <1>18, <1>19, <1>20, <1>21, <1>22, <1>23
  DEF Next, Vas, Others, Run, Dispatcher

-----------------------------------------------------------------------------
(* One config at a time                                                     *)

\* A step of the connection, of the dispatcher or of the server leaves the vas
\* task and its observation as they are.
Elsewhere ==
  \/ Connect \/ ConnectionLost \/ RunSend \/ RunReceive \/ RunDeliver
  \/ Dispatch \/ DispatchResume \/ ResetResume \/ DispatcherExit
  \/ Answer \/ Notify \/ Lose

\* What such a step leaves alone.
LEMMA ElsewhereKeeps ==
  ASSUME Elsewhere
  PROVE  UNCHANGED <<vas, observation, config>>
BY DEF Elsewhere, Connect, ConnectionLost, RunSend, RunReceive, RunDeliver, Dispatch,
       DispatchResume, ResetResume, DispatcherExit, Answer, Notify, Lose, vasVars

\* The requests for the config and the observation of it exclude each other.
LEMMA OneConfigStep ==
  ASSUME Shape, OneConfig, Next
  PROVE  OneConfig'
<1>S. VasShape /\ ObservationShape
  BY DEF Shape
<1>1. CASE UNCHANGED <<vas, observation>>
  BY <1>1 DEF OneConfig
<1>2. ASSUME NEW t \in Tokens, Fetch(t) PROVE OneConfig'
  BY <1>2, <1>S DEF Fetch, Request, OneConfig, InRequest
<1>3. ASSUME NEW t \in Tokens, Submit(t) PROVE OneConfig'
  <2>1. /\ ~TokenInUse(t)
        /\ vas' = [pc |-> "register", gen |-> generation, token |-> t, kind |-> "tap"]
        /\ UNCHANGED observation
    BY <1>3 DEF Submit, Request
  <2>2. observation # None => observation.token # t
    BY <2>1 DEF TokenInUse
  <2> QED
    BY <2>1, <2>2 DEF OneConfig, InRequest
<1>4. CASE Tap \/ NoResult
  <2>1. PICK pc \in {"exchange", "main"} : vas' = At(pc)
    BY <1>4 DEF Tap, NoResult
  <2>2. UNCHANGED observation
    BY <1>4 DEF Tap, NoResult
  <2> QED
    BY <2>1, <2>2, AtFields DEF OneConfig, InRequest
<1>5. CASE Register \/ SendUpgrade \/ SendPacket \/ RequestTimeout
  <2>1. /\ vas.pc \in InRequest /\ UNCHANGED observation
        /\ \/ vas' = Failed
           \/ \E pc \in {"send", "sending", "wait"} : vas' = [vas EXCEPT !.pc = pc]
    BY <1>5 DEF Register, SendUpgrade, SendPacket, RequestTimeout, InRequest
  <2>2. /\ vas'.pc \in InRequest /\ vas'.token = vas.token
        /\ vas'.kind # "tap" => vas.kind # "tap"
    BY <1>S, <2>1, VasAt, FailedFields DEF InRequest
  <2> QED
    BY <2>1, <2>2 DEF OneConfig, InRequest
<1>6. CASE Response
  <2> DEFINE m == Head(registry[vas.token].queue)
  <2>1. /\ vas.pc = "wait"
        /\ \/ tap_answered(m) \/ config_refused(m) \/ config_without_observe(m)
           \/ config_observed(m) \/ config_invalid(m)
    BY <1>6 DEF Response
  <2> HIDE DEF m
  <2>2. CASE tap_answered(m) \/ config_refused(m) \/ config_without_observe(m)
    <3>1. /\ vas' \in {[vas EXCEPT !.pc = "unregister"], Failed} /\ UNCHANGED observation
      BY <2>2 DEF tap_answered, config_refused, config_without_observe
    <3>2. /\ vas'.pc = "unregister" /\ vas'.token = vas.token
          /\ vas'.kind # "tap" => vas.kind # "tap"
      BY <1>S, <3>1, VasAt, FailedFields
    <3> QED
      BY <2>1, <3>1, <3>2 DEF OneConfig, InRequest
  <2>3. CASE config_observed(m)
    BY <2>3, AtFields DEF config_observed, OneConfig, InRequest
  <2>4. CASE config_invalid(m)
    BY <2>1, <2>4, AtFields DEF config_invalid, OneConfig, InRequest
  <2> QED
    BY <2>1, <2>2, <2>3, <2>4
<1>7. CASE Unregister
  <2>1. /\ vas.pc = "unregister" /\ UNCHANGED observation
        /\ vas' = At(IF vas.kind = "failed" THEN "fetch" ELSE "main")
    BY <1>7 DEF Unregister
  <2> QED
    BY <2>1, AtFields DEF OneConfig, InRequest
<1>8. CASE TakeNotification
  <2> DEFINE m == Head(registry[observation.token].queue)
  <2>1. /\ observation # None /\ ~observation.is_done
        /\ \/ observation_ended(m) \/ config_updated(m)
           \/ update_invalid(m) \/ update_stale(m)
    BY <1>8 DEF TakeNotification
  <2> HIDE DEF m
  <2>2. DOMAIN observation = {"token", "gen", "last", "is_done"}
    BY <1>S, <2>1 DEF ObservationShape
  <2>3. CASE observation_ended(m)
    <3>1. vas'.pc \in {"close_error", "close_plain"}
      BY <2>3, AtFields DEF observation_ended
    <3>2. observation'.is_done /\ DOMAIN observation' = DOMAIN observation
      BY <2>2, <2>3 DEF observation_ended
    <3>3. observation' # None
      BY <2>2, <3>2, RecordIsNotNone
    <3> QED
      BY <3>1, <3>2, <3>3 DEF OneConfig, InRequest
  <2>4. CASE config_updated(m)
    BY <2>4, AtFields DEF config_updated, OneConfig, InRequest
  <2>5. CASE update_invalid(m)
    BY <2>5, AtFields DEF update_invalid, OneConfig, InRequest
  <2>6. CASE update_stale(m)
    BY <2>1, <2>6, AtFields DEF update_stale, OneConfig, InRequest
  <2> QED
    BY <2>1, <2>3, <2>4, <2>5, <2>6
<1>9. CASE CloseObservation
  BY <1>9, AtFields DEF CloseObservation, OneConfig, InRequest
<1>10. CASE ObservationLost
  BY <1>10, AtFields DEF ObservationLost, OneConfig, InRequest
<1>11. CASE ObservationDone
  BY <1>11 DEF ObservationDone, OneConfig, InRequest
<1>12. CASE Elsewhere
  BY <1>1, <1>12, ElsewhereKeeps
<1> QED
  BY <1>2, <1>3, <1>4, <1>5, <1>6, <1>7, <1>8, <1>9, <1>10, <1>11, <1>12
  DEF Next, Vas, Others, Run, Dispatcher, Elsewhere

-----------------------------------------------------------------------------
(* The registry                                                             *)

\* No step but a new connection brings a registry back to life.
LEMMA AliveBefore ==
  ASSUME UNCHANGED generation,
         dispatcher'.pc # "exited" =>
           dispatcher.pc # "exited" /\ dispatcher'.gen = dispatcher.gen,
         vas'.pc \in InRequest =>
           \/ vas'.gen = generation
           \/ vas.pc \in InRequest /\ vas'.gen = vas.gen
  PROVE  \A g : RegistryAlive(g)' => RegistryAlive(g)
BY DEF RegistryAlive, HeldByDispatcher

\* What has to be seen of a step that enters nothing.
LEMMA EnteredKept ==
  ASSUME Entered, UNCHANGED generation,
         \A g : RegistryAlive(g)' => RegistryAlive(g),
         \A u \in DOMAIN registry' :
           /\ u \in DOMAIN registry /\ registry'[u].gen = registry[u].gen
           /\ \A m \in ToSet(registry'[u].queue) : m \in ToSet(registry[u].queue) \/ m.token = u,
         vas'.pc = "register" => vas'.token \notin DOMAIN registry,
         \A t \in Pending' : t \in DOMAIN registry' /\ registry[t].gen = vas'.gen,
         \A t \in Observed' : observation'.gen = generation =>
           t \in DOMAIN registry' /\ registry[t].gen = generation,
         \A t \in DOMAIN registry' :
           RegistryAlive(registry[t].gen) => t \in Pending' \cup Observed' \cup leaked'
  PROVE  Entered'
<1>1. \A t \in DOMAIN registry' : RegistryAlive(registry[t].gen)' => RegistryAlive(registry[t].gen)
  OBVIOUS
<1>2. \A t \in DOMAIN registry' : \A m \in ToSet(registry'[t].queue) : m.token = t
  BY DEF Entered
<1>3. \A t \in DOMAIN registry' :
        RegistryAlive(registry[t].gen)' => t \in Pending' \cup Observed' \cup leaked'
  BY <1>1
<1>4. \A t \in Pending' : t \in DOMAIN registry' /\ registry'[t].gen = vas'.gen
  OBVIOUS
<1>5. \A t \in Observed' : observation'.gen = generation' =>
           t \in DOMAIN registry' /\ registry'[t].gen = generation'
  OBVIOUS
<1>6. vas'.pc = "register" => vas'.token \notin DOMAIN registry'
  OBVIOUS
<1> QED
  BY <1>2, <1>3, <1>4, <1>5, <1>6 DEF Entered

\* The vas task, its observation and the connection stay as they are, and what
\* a channel gets is addressed to it.
LEMMA EnteredElsewhere ==
  ASSUME Entered, UNCHANGED <<vas, observation, leaked, generation>>,
         dispatcher'.pc # "exited" =>
           dispatcher.pc # "exited" /\ dispatcher'.gen = dispatcher.gen,
         DOMAIN registry' = DOMAIN registry,
         \A u \in DOMAIN registry :
           /\ registry'[u].gen = registry[u].gen
           /\ \A m \in ToSet(registry'[u].queue) : m \in ToSet(registry[u].queue) \/ m.token = u
  PROVE  Entered'
<1>1. \A g : RegistryAlive(g)' => RegistryAlive(g)
  BY AliveBefore
<1>2. Pending' = Pending /\ Observed' = Observed
  BY DEF Pending, Observed
<1>3. /\ vas.pc = "register" => vas.token \notin DOMAIN registry
      /\ \A t \in Pending : t \in DOMAIN registry /\ registry[t].gen = vas.gen
      /\ \A t \in Observed : observation.gen = generation =>
            t \in DOMAIN registry /\ registry[t].gen = generation
      /\ \A t \in DOMAIN registry :
            RegistryAlive(registry[t].gen) => t \in Pending \cup Observed \cup leaked
  BY DEF Entered
<1> QED
  BY <1>1, <1>2, <1>3, EnteredKept

\* A new connection: only the registry of a request that is still being made
\* outlives its connection.
LEMMA EnteredConnect ==
  ASSUME Shape, Entered, Connect
  PROVE  Entered'
<1>1. CASE dispatcher.pc # "exited"
  <2>1. UNCHANGED <<vas, observation, leaked, generation, dispatcher, registry>>
    BY <1>1 DEF Connect, clientVars
  <2> QED
    BY <2>1, EnteredElsewhere
<1>2. CASE dispatcher.pc = "exited"
  <2>1. /\ generation' = generation + 1
        /\ registry' = [t \in {u \in DOMAIN registry :
                                 vas.pc \in InRequest /\ registry[u].gen = vas.gen}
                          |-> registry[t]]
        /\ leaked' = leaked \cap DOMAIN registry'
        /\ UNCHANGED <<vas, observation>>
    BY <1>2 DEF Connect
  <2>2. /\ DOMAIN registry' = {u \in DOMAIN registry :
                                 vas.pc \in InRequest /\ registry[u].gen = vas.gen}
        /\ \A u \in DOMAIN registry' : registry'[u] = registry[u]
    BY <2>1
  <2>3. Pending' = Pending /\ Observed' = Observed
    BY <2>1 DEF Pending, Observed
  <2>4. \A t \in DOMAIN registry' :
          t \in DOMAIN registry /\ vas.pc \in InRequest /\ registry[t].gen = vas.gen
    BY <2>2
  <2>5. \A t \in DOMAIN registry' : RegistryAlive(registry[t].gen)
    BY <2>4 DEF RegistryAlive
  <2>6. \A t \in DOMAIN registry' : t \in Pending' \cup Observed' \cup leaked'
    BY <2>1, <2>3, <2>4, <2>5 DEF Entered
  <2>7. \A t \in Pending : t \in DOMAIN registry' /\ registry'[t].gen = vas'.gen
    <3>1. \A t \in Pending : vas.pc \in InRequest
      BY DEF Pending, InRequest
    <3> QED
      BY <2>1, <2>2, <3>1 DEF Entered
  <2>8. \A t \in Observed : observation'.gen # generation'
    <3>1. \A t \in Observed : observation # None
      BY DEF Observed
    <3>2. observation # None => observation.gen \in 1 .. generation
      BY DEF Shape, ObservationShape
    <3>3. generation \in Nat
      BY ClientAssumption DEF Shape, LinkShape
    <3> QED
      BY <2>1, <3>1, <3>2, <3>3
  <2>9. \A t \in DOMAIN registry' : \A m \in ToSet(registry'[t].queue) : m.token = t
    BY <2>2, <2>4 DEF Entered
  <2>10. vas'.pc = "register" => vas'.token \notin DOMAIN registry'
    BY <2>1, <2>4 DEF Entered
  <2> QED
    BY <2>3, <2>6, <2>7, <2>8, <2>9, <2>10 DEF Entered
<1> QED
  BY <1>1, <1>2

\* The dispatcher: a response goes into the channel of its token.
LEMMA EnteredDispatcher ==
  ASSUME Shape, Entered, Dispatcher
  PROVE  Entered'
<1>S. RegistryShape /\ DispatcherShape /\ ChannelShape
  BY DEF Shape
<1>1. UNCHANGED <<vas, observation, leaked, generation>>
  BY DEF Dispatcher, Dispatch, DispatchResume, ResetResume, DispatcherExit, world, vasVars
<1>2. dispatcher.pc # "exited" /\ dispatcher'.gen = dispatcher.gen
  <2>1. /\ dispatcher.pc # "exited"
        /\ \/ dispatcher' = NextIteration
           \/ \E pc, msg : dispatcher' = [dispatcher EXCEPT !.pc = pc, !.msg = msg]
    BY DEF Dispatcher, Dispatch, DispatchResume, ResetResume, DispatcherExit
  <2> QED
    BY <1>S, <2>1, NextIterationFields, SuspendedFields
<1>3. \/ UNCHANGED registry
      \/ \E m \in Messages : /\ registry' = Push(m.token, m)
                             /\ m.token \in DOMAIN registry => registry[m.token].queue = <<>>
  <2>1. CASE Dispatch
    <3>1. packets_recv # <<>>
      BY <2>1 DEF Dispatch
    <3>2. Head(packets_recv) \in Messages
      BY <1>S, <3>1, TailElements DEF ChannelShape
    <3> QED
      BY <2>1, <3>2 DEF Dispatch
  <2>2. CASE DispatchResume
    <3>1. dispatcher.msg[1] \in Messages
      BY <1>S, <2>2, Elements DEF DispatchResume, DispatcherShape
    <3> QED
      BY <2>2, <3>1 DEF DispatchResume
  <2>3. CASE ResetResume \/ DispatcherExit
    BY <2>3 DEF ResetResume, DispatcherExit
  <2> QED
    BY <2>1, <2>2, <2>3 DEF Dispatcher
<1>4. CASE UNCHANGED registry
  BY <1>1, <1>2, <1>4, EnteredElsewhere
<1>5. ASSUME NEW m \in Messages, registry' = Push(m.token, m),
             m.token \in DOMAIN registry => registry[m.token].queue = <<>>
      PROVE  Entered'
  <2>1. \A u \in DOMAIN registry :
          ToSet(registry'[u].queue) \subseteq
            ToSet(registry[u].queue) \cup (IF u = m.token THEN {m} ELSE {})
    BY <1>S, <1>1, <1>5, PushShape
  <2>2. /\ DOMAIN registry' = DOMAIN registry
        /\ \A u \in DOMAIN registry : registry'[u].gen = registry[u].gen
    BY <1>S, <1>5, PushFields
  <2>3. \A u \in DOMAIN registry :
          \A n \in ToSet(registry'[u].queue) : n \in ToSet(registry[u].queue) \/ n.token = u
    BY <2>1
  <2> QED
    BY <1>1, <1>2, <2>2, <2>3, EnteredElsewhere
<1> QED
  BY <1>3, <1>4, <1>5

\* What an entry of the registry is when a step leaves the registry alone.
LEMMA ChannelsAsBefore ==
  ASSUME UNCHANGED registry
  PROVE  \A u \in DOMAIN registry' :
           /\ u \in DOMAIN registry /\ registry'[u].gen = registry[u].gen
           /\ \A m \in ToSet(registry'[u].queue) : m \in ToSet(registry[u].queue) \/ m.token = u
OBVIOUS

\* A new request.
LEMMA EnteredNewRequest ==
  ASSUME Shape, Entered, NEW t \in Tokens, Fetch(t) \/ Submit(t)
  PROVE  Entered'
<1>1. /\ vas.pc \in {"fetch", "exchange"} /\ ~TokenInUse(t)
      /\ vas'.pc = "register" /\ vas'.gen = generation /\ vas'.token = t
      /\ UNCHANGED <<world, clientVars, observation, leaked>>
  <2>1. PICK k \in {"observe", "tap"} : Request(t, k)
    BY DEF Fetch, Submit
  <2>2. /\ ~TokenInUse(t)
        /\ vas' = [pc |-> "register", gen |-> generation, token |-> t, kind |-> k]
    BY <2>1 DEF Request
  <2>3. /\ vas.pc \in {"fetch", "exchange"}
        /\ UNCHANGED <<world, clientVars, observation, leaked>>
    BY DEF Fetch, Submit
  <2> QED
    BY <2>2, <2>3
<1>2. UNCHANGED <<generation, dispatcher, registry>>
  BY <1>1 DEF world, clientVars
<1>3. \A g : RegistryAlive(g)' => RegistryAlive(g)
  BY <1>1, <1>2, AliveBefore
<1>4. t \notin DOMAIN registry
  BY <1>1 DEF TokenInUse
<1>5. Pending = {} /\ Pending' = {} /\ Observed' = Observed
  BY <1>1 DEF Pending, Observed
<1>6. /\ \A u \in Observed : observation.gen = generation =>
            u \in DOMAIN registry /\ registry[u].gen = generation
      /\ \A u \in DOMAIN registry :
            RegistryAlive(registry[u].gen) => u \in Pending \cup Observed \cup leaked
  BY DEF Entered
<1> QED
  BY <1>1, <1>2, <1>3, <1>4, <1>5, <1>6, EnteredKept, ChannelsAsBefore

\* The exchange with a card begins or ends.
LEMMA EnteredCard ==
  ASSUME Shape, Entered, Tap \/ NoResult
  PROVE  Entered'
<1>1. PICK pc \in {"exchange", "main"} : vas' = At(pc)
  BY DEF Tap, NoResult
<1>2. /\ vas.pc \in {"main", "exchange"} /\ vas'.pc \in {"main", "exchange"}
      /\ UNCHANGED <<world, clientVars, observation, leaked>>
  BY <1>1, AtFields DEF Tap, NoResult
<1>3. UNCHANGED <<generation, dispatcher, registry>>
  BY <1>2 DEF world, clientVars
<1>4. \A g : RegistryAlive(g)' => RegistryAlive(g)
  BY <1>2, <1>3, AliveBefore DEF InRequest
<1>5. Pending = {} /\ Pending' = {} /\ Observed' = Observed
  BY <1>2 DEF Pending, Observed
<1>6. /\ \A u \in Observed : observation.gen = generation =>
            u \in DOMAIN registry /\ registry[u].gen = generation
      /\ \A u \in DOMAIN registry :
            RegistryAlive(registry[u].gen) => u \in Pending \cup Observed \cup leaked
  BY DEF Entered
<1> QED
  BY <1>2, <1>3, <1>4, <1>5, <1>6, EnteredKept, ChannelsAsBefore

\* The request is entered: nobody has the token yet.
LEMMA EnteredRegister ==
  ASSUME Shape, OneConfig, Entered, Register
  PROVE  Entered'
<1>1. /\ vas.pc = "register" /\ vas' = [vas EXCEPT !.pc = "send"]
      /\ leaked' = leaked \ {vas.token}
      /\ registry' = [t \in DOMAIN registry \cup {vas.token} |->
                        IF t = vas.token THEN [gen |-> vas.gen, queue |-> <<>>]
                        ELSE registry[t]]
      /\ UNCHANGED <<world, dispatcher, observation>>
  BY DEF Register
<1>2. UNCHANGED <<generation, dispatcher, observation>>
  BY <1>1 DEF world
<1>3. vas'.pc = "send" /\ vas'.gen = vas.gen /\ vas'.token = vas.token
  BY <1>1, VasAt DEF Shape
<1>4. \A g : RegistryAlive(g)' => RegistryAlive(g)
  BY <1>1, <1>2, <1>3, AliveBefore DEF InRequest
<1>5. /\ DOMAIN registry' = DOMAIN registry \cup {vas.token}
      /\ registry'[vas.token].gen = vas.gen /\ registry'[vas.token].queue = <<>>
      /\ \A u \in DOMAIN registry : u # vas.token => registry'[u] = registry[u]
  BY <1>1
<1>6. /\ vas.token \notin DOMAIN registry
      /\ \A u \in Observed : observation.gen = generation =>
            u \in DOMAIN registry /\ registry[u].gen = generation
      /\ \A u \in DOMAIN registry :
            RegistryAlive(registry[u].gen) => u \in Pending \cup Observed \cup leaked
      /\ \A u \in DOMAIN registry : \A m \in ToSet(registry[u].queue) : m.token = u
  BY <1>1 DEF Entered
<1>7. Pending = {} /\ Pending' = {vas.token} /\ Observed' = Observed
  BY <1>1, <1>2, <1>3 DEF Pending, Observed
<1>8. \A u \in Observed' : observation'.gen = generation' =>
        u \in DOMAIN registry' /\ registry'[u].gen = generation'
  BY <1>2, <1>5, <1>6, <1>7
<1>9. \A u \in DOMAIN registry' :
        RegistryAlive(registry[u].gen)' => u \in Pending' \cup Observed' \cup leaked'
  <2>1. ASSUME NEW u \in DOMAIN registry', u # vas.token, RegistryAlive(registry[u].gen)'
        PROVE  u \in Pending' \cup Observed' \cup leaked'
    <3>1. u \in DOMAIN registry /\ registry'[u] = registry[u]
      BY <1>5, <2>1
    <3>2. RegistryAlive(registry[u].gen)
      BY <1>4, <2>1, <3>1
    <3> QED
      BY <1>1, <1>6, <1>7, <2>1, <3>1, <3>2
  <2> QED
    BY <1>7, <2>1
<1>10. \A u \in DOMAIN registry' : \A m \in ToSet(registry'[u].queue) : m.token = u
  BY <1>5, <1>6, EmptyElements
<1>11. \A u \in Pending' : u \in DOMAIN registry' /\ registry'[u].gen = vas'.gen
  BY <1>3, <1>5, <1>7
<1>12. vas'.pc # "register"
  BY <1>3
<1> QED
  BY <1>8, <1>9, <1>10, <1>11, <1>12 DEF Entered

\* The request is on its way, or has been given up.
LEMMA EnteredRequest ==
  ASSUME Shape, Entered, SendUpgrade \/ SendPacket \/ RequestTimeout
  PROVE  Entered'
<1>1. /\ vas.pc \in {"send", "sending", "wait"}
      /\ vas' = Failed \/ \E pc \in {"send", "sending", "wait"} : vas' = [vas EXCEPT !.pc = pc]
      /\ UNCHANGED <<world, clientVars, observation, leaked>>
  BY DEF SendUpgrade, SendPacket, RequestTimeout
<1>2. UNCHANGED <<generation, dispatcher, registry>>
  BY <1>1 DEF world, clientVars
<1>3. /\ vas'.pc \in {"send", "sending", "wait", "unregister"}
      /\ vas'.gen = vas.gen /\ vas'.token = vas.token
  BY <1>1, VasAt, FailedFields DEF Shape
<1>4. \A g : RegistryAlive(g)' => RegistryAlive(g)
  BY <1>1, <1>2, <1>3, AliveBefore DEF InRequest
<1>5. Pending = {vas.token} /\ Pending' = {vas.token} /\ Observed' = Observed
  BY <1>1, <1>3 DEF Pending, Observed
<1>6. /\ \A u \in Pending : u \in DOMAIN registry /\ registry[u].gen = vas.gen
      /\ \A u \in Observed : observation.gen = generation =>
            u \in DOMAIN registry /\ registry[u].gen = generation
      /\ \A u \in DOMAIN registry :
            RegistryAlive(registry[u].gen) => u \in Pending \cup Observed \cup leaked
  BY DEF Entered
<1> QED
  BY <1>1, <1>2, <1>3, <1>4, <1>5, <1>6, EnteredKept, ChannelsAsBefore

\* What an entry of the registry is after a message has been taken.
LEMMA ChannelsAfterPop ==
  ASSUME RegistryShape, NEW t \in DOMAIN registry, registry[t].queue # <<>>,
         registry' = Pop(t), UNCHANGED generation
  PROVE  /\ DOMAIN registry' = DOMAIN registry
         /\ \A u \in DOMAIN registry' :
              /\ u \in DOMAIN registry /\ registry'[u].gen = registry[u].gen
              /\ \A m \in ToSet(registry'[u].queue) : m \in ToSet(registry[u].queue) \/ m.token = u
BY PopShape, PopFields

\* What an entry of the registry is after another has been removed.
LEMMA ChannelsAfterRemoval ==
  ASSUME NEW t, registry' = Without(t)
  PROVE  /\ DOMAIN registry' = DOMAIN registry \ {t}
         /\ \A u \in DOMAIN registry' :
              /\ u \in DOMAIN registry /\ registry'[u].gen = registry[u].gen
              /\ \A m \in ToSet(registry'[u].queue) : m \in ToSet(registry[u].queue) \/ m.token = u
<1>1. /\ DOMAIN registry' = DOMAIN registry \ {t}
      /\ \A u \in DOMAIN registry \ {t} : registry'[u] = registry[u]
  BY WithoutFields
<1> QED
  BY <1>1

\* The request has its response: its channel stays for the observation, is
\* about to be removed, or is left behind.
LEMMA EnteredResponse ==
  ASSUME Shape, OneConfig, Entered, Response
  PROVE  Entered'
<1> DEFINE m == Head(registry[vas.token].queue)
<1>1. /\ vas.pc = "wait" /\ registry[vas.token].queue # <<>>
      /\ \/ tap_answered(m) \/ config_refused(m) \/ config_without_observe(m)
         \/ config_observed(m) \/ config_invalid(m)
      /\ registry' = Pop(vas.token)
      /\ UNCHANGED <<world, dispatcher>>
  BY DEF Response
<1> HIDE DEF m
<1>2. UNCHANGED <<generation, dispatcher>>
  BY <1>1 DEF world
<1>3. /\ \A u \in Pending : u \in DOMAIN registry /\ registry[u].gen = vas.gen
      /\ \A u \in Observed : observation.gen = generation =>
            u \in DOMAIN registry /\ registry[u].gen = generation
      /\ \A u \in DOMAIN registry :
            RegistryAlive(registry[u].gen) => u \in Pending \cup Observed \cup leaked
  BY DEF Entered
<1>4. Pending = {vas.token}
  BY <1>1 DEF Pending
<1>5. /\ DOMAIN registry' = DOMAIN registry
      /\ \A u \in DOMAIN registry' :
           /\ u \in DOMAIN registry /\ registry'[u].gen = registry[u].gen
           /\ \A n \in ToSet(registry'[u].queue) : n \in ToSet(registry[u].queue) \/ n.token = u
  BY <1>1, <1>2, <1>3, <1>4, ChannelsAfterPop DEF Shape
<1>6. CASE tap_answered(m) \/ config_refused(m) \/ config_without_observe(m)
  <2>1. vas' \in {[vas EXCEPT !.pc = "unregister"], Failed} /\ UNCHANGED <<observation, leaked>>
    BY <1>6 DEF tap_answered, config_refused, config_without_observe
  <2>2. vas'.pc = "unregister" /\ vas'.gen = vas.gen /\ vas'.token = vas.token
    BY <2>1, VasAt, FailedFields DEF Shape
  <2>3. \A g : RegistryAlive(g)' => RegistryAlive(g)
    BY <1>1, <1>2, <2>2, AliveBefore DEF InRequest
  <2>4. Pending' = {vas.token} /\ Observed' = Observed
    BY <1>1, <2>1, <2>2 DEF Pending, Observed
  <2> QED
    BY <1>2, <1>3, <1>4, <1>5, <2>1, <2>2, <2>3, <2>4, EnteredKept
<1>7. CASE config_observed(m) \/ config_invalid(m)
  <2>1. vas' \in {At("main"), At("fetch")} /\ vas.kind = "observe"
    BY <1>7 DEF config_observed, config_invalid
  <2>2. vas'.pc \in {"main", "fetch"}
    BY <2>1, AtFields
  <2>3. observation = None
    BY <1>1, <2>1 DEF OneConfig, InRequest
  <2>4. Observed = {} /\ Pending' = {}
    BY <2>2, <2>3 DEF Observed, Pending
  <2>5. \A g : RegistryAlive(g)' => RegistryAlive(g)
    BY <1>1, <1>2, <2>2, AliveBefore DEF InRequest
  <2>6. CASE config_observed(m)
    <3>1. /\ observation' = [token |-> vas.token, gen |-> vas.gen,
                             last |-> m.sequence, is_done |-> FALSE]
          /\ UNCHANGED leaked
      BY <2>6 DEF config_observed
    <3>2. /\ DOMAIN observation' = {"token", "gen", "last", "is_done"}
          /\ observation'.token = vas.token /\ observation'.gen = vas.gen
          /\ ~observation'.is_done
      BY <3>1
    <3>3. observation' # None
      BY <3>2, RecordIsNotNone
    <3>4. Observed' = {vas.token}
      BY <3>2, <3>3 DEF Observed
    <3> QED
      BY <1>2, <1>3, <1>4, <1>5, <2>2, <2>4, <2>5, <3>1, <3>2, <3>4, EnteredKept
  <2>7. CASE config_invalid(m)
    <3>1. UNCHANGED observation /\ leaked' = leaked \cup {vas.token}
      BY <2>7 DEF config_invalid
    <3>2. Observed' = {}
      BY <2>3, <3>1 DEF Observed
    <3> QED
      BY <1>2, <1>3, <1>4, <1>5, <2>2, <2>4, <2>5, <3>1, <3>2, EnteredKept
  <2> QED
    BY <1>7, <2>6, <2>7
<1> QED
  BY <1>1, <1>6, <1>7

\* The request returns.
LEMMA EnteredUnregister ==
  ASSUME Shape, OneConfig, Entered, Unregister
  PROVE  Entered'
<1>1. /\ vas.pc = "unregister" /\ registry' = Without(vas.token)
      /\ vas' \in {At("fetch"), At("main")}
      /\ UNCHANGED <<world, dispatcher, observation, leaked>>
  BY DEF Unregister
<1>2. UNCHANGED <<generation, dispatcher>> /\ vas'.pc \in {"fetch", "main"}
  BY <1>1, AtFields DEF world
<1>3. \A g : RegistryAlive(g)' => RegistryAlive(g)
  BY <1>1, <1>2, AliveBefore DEF InRequest
<1>4. Pending = {vas.token} /\ Pending' = {} /\ Observed' = Observed
  BY <1>1, <1>2 DEF Pending, Observed
<1>5. vas.token \notin Observed
  BY <1>1 DEF OneConfig, Observed, InRequest
<1>6. /\ \A u \in Observed : observation.gen = generation =>
            u \in DOMAIN registry /\ registry[u].gen = generation
      /\ \A u \in DOMAIN registry :
            RegistryAlive(registry[u].gen) => u \in Pending \cup Observed \cup leaked
  BY DEF Entered
<1>7. /\ DOMAIN registry' = DOMAIN registry \ {vas.token}
      /\ \A u \in DOMAIN registry' :
           /\ u \in DOMAIN registry /\ registry'[u].gen = registry[u].gen
           /\ \A n \in ToSet(registry'[u].queue) : n \in ToSet(registry[u].queue) \/ n.token = u
  BY <1>1, ChannelsAfterRemoval
<1> QED
  BY <1>1, <1>2, <1>3, <1>4, <1>5, <1>6, <1>7, EnteredKept

\* A notification is taken: the channel stays for the observation, is about to
\* be removed, or is left behind.
LEMMA EnteredNotification ==
  ASSUME Shape, Entered, TakeNotification
  PROVE  Entered'
<1> DEFINE t == observation.token
           m == Head(registry[observation.token].queue)
<1>1. /\ vas.pc \in {"main", "next"} /\ observation # None /\ ~observation.is_done
      /\ t \in DOMAIN registry /\ registry[t].queue # <<>>
      /\ \/ observation_ended(m) \/ config_updated(m)
         \/ update_invalid(m) \/ update_stale(m)
      /\ registry' = Pop(t)
      /\ UNCHANGED <<world, dispatcher>>
  BY DEF TakeNotification, Registered
<1> HIDE DEF m
<1>2. UNCHANGED <<generation, dispatcher>>
  BY <1>1 DEF world
<1>3. PICK pc \in {"close_error", "close_plain", "main", "fetch", "next"} : vas' = At(pc)
  BY <1>1 DEF observation_ended, config_updated, update_invalid, update_stale
<1>4. vas'.pc = pc
  BY <1>3, AtFields
<1>5. \A g : RegistryAlive(g)' => RegistryAlive(g)
  BY <1>1, <1>2, <1>4, AliveBefore DEF InRequest
<1>6. Pending = {} /\ Pending' = {} /\ Observed = {t}
  BY <1>1, <1>4 DEF Pending, Observed
<1>7. /\ \A u \in Observed : observation.gen = generation =>
            u \in DOMAIN registry /\ registry[u].gen = generation
      /\ \A u \in DOMAIN registry :
            RegistryAlive(registry[u].gen) => u \in Pending \cup Observed \cup leaked
  BY DEF Entered
<1>8. /\ DOMAIN registry' = DOMAIN registry
      /\ \A u \in DOMAIN registry' :
           /\ u \in DOMAIN registry /\ registry'[u].gen = registry[u].gen
           /\ \A n \in ToSet(registry'[u].queue) : n \in ToSet(registry[u].queue) \/ n.token = u
  BY <1>1, <1>2, ChannelsAfterPop DEF Shape
<1>9. CASE update_invalid(m)
  <2>1. observation' = None /\ leaked' = leaked \cup {t}
    BY <1>9 DEF update_invalid
  <2>2. Observed' = {}
    BY <2>1 DEF Observed
  <2> QED
    BY <1>2, <1>4, <1>5, <1>6, <1>7, <1>8, <2>1, <2>2, EnteredKept
<1>10. CASE observation_ended(m) \/ config_updated(m) \/ update_stale(m)
  <2>1. DOMAIN observation = {"token", "gen", "last", "is_done"}
    BY <1>1 DEF Shape, ObservationShape
  <2>2. /\ observation'.token = t /\ observation'.gen = observation.gen
        /\ DOMAIN observation' = DOMAIN observation
        /\ ~observation'.is_done \/ pc \in {"close_error", "close_plain"}
        /\ UNCHANGED leaked
    <3>1. CASE observation_ended(m)
      BY <1>3, <1>4, <2>1, <3>1, AtFields DEF observation_ended
    <3>2. CASE config_updated(m)
      BY <1>1, <2>1, <3>2 DEF config_updated
    <3>3. CASE update_stale(m)
      BY <1>1, <3>3 DEF update_stale
    <3> QED
      BY <1>10, <3>1, <3>2, <3>3
  <2>3. observation' # None
    BY <2>1, <2>2, RecordIsNotNone
  <2>4. Observed' = {t}
    BY <1>4, <2>2, <2>3 DEF Observed
  <2> QED
    BY <1>2, <1>4, <1>5, <1>6, <1>7, <1>8, <2>2, <2>4, EnteredKept
<1> QED
  BY <1>1, <1>9, <1>10

\* next() closes the observation.
LEMMA EnteredClose ==
  ASSUME Shape, OneConfig, Entered, CloseObservation
  PROVE  Entered'
<1>1. /\ vas.pc \in {"close_error", "close_plain"} /\ registry' = Without(observation.token)
      /\ vas' \in {At("fetch"), At("main")} /\ observation' \in {observation, None}
      /\ UNCHANGED <<world, dispatcher, leaked>>
  BY DEF CloseObservation
<1>2. UNCHANGED <<generation, dispatcher>> /\ vas'.pc \in {"fetch", "main"}
  BY <1>1, AtFields DEF world
<1>3. \A g : RegistryAlive(g)' => RegistryAlive(g)
  BY <1>1, <1>2, AliveBefore DEF InRequest
<1>4. observation # None /\ observation.is_done
  BY <1>1 DEF OneConfig
<1>5. Pending = {} /\ Pending' = {} /\ Observed = {observation.token} /\ Observed' = {}
  BY <1>1, <1>2, <1>4 DEF Pending, Observed
<1>6. \A u \in DOMAIN registry :
        RegistryAlive(registry[u].gen) => u \in Pending \cup Observed \cup leaked
  BY DEF Entered
<1>7. /\ DOMAIN registry' = DOMAIN registry \ {observation.token}
      /\ \A u \in DOMAIN registry' :
           /\ u \in DOMAIN registry /\ registry'[u].gen = registry[u].gen
           /\ \A n \in ToSet(registry'[u].queue) : n \in ToSet(registry[u].queue) \/ n.token = u
  BY <1>1, ChannelsAfterRemoval
<1> QED
  BY <1>1, <1>2, <1>3, <1>5, <1>6, <1>7, EnteredKept

\* The observation ends without anything left to remove.
LEMMA EnteredEnd ==
  ASSUME Shape, Entered, ObservationLost \/ ObservationDone
  PROVE  Entered'
<1>1. /\ vas.pc \in {"main", "next"} /\ vas' \in {vas, At("fetch")} /\ observation' = None
      /\ observation # None
      /\ \/ ~Registered(observation.token)
         \/ vas.pc = "main" /\ observation.is_done
      /\ UNCHANGED <<world, clientVars, leaked>>
  BY DEF ObservationLost, ObservationDone
<1>2. /\ UNCHANGED <<generation, dispatcher, registry>>
      /\ vas'.pc \in {"fetch", "main", "next"}
  BY <1>1, AtFields DEF world, clientVars
<1>3. \A g : RegistryAlive(g)' => RegistryAlive(g)
  BY <1>1, <1>2, AliveBefore DEF InRequest
<1>4. Pending = {} /\ Pending' = {} /\ Observed' = {}
  BY <1>1, <1>2 DEF Pending, Observed
<1>5. \A u \in DOMAIN registry : RegistryAlive(registry[u].gen) => u \notin Observed
  BY <1>1 DEF Observed, Registered
<1>6. \A u \in DOMAIN registry :
        RegistryAlive(registry[u].gen) => u \in Pending \cup Observed \cup leaked
  BY DEF Entered
<1> QED
  BY <1>1, <1>2, <1>3, <1>4, <1>5, <1>6, EnteredKept, ChannelsAsBefore

\* The registry is kept by every step.
LEMMA EnteredStep ==
  ASSUME Shape, OneConfig, Entered, Next
  PROVE  Entered'
<1>1. CASE ConnectionLost \/ Run \/ Answer \/ Notify \/ Lose
  <2>1. UNCHANGED <<vas, observation, leaked, generation, dispatcher, registry>>
    BY <1>1 DEF ConnectionLost, Run, RunSend, RunReceive, RunDeliver, Answer, Notify, Lose,
                world, vasVars, clientVars
  <2> QED
    BY <2>1, EnteredElsewhere
<1> QED
  BY <1>1, EnteredConnect, EnteredDispatcher, EnteredNewRequest, EnteredCard, EnteredRegister,
     EnteredRequest, EnteredResponse, EnteredUnregister, EnteredNotification, EnteredClose,
     EnteredEnd
  DEF Next, Vas, Others

-----------------------------------------------------------------------------
(* Messages only move on                                                    *)

\* Nothing is read that was not in flight, apart from what the server sends.
Flow ==
  /\ InFlight' \subseteq InFlight
  /\ observers' \subseteq observers /\ server_sequence' = server_sequence

\* The places of InFlight one by one.
LEMMA FlowByPlaces ==
  ASSUME net' \subseteq InFlight, ToSet(delivering') \subseteq InFlight,
         dispatcher'.pc # "exited" =>
           ToSet(packets_recv') \subseteq InFlight /\ ToSet(dispatcher'.msg) \subseteq InFlight,
         \A u \in DOMAIN registry' : ToSet(registry'[u].queue) \subseteq InFlight
  PROVE  InFlight' \subseteq InFlight
<1>1. Queued' \subseteq InFlight
  BY DEF Queued
<1>2. Received' \subseteq InFlight
  BY DEF Received
<1>3. InFlight' = net' \cup ToSet(delivering') \cup Received' \cup Queued'
  BY DEF InFlight
<1> QED
  BY <1>1, <1>2, <1>3

\* What is in InFlight.
LEMMA InFlightPlaces ==
  /\ net \subseteq InFlight /\ ToSet(delivering) \subseteq InFlight
  /\ dispatcher.pc # "exited" =>
       ToSet(packets_recv) \subseteq InFlight /\ ToSet(dispatcher.msg) \subseteq InFlight
  /\ \A u \in DOMAIN registry : ToSet(registry[u].queue) \subseteq InFlight
BY DEF InFlight, Queued, Received

\* The registry and the dispatcher in steps of the connection.
LEMMA FlowConnection ==
  ASSUME Shape, Connect \/ ConnectionLost \/ Run \/ Lose
  PROVE  Flow
<1>S. ChannelShape /\ RegistryShape
  BY DEF Shape
<1>1. CASE Connect
  <2>1. server_sequence' = server_sequence /\ observers' = observers /\ net' = net
    BY <1>1 DEF Connect, serverVars
  <2>2. CASE dispatcher.pc # "exited"
    <3>1. UNCHANGED <<registry, dispatcher, packets_recv, delivering>>
      BY <1>1, <2>2 DEF Connect, runVars, clientVars
    <3> QED
      BY <2>1, <3>1, FlowByPlaces, InFlightPlaces DEF Flow
  <2>3. CASE dispatcher.pc = "exited"
    <3>1. /\ packets_recv' = <<>> /\ delivering' = <<>> /\ dispatcher'.msg = <<>>
          /\ DOMAIN registry' \subseteq DOMAIN registry
          /\ \A u \in DOMAIN registry' : registry'[u] = registry[u]
      BY <1>1, <2>3 DEF Connect
    <3> QED
      BY <2>1, <3>1, EmptyElements, FlowByPlaces, InFlightPlaces DEF Flow
  <2> QED
    BY <2>2, <2>3
<1>2. CASE ConnectionLost \/ RunSend \/ Lose
  <2>1. /\ net' \subseteq net /\ observers' \subseteq observers
        /\ UNCHANGED <<server_sequence, registry, dispatcher, packets_recv, delivering>>
    BY <1>2 DEF ConnectionLost, RunSend, Lose, runVars, clientVars, serverVars
  <2> QED
    BY <2>1, FlowByPlaces, InFlightPlaces DEF Flow
<1>3. CASE RunReceive
  <2>1. PICK m \in net :
          /\ delivering' = <<m>> /\ net' \subseteq net
          /\ UNCHANGED <<packets_recv, clientVars, serverVars>>
    BY <1>3 DEF RunReceive
  <2>2. ToSet(delivering') = {m}
    BY <2>1 DEF ToSet
  <2>3. UNCHANGED <<packets_recv, registry, dispatcher, observers, server_sequence>>
    BY <2>1 DEF clientVars, serverVars
  <2> QED
    BY <2>1, <2>2, <2>3, FlowByPlaces, InFlightPlaces DEF Flow
<1>4. CASE RunDeliver
  <2>1. /\ packets_recv' = packets_recv \o delivering /\ delivering' = <<>>
        /\ UNCHANGED <<world, clientVars>>
    BY <1>4 DEF RunDeliver
  <2>2. ToSet(packets_recv') = ToSet(packets_recv) \cup ToSet(delivering)
    BY <1>S, <2>1, ConcatElements DEF ChannelShape
  <2>3. UNCHANGED <<net, registry, dispatcher, observers, server_sequence>>
    BY <2>1 DEF world, clientVars, serverVars
  <2> QED
    BY <2>1, <2>2, <2>3, EmptyElements, FlowByPlaces, InFlightPlaces DEF Flow
<1> QED
  BY <1>1, <1>2, <1>3, <1>4 DEF Run

\* The dispatcher takes responses from one list to another.
LEMMA FlowDispatcher ==
  ASSUME Shape, Dispatcher
  PROVE  Flow
<1>S. ChannelShape /\ RegistryShape /\ DispatcherShape
  BY DEF Shape
<1>1. UNCHANGED <<net, delivering, observers, server_sequence, generation>>
  BY DEF Dispatcher, Dispatch, DispatchResume, ResetResume, DispatcherExit, world, serverVars, runVars
<1>2. dispatcher.pc # "exited"
  BY DEF Dispatcher, Dispatch, DispatchResume, ResetResume, DispatcherExit
<1>3. CASE Dispatch
  <2> DEFINE m == Head(packets_recv)
  <2>1. packets_recv # <<>> /\ packets_recv' = Tail(packets_recv)
    BY <1>3 DEF Dispatch
  <2>2. m \in Messages /\ m \in ToSet(packets_recv) /\ ToSet(packets_recv') \subseteq ToSet(packets_recv)
    BY <1>S, <2>1, TailElements DEF ChannelShape
  <2>3. /\ \/ dispatcher' = NextIteration
           \/ \E pc : dispatcher' = [dispatcher EXCEPT !.pc = pc, !.msg = <<m>>]
        /\ \/ UNCHANGED registry
           \/ /\ registry' = Push(m.token, m)
              /\ m.token \in DOMAIN registry => registry[m.token].queue = <<>>
    BY <1>3 DEF Dispatch
  <2> HIDE DEF m
  <2>4. m \in InFlight
    BY <1>2, <2>2, InFlightPlaces
  <2>5. ToSet(dispatcher'.msg) \subseteq {m}
    <3>1. dispatcher'.msg = <<>> \/ dispatcher'.msg = <<m>>
      BY <1>S, <2>3, NextIterationFields, SuspendedFields
    <3>2. ToSet(<<m>>) = {m}
      BY DEF ToSet
    <3> QED
      BY <3>1, <3>2, EmptyElements
  <2>6. \A u \in DOMAIN registry' : ToSet(registry'[u].queue) \subseteq InFlight
    <3>1. CASE UNCHANGED registry
      BY <3>1, InFlightPlaces
    <3>2. CASE /\ registry' = Push(m.token, m)
               /\ m.token \in DOMAIN registry => registry[m.token].queue = <<>>
      <4>1. DOMAIN registry' = DOMAIN registry
        BY <1>S, <3>2, PushFields
      <4>2. \A u \in DOMAIN registry :
              ToSet(registry'[u].queue) \subseteq
                ToSet(registry[u].queue) \cup (IF u = m.token THEN {m} ELSE {})
        BY <1>S, <1>1, <2>2, <3>2, PushShape
      <4> QED
        BY <2>4, <4>1, <4>2, InFlightPlaces
    <3> QED
      BY <2>3, <3>1, <3>2
  <2> QED
    BY <1>1, <1>2, <2>2, <2>4, <2>5, <2>6, FlowByPlaces, InFlightPlaces DEF Flow
<1>4. CASE DispatchResume
  <2> DEFINE m == dispatcher.msg[1]
  <2>1. /\ dispatcher.pc = "chan_send" /\ registry[m.token].queue = <<>>
        /\ registry' = Push(m.token, m) /\ dispatcher' = NextIteration
        /\ UNCHANGED runVars
    BY <1>4 DEF DispatchResume
  <2>2. m \in Messages /\ m \in ToSet(dispatcher.msg)
    BY <1>S, <2>1, Elements DEF DispatcherShape
  <2> HIDE DEF m
  <2>3. m \in InFlight /\ dispatcher'.msg = <<>> /\ UNCHANGED packets_recv
    BY <1>S, <1>2, <2>1, <2>2, InFlightPlaces, NextIterationFields DEF runVars
  <2>4. DOMAIN registry' = DOMAIN registry
    BY <1>S, <2>1, PushFields
  <2>5. \A u \in DOMAIN registry :
          ToSet(registry'[u].queue) \subseteq
            ToSet(registry[u].queue) \cup (IF u = m.token THEN {m} ELSE {})
    BY <1>S, <1>1, <2>1, <2>2, PushShape
  <2>6. \A u \in DOMAIN registry' : ToSet(registry'[u].queue) \subseteq InFlight
    BY <2>3, <2>4, <2>5, InFlightPlaces
  <2> QED
    BY <1>1, <1>2, <2>3, <2>6, EmptyElements, FlowByPlaces, InFlightPlaces DEF Flow
<1>5. CASE ResetResume \/ DispatcherExit
  <2>1. UNCHANGED <<packets_recv, registry>> /\ dispatcher' = NextIteration
    BY <1>5 DEF ResetResume, DispatcherExit, runVars
  <2>2. dispatcher'.msg = <<>>
    BY <1>S, <2>1, NextIterationFields
  <2> QED
    BY <1>1, <1>2, <2>1, <2>2, EmptyElements, FlowByPlaces, InFlightPlaces DEF Flow
<1> QED
  BY <1>3, <1>4, <1>5 DEF Dispatcher

\* The vas task only takes.
LEMMA FlowVas ==
  ASSUME Shape, Entered, Vas \/ Tap \/ NoResult
  PROVE  Flow
<1>S. RegistryShape
  BY DEF Shape
<1>1. UNCHANGED <<net, delivering, packets_recv, observers, server_sequence, generation, dispatcher>>
  BY DEF Vas, Tap, NoResult, Fetch, Submit, Register, SendUpgrade, SendPacket, Response,
         RequestTimeout, Unregister, TakeNotification, CloseObservation, ObservationLost,
         ObservationDone, world, serverVars, runVars, clientVars
<1>2. \A u \in DOMAIN registry' :
        \/ ToSet(registry'[u].queue) = {}
        \/ u \in DOMAIN registry /\ ToSet(registry'[u].queue) \subseteq ToSet(registry[u].queue)
  <2>1. CASE UNCHANGED registry
    BY <2>1
  <2>2. CASE Register
    BY <2>2, EmptyElements DEF Register
  <2>3. CASE Response
    <3>1. /\ vas.pc = "wait" /\ registry[vas.token].queue # <<>> /\ registry' = Pop(vas.token)
      BY <2>3 DEF Response
    <3>2. vas.token \in DOMAIN registry
      BY <3>1 DEF Entered, Pending
    <3> QED
      BY <1>S, <1>1, <3>1, <3>2, PopShape, PopFields
  <2>4. CASE TakeNotification
    <3> DEFINE t == observation.token
    <3>1. t \in DOMAIN registry /\ registry[t].queue # <<>> /\ registry' = Pop(t)
      BY <2>4 DEF TakeNotification, Registered
    <3> HIDE DEF t
    <3> QED
      BY <1>S, <1>1, <3>1, PopShape, PopFields
  <2>5. CASE Unregister \/ CloseObservation
    <3>1. PICK t \in {vas.token, observation.token} : registry' = Without(t)
      BY <2>5 DEF Unregister, CloseObservation
    <3> QED
      BY <3>1, WithoutFields
  <2>6. \/ UNCHANGED registry \/ Register \/ Response \/ TakeNotification
        \/ Unregister \/ CloseObservation
    BY DEF Vas, Tap, NoResult, Fetch, Submit, SendUpgrade, SendPacket, RequestTimeout,
           ObservationLost, ObservationDone, clientVars
  <2> QED
    BY <2>1, <2>2, <2>3, <2>4, <2>5, <2>6
<1> QED
  BY <1>1, <1>2, FlowByPlaces, InFlightPlaces DEF Flow

\* Where an observation comes from: it is the one there was, with the same last
\* notification, or it begins or goes on with a message that was in flight.
ObservationSource ==
  observation' # None =>
    \/ /\ observation # None /\ observation'.token = observation.token
       /\ observation'.last = observation.last
    \/ \E m \in InFlight : observation'.token = m.token /\ observation'.last = m.sequence

\* Every step but those of the server is one of these.
LEMMA ObservationFrom ==
  ASSUME Shape, OneConfig, Entered, LastWord, Next
  PROVE  /\ ObservationSource
         /\ observation' # None /\ ~observation'.is_done => config' <= observation'.last
<1>S. RegistryShape /\ ObservationShape /\ VasShape
  BY DEF Shape
<1>N. server_sequence \in Nat /\ MaxSequence \in Nat
  BY ClientAssumption DEF Shape, ServerShape
<1>1. CASE observation' \in {observation, None} /\ UNCHANGED config
  BY <1>1 DEF ObservationSource, LastWord
<1>2. CASE Response
  <2> DEFINE m == Head(registry[vas.token].queue)
  <2>1. /\ vas.pc = "wait" /\ registry[vas.token].queue # <<>>
        /\ \/ tap_answered(m) \/ config_refused(m) \/ config_without_observe(m)
           \/ config_observed(m) \/ config_invalid(m)
        /\ registry' = Pop(vas.token) /\ UNCHANGED world
    BY <1>2 DEF Response
  <2>2. vas.token \in DOMAIN registry /\ UNCHANGED generation
    BY <2>1 DEF Entered, Pending, world
  <2>3. m \in Messages /\ m \in ToSet(registry[vas.token].queue)
    BY <1>S, <2>1, <2>2, PopShape
  <2>4. m \in InFlight /\ m.token = vas.token
    BY <2>2, <2>3, InFlightPlaces DEF Entered
  <2> HIDE DEF m
  <2>5. CASE tap_answered(m) \/ config_refused(m) \/ config_invalid(m)
    BY <1>1, <2>5 DEF tap_answered, config_refused, config_invalid
  <2>6. CASE config_without_observe(m)
    <3>1. observation = None /\ observation' = None
      BY <2>1, <2>6 DEF config_without_observe, OneConfig, InRequest
    <3> QED
      BY <3>1 DEF ObservationSource
  <2>7. CASE config_observed(m)
    <3>1. observation'.token = vas.token /\ observation'.last = m.sequence /\ config' = m.sequence
      BY <2>7 DEF config_observed
    <3>2. m.sequence \in Nat
      BY <1>N, <2>3 DEF Messages
    <3> QED
      BY <2>4, <3>1, <3>2 DEF ObservationSource
  <2> QED
    BY <2>1, <2>5, <2>6, <2>7
<1>3. CASE TakeNotification
  <2> DEFINE t == observation.token
             m == Head(registry[observation.token].queue)
  <2>1. /\ observation # None /\ ~observation.is_done
        /\ t \in DOMAIN registry /\ registry[t].queue # <<>>
        /\ \/ observation_ended(m) \/ config_updated(m)
           \/ update_invalid(m) \/ update_stale(m)
        /\ registry' = Pop(t) /\ UNCHANGED world
    BY <1>3 DEF TakeNotification, Registered
  <2>2. UNCHANGED generation
    BY <2>1 DEF world
  <2>3. m \in Messages /\ m \in ToSet(registry[t].queue)
    BY <1>S, <2>1, <2>2, PopShape
  <2>4. m \in InFlight /\ m.token = t
    BY <2>1, <2>3, InFlightPlaces DEF Entered
  <2>5. DOMAIN observation = {"token", "gen", "last", "is_done"}
    BY <1>S, <2>1 DEF ObservationShape
  <2> HIDE DEF m
  <2>6. CASE observation_ended(m)
    BY <2>1, <2>5, <2>6 DEF observation_ended, ObservationSource
  <2>7. CASE config_updated(m)
    <3>1. /\ observation'.token = t /\ observation'.last = m.sequence /\ config' = m.sequence
      BY <2>5, <2>7 DEF config_updated
    <3>2. m.sequence \in Nat
      BY <1>N, <2>3 DEF Messages
    <3> QED
      BY <2>4, <3>1, <3>2 DEF ObservationSource
  <2>8. CASE update_invalid(m) \/ update_stale(m)
    BY <1>1, <2>8 DEF update_invalid, update_stale
  <2> QED
    BY <2>1, <2>6, <2>7, <2>8
<1>4. \/ observation' \in {observation, None} /\ UNCHANGED config
      \/ Response \/ TakeNotification
  BY ElsewhereKeeps
  DEF Next, Vas, Others, Run, Dispatcher, Elsewhere, Fetch, Submit, Register, SendUpgrade,
      SendPacket, RequestTimeout, Unregister, CloseObservation, ObservationLost,
      ObservationDone, Tap, NoResult
<1> QED
  BY <1>1, <1>2, <1>3, <1>4

-----------------------------------------------------------------------------
(* Every request is in one place                                            *)

\* Of a request nothing comes unless the server answers it.
LEMMA StaysOpen ==
  ASSUME Flow, ObservationSource, NEW t, Open(t)
  PROVE  Open(t)'
<1>1. t \notin observers'
  BY DEF Flow, Open
<1>2. \A m \in InFlight' : m.token # t
  BY DEF Flow, Open
<1>3. observation' # None => observation'.token # t
  BY DEF ObservationSource, Open
<1> QED
  BY <1>1, <1>2, <1>3 DEF Open

\* No step but one of the server answers a request.
LEMMA OpenStep ==
  ASSUME Shape, OneConfig, Entered, LastWord, Next, ~Answer, ~Notify
  PROVE  Flow /\ \A t : Open(t) => Open(t)'
<1>1. Flow
  BY FlowConnection, FlowDispatcher, FlowVas DEF Next, Others
<1> QED
  BY <1>1, ObservationFrom, StaysOpen

\* A step that sends, fetches and answers nothing.
LEMMA RequestsKept ==
  ASSUME OneRequest, \A t : Open(t) => Open(t)', owed' \subseteq owed,
         \A i \in InChannel' : i \in InChannel /\ packets_send'[i] = packets_send[i],
         vas'.pc \in Asking => vas.pc \in Asking /\ vas'.token = vas.token
  PROVE  OneRequest'
<1>1. \A i, j \in InChannel' : packets_send'[i].token = packets_send'[j].token => i = j
  BY DEF OneRequest
<1>2. \A i \in InChannel' : /\ Open(packets_send[i].token)'
                            /\ \A r \in owed' : r.token # packets_send'[i].token
  BY DEF OneRequest
<1>3. \A r \in owed' : Open(r.token)'
  BY DEF OneRequest
<1>4. \A r, q \in owed' : r.token = q.token => r = q
  BY DEF OneRequest
<1>5. vas'.pc \in Asking =>
        /\ Open(vas.token)'
        /\ \A i \in InChannel' : packets_send'[i].token # vas'.token
        /\ \A r \in owed' : r.token # vas'.token
  BY DEF OneRequest
<1> QED
  BY <1>1, <1>2, <1>3, <1>4, <1>5 DEF OneRequest

\* The channel to run() of most steps.
LEMMA ChannelKept ==
  ASSUME link' # "up" \/ (UNCHANGED link /\ UNCHANGED packets_send)
  PROVE  \A i \in InChannel' : i \in InChannel /\ packets_send'[i] = packets_send[i]
BY DEF InChannel

\* A reset in the channel to run() is no request.
LEMMA ChannelWithReset ==
  ASSUME ChannelShape, NEW t \in Tokens, UNCHANGED link,
         packets_send' = Append(packets_send, [token |-> t, kind |-> "reset"])
  PROVE  \A i \in InChannel' : i \in InChannel /\ packets_send'[i] = packets_send[i]
<1> DEFINE p == [token |-> t, kind |-> "reset"]
<1>1. p \in Packets /\ p.kind = "reset" /\ packets_send' = Append(packets_send, p)
  BY DEF Packets
<1> HIDE DEF p
<1>2. /\ packets_send' \in Seq(Packets) /\ Len(packets_send') = Len(packets_send) + 1
      /\ \A i \in 1 .. Len(packets_send) : packets_send'[i] = packets_send[i]
      /\ packets_send'[Len(packets_send) + 1] = p
  BY <1>1, AppendElements DEF ChannelShape
<1>3. /\ DOMAIN packets_send = 1 .. Len(packets_send) /\ Len(packets_send) \in Nat
      /\ DOMAIN packets_send' = 1 .. Len(packets_send) + 1
  BY <1>2, LenProperties DEF ChannelShape
<1>4. \A i \in 1 .. Len(packets_send) + 1 :
        i \in 1 .. Len(packets_send) \/ i = Len(packets_send) + 1
  BY <1>3
<1> QED
  BY <1>1, <1>2, <1>3, <1>4 DEF InChannel

\* The tokens of a list.
LEMMA TokensOfElements ==
  ASSUME NEW s, NEW m \in ToSet(s)
  PROVE  m.token \in TokensOf(s)
BY DEF ToSet, TokensOf

\* A token that is not in use: nothing has come of it, and nobody has it.
LEMMA FreshToken ==
  ASSUME Shape, Entered, NEW t \in Tokens, ~TokenInUse(t)
  PROVE  /\ Open(t)
         /\ \A i \in InChannel : packets_send[i].token # t
         /\ \A r \in owed : r.token # t
<1>1. /\ t \notin DOMAIN registry /\ t \notin observers
      /\ t \notin {m.token : m \in net \cup owed}
      /\ t \notin TokensOf(delivering \o dispatcher.msg)
      /\ link = "up" => t \notin TokensOf(packets_send)
      /\ dispatcher.pc # "exited" => t \notin TokensOf(packets_recv)
      /\ observation # None => observation.token # t
  BY DEF TokenInUse
<1>2. ToSet(delivering \o dispatcher.msg) = ToSet(delivering) \cup ToSet(dispatcher.msg)
  BY ConcatElements DEF Shape, ChannelShape, DispatcherShape
<1>3. \A m \in ToSet(delivering) \cup ToSet(dispatcher.msg) : m.token # t
  BY <1>1, <1>2, TokensOfElements
<1>4. \A m \in Received : m.token # t
  BY <1>1, <1>3, TokensOfElements DEF Received
<1>5. \A m \in Queued : m.token # t
  BY <1>1 DEF Queued, Entered
<1>6. \A m \in net : m.token # t
  BY <1>1
<1>7. \A m \in InFlight : m.token # t
  BY <1>3, <1>4, <1>5, <1>6 DEF InFlight
<1>8. \A i \in InChannel : packets_send[i].token # t
  BY <1>1 DEF InChannel, TokensOf
<1> QED
  BY <1>1, <1>7, <1>8 DEF Open

\* A request is given its token.
LEMMA OneRequestNew ==
  ASSUME Shape, Entered, OneRequest, \A u : Open(u) => Open(u)',
         NEW t \in Tokens, Fetch(t) \/ Submit(t)
  PROVE  OneRequest'
<1>1. PICK k \in {"observe", "tap"} : Request(t, k)
  BY DEF Fetch, Submit
<1>2. vas'.token = t /\ ~TokenInUse(t)
  BY <1>1 DEF Request
<1>3. UNCHANGED <<link, packets_send, owed>>
  BY DEF Fetch, Submit, world, runVars, serverVars
<1>4. InChannel' = InChannel
  BY <1>3 DEF InChannel
<1>5. /\ Open(t) /\ \A i \in InChannel : packets_send[i].token # t
      /\ \A r \in owed : r.token # t
  BY <1>2, FreshToken
<1>6. Open(vas.token)'
  BY <1>2, <1>5
<1>7. \A i \in InChannel' : Open(packets_send[i].token)'
  BY <1>3, <1>4 DEF OneRequest
<1>8. \A r \in owed' : Open(r.token)'
  BY <1>3 DEF OneRequest
<1> QED
  BY <1>2, <1>3, <1>4, <1>5, <1>6, <1>7, <1>8 DEF OneRequest

\* The vas task puts its request into the channel.
LEMMA OneRequestSent ==
  ASSUME Shape, OneRequest, \A u : Open(u) => Open(u)', SendPacket
  PROVE  OneRequest'
<1> DEFINE p == [token |-> vas.token, kind |-> vas.kind]
           n == Len(packets_send)
<1>1. CASE UNCHANGED packets_send
  <2>1. /\ vas.pc = "sending" /\ vas' \in {[vas EXCEPT !.pc = "wait"], [vas EXCEPT !.pc = "send"]}
        /\ UNCHANGED <<link, owed>>
    BY DEF SendPacket, world, serverVars
  <2>2. vas'.token = vas.token
    BY <2>1, VasAt DEF Shape
  <2> QED
    BY <1>1, <2>1, <2>2, RequestsKept, ChannelKept DEF Asking
<1>2. CASE ~UNCHANGED packets_send
  <2>1. /\ vas.pc = "sending" /\ vas' = [vas EXCEPT !.pc = "wait"]
        /\ packets_send' = Append(packets_send, p)
        /\ UNCHANGED <<link, owed>>
    BY <1>2 DEF SendPacket, world, serverVars
  <2>2. vas'.pc = "wait"
    BY <2>1, VasAt DEF Shape
  <2>3. p \in Packets /\ p.token = vas.token
    BY <2>1 DEF Shape, VasShape, InRequest, Packets
  <2> HIDE DEF p
  <2>4. /\ packets_send' \in Seq(Packets) /\ Len(packets_send') = n + 1
        /\ \A i \in 1 .. n : packets_send'[i] = packets_send[i]
        /\ packets_send'[n + 1] = p
    BY <2>1, <2>3, AppendElements DEF Shape, ChannelShape
  <2>5. /\ DOMAIN packets_send = 1 .. n /\ n \in Nat
        /\ DOMAIN packets_send' = 1 .. n + 1
    BY <2>4, LenProperties DEF Shape, ChannelShape
  <2>6. \A i \in InChannel' :
          \/ i \in InChannel /\ packets_send'[i] = packets_send[i]
          \/ i = n + 1 /\ packets_send'[i] = p
    <3>1. \A i \in 1 .. n + 1 : i \in 1 .. n \/ i = n + 1
      BY <2>5
    <3> HIDE DEF n
    <3> QED
      BY <2>1, <2>4, <2>5, <3>1 DEF InChannel
  <2> HIDE DEF n
  <2>7. /\ Open(vas.token)
        /\ \A i \in InChannel : packets_send[i].token # vas.token
        /\ \A r \in owed : r.token # vas.token
    BY <2>1 DEF OneRequest, Asking
  <2>8. \A i, j \in InChannel' : packets_send'[i].token = packets_send'[j].token => i = j
    BY <2>3, <2>6, <2>7 DEF OneRequest
  <2>9. \A i \in InChannel' : /\ Open(packets_send[i].token)'
                              /\ \A r \in owed' : r.token # packets_send'[i].token
    BY <2>1, <2>3, <2>6, <2>7 DEF OneRequest
  <2>10. \A r \in owed' : Open(r.token)'
    BY <2>1 DEF OneRequest
  <2> QED
    BY <2>1, <2>2, <2>8, <2>9, <2>10 DEF OneRequest, Asking
<1> QED
  BY <1>1, <1>2

\* run() takes a request out of the channel, and the server may see it.
LEMMA OneRequestTaken ==
  ASSUME Shape, OneRequest, \A u : Open(u) => Open(u)', RunSend
  PROVE  OneRequest'
<1> DEFINE p == Head(packets_send)
           n == Len(packets_send)
<1>1. /\ link = "up" /\ packets_send # <<>> /\ packets_send' = Tail(packets_send)
      /\ UNCHANGED <<link, vas>>
      /\ UNCHANGED owed \/ (p.kind # "reset" /\ owed' \subseteq owed \cup {p})
  BY DEF RunSend, vasVars
<1>2. /\ packets_send' \in Seq(Packets) /\ n \in Nat /\ n >= 1 /\ Len(packets_send') = n - 1
      /\ \A i \in 1 .. n - 1 : packets_send'[i] = packets_send[i + 1]
      /\ p = packets_send[1]
  BY <1>1, TailElements DEF Shape, ChannelShape
<1>3. DOMAIN packets_send = 1 .. n /\ DOMAIN packets_send' = 1 .. n - 1
  BY <1>2, LenProperties DEF Shape, ChannelShape
<1> HIDE DEF p, n
<1>4. \A i \in InChannel' :
        /\ i \in Nat /\ i >= 1 /\ i + 1 \in InChannel
        /\ packets_send'[i] = packets_send[i + 1]
  <2>1. \A i \in 1 .. n - 1 : i + 1 \in 1 .. n /\ i \in Nat /\ i >= 1
    BY <1>2
  <2> QED
    BY <1>1, <1>2, <1>3, <2>1 DEF InChannel
<1>5. p.kind # "reset" => 1 \in InChannel
  <2>1. 1 \in 1 .. n
    BY <1>2
  <2> QED
    BY <1>1, <1>2, <1>3, <2>1 DEF InChannel
<1>6. \A i, j \in InChannel' : packets_send'[i].token = packets_send'[j].token => i = j
  <2> SUFFICES ASSUME NEW i \in InChannel', NEW j \in InChannel',
                      packets_send'[i].token = packets_send'[j].token
               PROVE  i = j
    OBVIOUS
  <2>1. i + 1 = j + 1
    BY <1>4 DEF OneRequest
  <2> QED
    BY <1>4, <2>1
<1>7. \A i \in InChannel' : p.kind # "reset" => packets_send'[i].token # p.token
  <2> SUFFICES ASSUME NEW i \in InChannel', p.kind # "reset", packets_send'[i].token = p.token
               PROVE  FALSE
    OBVIOUS
  <2>1. i + 1 = 1
    BY <1>2, <1>4, <1>5 DEF OneRequest
  <2> QED
    BY <1>4, <2>1
<1>8. \A i \in InChannel' : /\ Open(packets_send[i].token)'
                            /\ \A r \in owed' : r.token # packets_send'[i].token
  <2> SUFFICES ASSUME NEW i \in InChannel'
               PROVE  /\ Open(packets_send[i].token)'
                      /\ \A r \in owed' : r.token # packets_send'[i].token
    OBVIOUS
  <2>1. /\ i + 1 \in InChannel /\ packets_send'[i] = packets_send[i + 1]
    BY <1>4
  <2>2. /\ Open(packets_send[i + 1].token)
        /\ \A r \in owed : r.token # packets_send[i + 1].token
    BY <2>1 DEF OneRequest
  <2>3. Open(packets_send[i].token)'
    BY <2>1, <2>2
  <2>4. \A r \in owed' : r.token # packets_send'[i].token
    BY <1>1, <1>7, <2>1, <2>2
  <2> QED
    BY <2>3, <2>4
<1>9. p.kind # "reset" => Open(p.token) /\ \A r \in owed : r.token # p.token
  BY <1>2, <1>5 DEF OneRequest
<1>10. \A r \in owed' : Open(r.token)'
  BY <1>1, <1>9 DEF OneRequest
<1>11. \A r, q \in owed' : r.token = q.token => r = q
  BY <1>1, <1>9 DEF OneRequest
<1>12. vas'.pc \in Asking =>
        /\ Open(vas.token)'
        /\ \A i \in InChannel' : packets_send'[i].token # vas'.token
        /\ \A r \in owed' : r.token # vas'.token
  <2>1. vas.pc \in Asking /\ p.kind # "reset" => p.token # vas.token
    BY <1>2, <1>5 DEF OneRequest
  <2> QED
    BY <1>1, <1>4, <2>1 DEF OneRequest
<1> QED
  BY <1>6, <1>8, <1>10, <1>11, <1>12 DEF OneRequest

\* What the server sends is in flight, and nothing else comes with it.
LEMMA FlowServer ==
  ASSUME NEW n, net' = net \cup {n}, UNCHANGED <<delivering, packets_recv, dispatcher, registry>>
  PROVE  InFlight' = InFlight \cup {n}
<1>1. Received' = Received /\ Queued' = Queued
  BY DEF Received, Queued
<1> QED
  BY <1>1 DEF InFlight

\* A request is answered, once.
LEMMA OneRequestAnswered ==
  ASSUME Shape, OneRequest, Answer
  PROVE  OneRequest'
<1>1. PICK r \in owed, k \in ResponseKinds :
        /\ net' = net \cup {[token |-> r.token, kind |-> k, sequence |->
                             IF r.kind = "tap" THEN 0 ELSE server_sequence]}
        /\ owed' = owed \ {r}
        /\ observers' = IF k \in {"notify", "garbage"}
                        THEN observers \cup {r.token} ELSE observers
        /\ UNCHANGED <<link, runVars, clientVars, vasVars>>
  BY DEF Answer
<1>2. UNCHANGED <<link, packets_send, packets_recv, delivering, dispatcher, registry, vas, observation>>
  BY <1>1 DEF runVars, clientVars, vasVars
<1> DEFINE n == [token |-> r.token, kind |-> k, sequence |->
                   IF r.kind = "tap" THEN 0 ELSE server_sequence]
<1>3. n.token = r.token /\ net' = net \cup {n} /\ observers' \subseteq observers \cup {r.token}
  BY <1>1
<1> HIDE DEF n
<1>4. InFlight' = InFlight \cup {n}
  BY <1>2, <1>3, FlowServer
<1>5. \A t : t # r.token /\ Open(t) => Open(t)'
  BY <1>2, <1>3, <1>4 DEF Open
<1>6. InChannel' = InChannel
  BY <1>2 DEF InChannel
<1>7. \A i \in InChannel' : /\ Open(packets_send[i].token)'
                            /\ \A q \in owed' : q.token # packets_send'[i].token
  BY <1>1, <1>2, <1>5, <1>6 DEF OneRequest
<1>8. \A q \in owed' : Open(q.token)'
  BY <1>1, <1>5 DEF OneRequest
<1>9. vas'.pc \in Asking =>
        /\ Open(vas.token)'
        /\ \A i \in InChannel' : packets_send'[i].token # vas'.token
        /\ \A q \in owed' : q.token # vas'.token
  BY <1>1, <1>2, <1>5, <1>6 DEF OneRequest
<1>10. \A i, j \in InChannel' : packets_send'[i].token = packets_send'[j].token => i = j
  BY <1>2, <1>6 DEF OneRequest
<1>11. \A s, q \in owed' : s.token = q.token => s = q
  BY <1>1 DEF OneRequest
<1> QED
  BY <1>7, <1>8, <1>9, <1>10, <1>11 DEF OneRequest

\* Observers are told more, and no request is answered.
LEMMA OneRequestNotified ==
  ASSUME Shape, OneRequest, Notify
  PROVE  OneRequest'
<1>1. PICK t \in observers, k \in ResponseKinds :
        /\ net' = net \cup {[token |-> t, kind |-> k, sequence |-> server_sequence']}
        /\ observers' \subseteq observers
        /\ UNCHANGED <<link, runVars, clientVars, vasVars, owed>>
  BY DEF Notify
<1>2. UNCHANGED <<link, packets_send, packets_recv, delivering, dispatcher, registry, vas, observation>>
  BY <1>1 DEF runVars, clientVars, vasVars
<1> DEFINE n == [token |-> t, kind |-> k, sequence |-> server_sequence']
<1>3. n.token = t /\ net' = net \cup {n}
  BY <1>1
<1> HIDE DEF n
<1>4. InFlight' = InFlight \cup {n}
  BY <1>2, <1>3, FlowServer
<1>5. \A u : Open(u) => Open(u)'
  BY <1>1, <1>2, <1>3, <1>4 DEF Open
<1> QED
  BY <1>1, <1>2, <1>5, RequestsKept, ChannelKept

\* Every request is in one place, after every step.
LEMMA OneRequestStep ==
  ASSUME Shape, OneConfig, Entered, OneRequest, LastWord, Next
  PROVE  OneRequest'
<1>1. CASE Answer
  BY <1>1, OneRequestAnswered
<1>2. CASE Notify
  BY <1>2, OneRequestNotified
<1>3. CASE ~Answer /\ ~Notify
  <2>1. \A t : Open(t) => Open(t)'
    BY <1>3, OpenStep
  <2>2. CASE \E t \in Tokens : Fetch(t) \/ Submit(t)
    BY <2>1, <2>2, OneRequestNew
  <2>3. CASE SendPacket
    BY <2>1, <2>3, OneRequestSent
  <2>4. CASE RunSend
    BY <2>1, <2>4, OneRequestTaken
  <2>5. CASE Connect \/ ConnectionLost \/ RunReceive \/ RunDeliver \/ Dispatcher \/ Lose
    <3>1. owed' \subseteq owed /\ UNCHANGED vas
      BY <2>5 DEF Connect, ConnectionLost, RunReceive, RunDeliver, Dispatcher, Dispatch,
                  DispatchResume, ResetResume, DispatcherExit, Lose, serverVars, vasVars, world
    <3>2. \A i \in InChannel' : i \in InChannel /\ packets_send'[i] = packets_send[i]
      <4>1. CASE Connect
        <5>1. link' # "up" \/ packets_send' = <<>>
          BY <4>1 DEF Connect
        <5> QED
          BY <5>1 DEF InChannel
      <4>2. CASE ConnectionLost \/ RunReceive \/ RunDeliver \/ Lose
        <5>1. link' # "up" \/ (UNCHANGED link /\ UNCHANGED packets_send)
          BY <4>2 DEF ConnectionLost, RunReceive, RunDeliver, Lose, runVars, world
        <5> QED
          BY <5>1, ChannelKept
      <4>3. CASE Dispatcher
        <5>1. UNCHANGED link
          BY <4>3 DEF Dispatcher, Dispatch, DispatchResume, ResetResume, DispatcherExit, world
        <5>2. CASE UNCHANGED packets_send
          BY <5>1, <5>2, ChannelKept
        <5>3. CASE \E t \in Tokens :
                     packets_send' = Append(packets_send, [token |-> t, kind |-> "reset"])
          BY <5>1, <5>3, ChannelWithReset DEF Shape
        <5>4. \/ UNCHANGED packets_send
              \/ \E t \in Tokens :
                   packets_send' = Append(packets_send, [token |-> t, kind |-> "reset"])
          <6>1. CASE Dispatch
            <7>1. packets_recv # <<>>
              BY <6>1 DEF Dispatch
            <7>2. Head(packets_recv) \in Messages
              BY <7>1, TailElements DEF Shape, ChannelShape
            <7>3. Head(packets_recv).token \in Tokens
              BY <7>2 DEF Messages
            <7> QED
              BY <6>1, <7>3 DEF Dispatch
          <6>2. CASE ResetResume
            <7>1. dispatcher.msg[1] \in Messages
              BY <6>2, Elements DEF ResetResume, Shape, DispatcherShape
            <7>2. dispatcher.msg[1].token \in Tokens
              BY <7>1 DEF Messages
            <7> QED
              BY <6>2, <7>2 DEF ResetResume
          <6>3. CASE DispatchResume \/ DispatcherExit
            BY <6>3 DEF DispatchResume, DispatcherExit, runVars
          <6> QED
            BY <4>3, <6>1, <6>2, <6>3 DEF Dispatcher
        <5> QED
          BY <5>2, <5>3, <5>4
      <4> QED
        BY <2>5, <4>1, <4>2, <4>3
    <3> QED
      BY <2>1, <3>1, <3>2, RequestsKept
  <2>6. CASE \/ Register \/ SendUpgrade \/ Response \/ RequestTimeout \/ Unregister
             \/ TakeNotification \/ CloseObservation \/ ObservationLost \/ ObservationDone
             \/ Tap \/ NoResult
    <3>1. UNCHANGED <<link, packets_send, owed>>
      BY <2>6 DEF Register, SendUpgrade, Response, RequestTimeout, Unregister,
             TakeNotification, CloseObservation, ObservationLost, ObservationDone, Tap, NoResult,
             world, serverVars, runVars
    <3>2. vas'.pc \in Asking => vas.pc \in Asking /\ vas'.token = vas.token
      <4>1. CASE \/ vas' \in {vas, Failed}
                 \/ \E pc : vas' = At(pc) /\ pc \notin Asking
                 \/ vas' = [vas EXCEPT !.pc = "unregister"]
        BY <4>1, AtFields, FailedFields, VasAt DEF Asking, Shape
      <4>2. CASE Register \/ SendUpgrade
        <5>1. /\ vas.pc \in Asking
              /\ vas' = Failed \/ \E pc : vas' = [vas EXCEPT !.pc = pc]
          BY <4>2 DEF Register, SendUpgrade, Asking
        <5> QED
          BY <5>1, FailedFields, VasAt DEF Shape
      <4>3. CASE Response
        BY <4>1, <4>3 DEF Response, tap_answered, config_refused, config_without_observe,
                          config_observed, config_invalid, Asking
      <4>4. CASE TakeNotification
        BY <4>1, <4>4 DEF TakeNotification, observation_ended, config_updated,
                          update_invalid, update_stale, Asking
      <4>5. CASE \/ RequestTimeout \/ Unregister \/ CloseObservation \/ ObservationLost
                 \/ ObservationDone \/ Tap \/ NoResult
        BY <4>1, <4>5 DEF RequestTimeout, Unregister, CloseObservation, ObservationLost,
                          ObservationDone, Tap, NoResult, Asking
      <4> QED
        BY <2>6, <4>2, <4>3, <4>4, <4>5
    <3> QED
      BY <2>1, <3>1, <3>2, RequestsKept, ChannelKept
  <2> QED
    BY <1>3, <2>2, <2>3, <2>4, <2>5, <2>6 DEF Next, Vas, Others, Run
<1> QED
  BY <1>1, <1>2, <1>3

-----------------------------------------------------------------------------
(* The last word on a token                                                 *)

\* The numbers of the messages in flight are numbers.
LEMMA InFlightMessages ==
  ASSUME Shape
  PROVE  InFlight \subseteq Messages
<1>1. /\ ToSet(delivering) \subseteq Messages /\ ToSet(packets_recv) \subseteq Messages
      /\ ToSet(dispatcher.msg) \subseteq Messages
  BY Elements DEF Shape, ChannelShape, DispatcherShape
<1>2. \A t \in DOMAIN registry : ToSet(registry[t].queue) \subseteq Messages
  <2> SUFFICES ASSUME NEW t \in DOMAIN registry PROVE ToSet(registry[t].queue) \subseteq Messages
    OBVIOUS
  <2>1. registry[t].queue \in Seq(Messages)
    BY DEF Shape, RegistryShape
  <2> QED
    BY <2>1, Elements
<1>3. Received \subseteq Messages
  BY <1>1 DEF Received
<1>4. Queued \subseteq Messages
  BY <1>2 DEF Queued
<1> QED
  BY <1>1, <1>3, <1>4 DEF InFlight, Shape, ServerShape

\* A step that brings no message.
LEMMA LastWordKept ==
  ASSUME Shape, LastWord, Flow, ObservationSource,
         observation' # None /\ ~observation'.is_done => config' <= observation'.last
  PROVE  LastWord'
<1>1. \A m \in InFlight' : m \in InFlight
  BY DEF Flow
<1>2. observers' \subseteq observers /\ server_sequence' = server_sequence
  BY DEF Flow
<1>3. \A m \in InFlight' : m.sequence <= server_sequence'
  BY <1>1, <1>2 DEF LastWord
<1>4. ASSUME NEW m \in InFlight', ~Observes(m)
      PROVE  /\ m.token \notin observers'
             /\ \A n \in InFlight' : n.token = m.token => n.sequence <= m.sequence
             /\ observation' # None /\ observation'.token = m.token =>
                  observation'.last <= m.sequence
  <2>1. /\ m \in InFlight /\ m.token \notin observers
        /\ \A n \in InFlight : n.token = m.token => n.sequence <= m.sequence
        /\ observation # None /\ observation.token = m.token => observation.last <= m.sequence
    BY <1>1, <1>4 DEF LastWord
  <2>2. observation' # None /\ observation'.token = m.token => observation'.last <= m.sequence
    BY <2>1 DEF ObservationSource
  <2> QED
    BY <1>1, <1>2, <2>1, <2>2
<1>5. \A m \in InFlight' : ~Observes(m) =>
       /\ m.token \notin observers'
       /\ \A n \in InFlight' : n.token = m.token => n.sequence <= m.sequence
       /\ observation' # None /\ observation'.token = m.token =>
            observation'.last <= m.sequence
  BY <1>4
<1> QED
  BY <1>3, <1>5 DEF LastWord, Observes

\* What a step of the server must show of the message it sends.
LEMMA LastWordWith ==
  ASSUME Shape, LastWord, UNCHANGED <<observation, config>>,
         NEW n, InFlight' = InFlight \cup {n},
         server_sequence' \in Nat, server_sequence <= server_sequence',
         n.sequence \in Nat, n.sequence <= server_sequence',
         \A m \in InFlight : ~Observes(m) => m.token # n.token,
         \A t \in observers' : t \in observers \/ t = n.token,
         ~Observes(n) =>
           /\ n.token \notin observers'
           /\ \A m \in InFlight : m.token = n.token => m.sequence <= n.sequence
           /\ observation # None /\ observation.token = n.token => observation.last <= n.sequence
  PROVE  LastWord'
<1>0. server_sequence \in Nat /\ \A m \in InFlight : m.sequence \in Nat
  BY InFlightMessages, ClientAssumption DEF Shape, ServerShape, Messages
<1>1. \A m \in InFlight' : m.sequence <= server_sequence'
  BY <1>0 DEF LastWord
<1>2. \A m \in InFlight' : ~Observes(m) => m.token \notin observers'
  BY DEF LastWord
<1>3. \A m \in InFlight' : ~Observes(m) =>
        \A k \in InFlight' : k.token = m.token => k.sequence <= m.sequence
  <2>1. ASSUME NEW m \in InFlight, ~Observes(m), NEW k \in InFlight', k.token = m.token
        PROVE  k.sequence <= m.sequence
    BY <2>1 DEF LastWord
  <2>2. ASSUME ~Observes(n), NEW k \in InFlight', k.token = n.token
        PROVE  k.sequence <= n.sequence
    BY <2>2
  <2> QED
    BY <2>1, <2>2
<1>4. \A m \in InFlight' : ~Observes(m) =>
        (observation' # None /\ observation'.token = m.token =>
           observation'.last <= m.sequence)
  BY DEF LastWord
<1>5. observation' # None /\ ~observation'.is_done => config' <= observation'.last
  BY DEF LastWord
<1> QED
  BY <1>1, <1>2, <1>3, <1>4, <1>5 DEF LastWord, Observes

\* An answer is the first word on its token.
LEMMA LastWordAnswer ==
  ASSUME Shape, OneRequest, LastWord, Answer
  PROVE  LastWord'
<1>1. PICK r \in owed, k \in ResponseKinds :
        /\ net' = net \cup {[token |-> r.token, kind |-> k, sequence |->
                             IF r.kind = "tap" THEN 0 ELSE server_sequence]}
        /\ observers' = IF k \in {"notify", "garbage"}
                        THEN observers \cup {r.token} ELSE observers
        /\ UNCHANGED <<runVars, clientVars, vasVars, server_sequence>>
  BY DEF Answer
<1>2. UNCHANGED <<packets_recv, delivering, dispatcher, registry, observation, config>>
  BY <1>1 DEF runVars, clientVars, vasVars
<1> DEFINE n == [token |-> r.token, kind |-> k, sequence |->
                   IF r.kind = "tap" THEN 0 ELSE server_sequence]
<1>3. /\ n.token = r.token /\ net' = net \cup {n} /\ n.kind = k
      /\ n.sequence \in {0, server_sequence}
  BY <1>1
<1> HIDE DEF n
<1>4. InFlight' = InFlight \cup {n}
  BY <1>2, <1>3, FlowServer
<1>5. /\ r.token \notin observers /\ \A m \in InFlight : m.token # r.token
      /\ observation # None => observation.token # r.token
  BY DEF OneRequest, Open
<1>6. server_sequence \in Nat
  BY ClientAssumption DEF Shape, ServerShape
<1>7. n.sequence \in Nat /\ n.sequence <= server_sequence' /\ server_sequence' = server_sequence
  BY <1>1, <1>3, <1>6
<1>8. \A t \in observers' : t \in observers \/ t = n.token
  BY <1>1, <1>3
<1>9. ~Observes(n) => n.token \notin observers'
  BY <1>1, <1>3, <1>5 DEF Observes
<1> QED
  BY <1>2, <1>3, <1>4, <1>5, <1>6, <1>7, <1>8, <1>9, LastWordWith

\* A notification is newer than all there is, and after one without the option
\* the server sends no more.
LEMMA LastWordNotify ==
  ASSUME Shape, LastWord, Notify
  PROVE  LastWord'
<1>1. PICK t \in observers, k \in ResponseKinds :
        /\ net' = net \cup {[token |-> t, kind |-> k, sequence |-> server_sequence']}
        /\ observers' = IF k \in {"notify", "garbage"} THEN observers ELSE observers \ {t}
        /\ server_sequence' = server_sequence + 1
        /\ UNCHANGED <<runVars, clientVars, vasVars>>
  BY DEF Notify
<1>2. UNCHANGED <<packets_recv, delivering, dispatcher, registry, observation, config>>
  BY <1>1 DEF runVars, clientVars, vasVars
<1> DEFINE n == [token |-> t, kind |-> k, sequence |-> server_sequence']
<1>3. n.token = t /\ net' = net \cup {n} /\ n.kind = k /\ n.sequence = server_sequence + 1
  BY <1>1
<1> HIDE DEF n
<1>4. InFlight' = InFlight \cup {n}
  BY <1>2, <1>3, FlowServer
<1>5. \A m \in InFlight : ~Observes(m) => m.token # n.token
  BY <1>3 DEF LastWord
<1>6. server_sequence \in Nat /\ \A m \in InFlight : m.sequence \in Nat
  BY InFlightMessages, ClientAssumption DEF Shape, ServerShape, Messages
<1>7. /\ n.sequence \in Nat /\ n.sequence <= server_sequence' /\ server_sequence' \in Nat
      /\ server_sequence <= server_sequence'
  BY <1>1, <1>3, <1>6
<1>8. \A m \in InFlight : m.sequence <= n.sequence
  BY <1>3, <1>6 DEF LastWord
<1>9. observation # None => observation.last <= n.sequence
  BY <1>3, <1>6 DEF Shape, ObservationShape
<1>10. \A u \in observers' : u \in observers
  BY <1>1
<1>11. ~Observes(n) => n.token \notin observers'
  BY <1>1, <1>3 DEF Observes
<1> QED
  BY <1>2, <1>4, <1>5, <1>7, <1>8, <1>9, <1>10, <1>11, LastWordWith

\* The last word is kept by every step.
LEMMA LastWordStep ==
  ASSUME Shape, OneConfig, Entered, OneRequest, LastWord, Next
  PROVE  LastWord'
<1>1. CASE ~Answer /\ ~Notify
  BY <1>1, OpenStep, ObservationFrom, LastWordKept
<1> QED
  BY <1>1, LastWordAnswer, LastWordNotify

-----------------------------------------------------------------------------
(* Theorems                                                                 *)

\* The client starts in the invariant.
LEMMA ClientInit ==
  ASSUME Init
  PROVE  ClientInv
<1>0. /\ MaxConnections \in Nat /\ SendCapacity \in Nat /\ RecvCapacity \in Nat /\ MaxSequence \in Nat
  BY ClientAssumption
<1>1. /\ dispatcher.pc = "exited" /\ dispatcher.gen = 0 /\ dispatcher.msg = <<>>
      /\ DOMAIN dispatcher = {"pc", "gen", "msg"} /\ DOMAIN registry = {}
      /\ vas = At("fetch")
      /\ link = "down" /\ generation = 0
      /\ packets_send = <<>> /\ packets_recv = <<>> /\ delivering = <<>>
      /\ observation = None /\ config = 0 /\ leaked = {}
      /\ owed = {} /\ observers = {} /\ server_sequence = 0 /\ net = {}
  BY DEF Init
<1>2. /\ DOMAIN vas = {"pc", "gen", "token", "kind"} /\ vas.pc = "fetch" /\ vas.gen = 0
  BY <1>1, AtFields
<1>3. LinkShape /\ RegistryShape /\ VasShape /\ ObservationShape /\ ServerShape
  BY <1>0, <1>1, <1>2
  DEF LinkShape, RegistryShape, VasShape, InRequest, ObservationShape, ServerShape
<1>4. ChannelShape /\ DispatcherShape
  BY <1>0, <1>1, EmptySeq DEF ChannelShape, DispatcherShape
<1>5. OneConfig
  BY <1>1, <1>2 DEF OneConfig, InRequest
<1>6. Entered
  BY <1>1, <1>2 DEF Entered, Pending, Observed
<1>7. OneRequest
  BY <1>1, <1>2 DEF OneRequest, InChannel, Asking
<1>8. InFlight = {}
  BY <1>1, EmptyElements DEF InFlight, Queued, Received
<1>9. LastWord
  BY <1>1, <1>8 DEF LastWord
<1> QED
  BY <1>3, <1>4, <1>5, <1>6, <1>7, <1>9 DEF ClientInv, Shape

\* Nothing happens.
LEMMA ClientStutter ==
  ASSUME ClientInv, UNCHANGED vars
  PROVE  ClientInv'
<1>1. /\ UNCHANGED <<link, generation, owed, observers, server_sequence, net>>
      /\ UNCHANGED <<packets_send, packets_recv, delivering, registry, dispatcher>>
      /\ UNCHANGED <<vas, observation, config, leaked>>
  BY DEF vars, world, runVars, clientVars, vasVars, serverVars
<1>2. Shape'
  BY <1>1, GroupsKept DEF ClientInv, Shape, runVars, serverVars
<1>3. OneConfig'
  BY <1>1 DEF ClientInv, OneConfig
<1>4. Entered'
  BY <1>1, EnteredElsewhere DEF ClientInv
<1>5. InFlight' = InFlight
  BY <1>1 DEF InFlight, Queued, Received
<1>6. \A t : Open(t) => Open(t)'
  BY <1>1, <1>5 DEF Open
<1>7. OneRequest'
  BY <1>1, <1>6, RequestsKept, ChannelKept DEF ClientInv
<1>8. LastWord'
  BY <1>1, <1>5 DEF ClientInv, LastWord, Observes
<1> QED
  BY <1>2, <1>3, <1>4, <1>7, <1>8 DEF ClientInv

\* A request is in one place and answered once, a message without the option is
\* the last of its token, and the registry holds what is under way (coap.rs
\* 407-578): the parts of ClientInv in every state.
THEOREM ClientAlways == Spec => []ClientInv
<1>1. Init => ClientInv
  BY ClientInit
<1>2. ClientInv /\ [Next]_vars => ClientInv'
  BY ClientStutter, ShapeStep, OneConfigStep, EnteredStep, OneRequestStep, LastWordStep
  DEF ClientInv
<1> QED
  BY <1>1, <1>2, PTL DEF Spec

\* The state of the client, of its channels and of the server has its type, and
\* the channels keep to their capacities (coap.rs 381-405).
THEOREM ClientTypeCorrect == Spec => []TypeOK
<1>1. ClientInv => TypeOK
  BY ShapeTypes DEF ClientInv
<1> QED
  BY <1>1, ClientAlways, PTL

\* In every state the registry of a connection that is alive holds the channel of
\* the request that is being made and of the observation that is in use, and of
\* nothing else but what a config that cannot be parsed has left behind
\* (coap.rs 420-485, 530-538).
THEOREM RegistryAlwaysExact == Spec => []RegistryExact
<1>1. ASSUME ClientInv PROVE RegistryExact
  <2>1. \A t \in Tokens : Registered(t) => t \in Pending \cup Observed \cup leaked
    BY <1>1 DEF ClientInv, Entered, Registered
  <2>2. \A t \in Pending : Registered(t)
    <3>1. \A t \in Pending : vas.pc \in InRequest
      BY DEF Pending, InRequest
    <3> QED
      BY <1>1, <3>1 DEF ClientInv, Entered, Registered, RegistryAlive
  <2>3. \A t \in Observed : observation.gen = generation => Registered(t)
    BY <1>1 DEF ClientInv, Entered, Registered, RegistryAlive
  <2> QED
    BY <2>1, <2>2, <2>3 DEF RegistryExact
<1> QED
  BY <1>1, ClientAlways, PTL

\* A step that changes the config.
LEMMA ConfigOnlyForward ==
  ASSUME ClientInv, Next, observation # None, observation' # None,
         observation'.token = observation.token
  PROVE  config' >= config
<1>N. config \in Nat /\ server_sequence \in Nat /\ MaxSequence \in Nat /\ Shape
  BY ClientAssumption DEF ClientInv, Shape, ObservationShape, ServerShape
<1>1. CASE UNCHANGED config
  BY <1>N, <1>1
<1>2. CASE Response
  <2> DEFINE m == Head(registry[vas.token].queue)
  <2>1. /\ vas.pc = "wait"
        /\ \/ tap_answered(m) \/ config_refused(m) \/ config_without_observe(m)
           \/ config_observed(m) \/ config_invalid(m)
    BY <1>2 DEF Response
  <2> HIDE DEF m
  <2>2. vas.kind = "tap"
    BY <2>1 DEF ClientInv, OneConfig, InRequest
  <2> QED
    BY <1>1, <2>1, <2>2
    DEF tap_answered, config_refused, config_without_observe, config_observed, config_invalid
<1>3. CASE TakeNotification
  <2> DEFINE t == observation.token
             m == Head(registry[observation.token].queue)
  <2>1. /\ ~observation.is_done
        /\ t \in DOMAIN registry /\ registry[t].queue # <<>>
        /\ \/ observation_ended(m) \/ config_updated(m)
           \/ update_invalid(m) \/ update_stale(m)
    BY <1>3 DEF TakeNotification, Registered
  <2>2. registry[t].queue \in Seq(Messages)
    BY <1>N, <2>1 DEF Shape, RegistryShape
  <2>3. m \in Messages /\ m \in ToSet(registry[t].queue)
    BY <2>1, <2>2, TailElements
  <2>4. m \in InFlight /\ m.token = t /\ m.sequence \in Nat
    BY <1>N, <2>1, <2>3, InFlightPlaces DEF ClientInv, Entered, Messages
  <2> HIDE DEF m
  <2>5. config <= observation.last /\ observation.last \in Nat
    BY <1>N, <2>1 DEF ClientInv, LastWord, Shape, ObservationShape
  <2>6. CASE observation_ended(m)
    <3>1. ~Observes(m) /\ config' \in {config, m.sequence}
      BY <2>6 DEF observation_ended
    <3>2. observation.last <= m.sequence
      BY <2>4, <3>1 DEF ClientInv, LastWord
    <3> QED
      BY <1>N, <2>4, <2>5, <3>1, <3>2
  <2>7. CASE config_updated(m)
    <3>1. config' = m.sequence /\ IsNewer(m.sequence)
      BY <2>7 DEF config_updated
    <3>2. /\ m.sequence <= Half /\ observation.last <= Half /\ Half \in Nat
      BY <1>N, <2>3, ClientAssumption
      DEF Half, Messages, Shape, ObservationShape, ServerShape
    <3>3. m.sequence > observation.last
      BY <2>4, <2>5, <3>1, <3>2 DEF IsNewer
    <3> QED
      BY <1>N, <2>4, <2>5, <3>1, <3>3
  <2>8. CASE update_invalid(m) \/ update_stale(m)
    BY <1>1, <2>8 DEF update_invalid, update_stale
  <2> QED
    BY <2>1, <2>6, <2>7, <2>8
<1>4. UNCHANGED config \/ Response \/ TakeNotification
  BY ElsewhereKeeps
  DEF Next, Vas, Others, Run, Dispatcher, Elsewhere, Fetch, Submit, Register, SendUpgrade,
      SendPacket, RequestTimeout, Unregister, CloseObservation, ObservationLost,
      ObservationDone, Tap, NoResult
<1> QED
  BY <1>1, <1>2, <1>3, <1>4

\* While an observation lasts no step makes the config older, in whatever order
\* the notifications arrive, however often, and however the observation ends
\* (coap.rs 505-557).
THEOREM ConfigNeverGoesBack == Spec => ConfigMonotone
<1>1. ClientInv /\ [Next]_vars =>
        [/\ observation # None /\ observation' # None
         /\ observation'.token = observation.token
         => config' >= config]_vars
  BY ConfigOnlyForward
<1> QED
  BY <1>1, ClientAlways, PTL DEF Spec, ConfigMonotone

-----------------------------------------------------------------------------
(* The search for a server                                                  *)

\* What is remembered was said in this window.
Remembered ==
  /\ srv \subseteq Srv /\ aaaa \subseteq Aaaa
  /\ \A r \in srv \cup aaaa : r.server \in heard
  /\ alive \subseteq heard

ResultInvariant == Remembered /\ ResultConsistent

\* The search starts with nothing.
LEMMA ResultInit == SearchInit => ResultInvariant
BY DEF SearchInit, ResultInvariant, Remembered, ResultConsistent

\* Another window starts with nothing again.
LEMMA RestartForgets == ResultInvariant /\ restart => ResultInvariant'
BY DEF ResultInvariant, Remembered, ResultConsistent, restart

\* A choice is of what was heard in this window.
LEMMA ChoiceConsistent ==
  ASSUME ResultInvariant, NEW s \in Servers, Choose(s)
  PROVE  ResultInvariant'
<1>1. PICK d \in Preferred(s) :
        IF addresses(d) = {} THEN restart
        ELSE /\ IF \E a \in addresses(d) : a.address \in LinkLocal
                THEN /\ step' = "found"
                     /\ \E a \in addresses(d) : a.address \in LinkLocal /\ chosen' = {d, a}
                ELSE step' = "panicked" /\ UNCHANGED chosen
             /\ UNCHANGED <<ticks, heardOf, surroundings, heard>>
  BY DEF Choose
<1>2. CASE addresses(d) = {}
  BY <1>1, <1>2, RestartForgets
<1>3. CASE addresses(d) # {}
  <2>1. /\ Remembered' /\ UNCHANGED <<srv, heard>>
        /\ step' = "found" =>
             \E a \in addresses(d) : a.address \in LinkLocal /\ chosen' = {d, a}
    BY <1>1, <1>3 DEF ResultInvariant, Remembered, heardOf, surroundings
  <2>2. ASSUME step' = "found" PROVE ResultConsistent'
    <3>1. PICK a \in addresses(d) : a.address \in LinkLocal /\ chosen' = {d, a}
      BY <2>1, <2>2
    <3>2. /\ d \in srv /\ a \in aaaa /\ a.host = d.host
          /\ \A e \in srv : e.server = d.server => d.priority <= e.priority
      BY DEF Preferred, addresses
    <3>3. d \in Srv /\ a \in Aaaa /\ d.server \in heard /\ a.server \in heard
      BY <3>2 DEF ResultInvariant, Remembered
    <3>4. ~ \E e \in srv : e.server = d.server /\ e.priority < d.priority
      <4>1. SUFFICES ASSUME NEW e \in srv, e.server = d.server, e.priority < d.priority
                     PROVE  FALSE
        OBVIOUS
      <4>2. d.priority \in Nat /\ e.priority \in Nat
        BY <3>2, DiscoveryAssumption DEF RecordAssumption, ResultInvariant, Remembered, Srv
      <4> QED
        BY <3>2, <4>1, <4>2
    <3> QED
      BY <2>1, <3>1, <3>2, <3>3, <3>4 DEF ResultConsistent
  <2> QED
    BY <2>1, <2>2 DEF ResultInvariant, ResultConsistent
<1> QED
  BY <1>2, <1>3

\* Every step of the search keeps the invariant.
LEMMA ResultStep == ResultInvariant /\ [SearchNext]_search => ResultInvariant'
<1> SUFFICES ASSUME ResultInvariant, [SearchNext]_search PROVE ResultInvariant'
  OBVIOUS
<1> USE DEF ResultInvariant, Remembered, ResultConsistent, heardOf, surroundings
<1>1. CASE Query
  BY <1>1 DEF Query
<1>2. ASSUME NEW r \in Records, Receive(r) PROVE ResultInvariant'
  BY <1>2 DEF Receive, Of
<1>3. CASE ReceiveError \/ NothingViable \/ SearchAgain
  BY <1>3, RestartForgets DEF ReceiveError, NothingViable, SearchAgain
<1>4. ASSUME NEW s \in Servers, Choose(s) PROVE ResultInvariant'
  BY <1>4, ChoiceConsistent
<1>5. ASSUME NEW s \in Servers, Leave(s) \/ Join(s) PROVE ResultInvariant'
  BY <1>5 DEF Leave, Join
<1>6. ASSUME NEW r \in Records, LoseRecord(r) PROVE ResultInvariant'
  BY <1>6 DEF LoseRecord
<1>7. CASE UNCHANGED search
  BY <1>7 DEF search
<1> QED
  BY <1>1, <1>2, <1>3, <1>4, <1>5, <1>6, <1>7 DEF SearchNext, Reader

\* A result is an SRV record and an address of the host it names, both of servers
\* that were there during this window, and no lower priority of that server was
\* heard of (mdns.rs 49-59, 232-257).
THEOREM ResultBelongsTogether == SearchSpec => []ResultConsistent
<1>1. ResultInvariant => ResultConsistent
  BY DEF ResultInvariant
<1> QED
  BY <1>1, ResultInit, ResultStep, PTL DEF SearchSpec

=============================================================================
