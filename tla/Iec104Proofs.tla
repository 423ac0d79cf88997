---------------------------- MODULE Iec104Proofs ----------------------------
(***************************************************************************)
(* Proofs about Iec104, for every modulus, window, buffer and bound.       *)
(***************************************************************************)
EXTENDS Iec104, SequenceTheorems, TLAPS

Items == [kind : {"con", "s", "i"}, frame : Nat]

Numbers == 0..(Modulus - 1)

-----------------------------------------------------------------------------
(* Type correctness                                                        *)

(* The next number is a number.                                            *)
LEMMA IncrementType ==
  ASSUME IecAssumption, NEW n \in Numbers PROVE increment(n) \in Numbers
BY DEF IecAssumption, Numbers, increment

LEMMA ModType ==
  ASSUME IecAssumption, NEW n \in Nat PROVE n % Modulus \in Numbers
BY DEF IecAssumption, Numbers

(* A sequence of frames is one of a longer list of frames.                 *)
LEMMA FramesGrow ==
  ASSUME NEW n \in Nat, NEW m \in Nat, n <= m, NEW s \in Seq(1..n)
  PROVE  s \in Seq(1..m)
<1>1. s \in [1..Len(s) -> 1..m] /\ Len(s) \in Nat
  BY LenProperties
<1> QED  BY <1>1, SeqDef

LEMMA InitType == IecAssumption /\ Init => TypeOK
<1> SUFFICES ASSUME IecAssumption, Init PROVE TypeOK
  OBVIOUS
<1>1. TodoOK
  BY EmptySeq DEF Init, TodoOK
<1>2. ssn \in 0..(Modulus - 1) /\ rsn \in 0..(Modulus - 1)
      /\ ack \in 0..(Modulus - 1) /\ telegrams \in Nat
  BY DEF Init, IecAssumption
<1>3. buffer \in Seq(1..Made) /\ order \in Seq(1..Made)
      /\ seqOf \in Seq(0..(Modulus - 1)) /\ Len(order) = 0 /\ Len(buffer) = 0
  BY EmptySeq DEF Init
<1>4. BufferMax \in Nat
  BY DEF IecAssumption
<1>5. allowDT \in BOOLEAN /\ t2 \in BOOLEAN /\ pc = "recv"
  BY DEF Init
<1>6. acked \in 0..Len(order) /\ accepted \in Nat /\ told \in 0..accepted
  BY <1>3 DEF Init
<1>7. sentmsgs \subseteq Watches
  BY DEF Init
<1> QED  BY <1>1, <1>2, <1>3, <1>4, <1>5, <1>6, <1>7 DEF TypeOK

(* Frames that wait in the buffer are yielded as frames made before.       *)
LEMMA ResendType ==
  ASSUME TypeOK, Reply(<<Con>> \o [j \in 1..Len(buffer) |-> I(buffer[j])]),
         UNCHANGED seqOf
  PROVE  TodoOK' /\ pc' \in {"recv", "sending"} /\ (pc' = "sending" => todo' # <<>>)
<1> DEFINE again == [j \in 1..Len(buffer) |-> I(buffer[j])]
<1>1. Made \in Nat /\ Len(buffer) \in Nat
      /\ \A j \in 1..Len(buffer) : buffer[j] \in 1..Made
  BY LenProperties, ElementOfSeq DEF TypeOK, Made
<1>2. again \in Seq(Items) /\ Len(again) = Len(buffer)
  BY <1>1 DEF Items, I
<1>3. <<Con>> \in Seq(Items) /\ Len(<<Con>>) = 1 /\ <<Con>>[1] = Con
  BY DEF Items, Con
<1> HIDE DEF again
<1>4. /\ <<Con>> \o again \in Seq(Items)
      /\ Len(<<Con>> \o again) = 1 + Len(buffer)
      /\ \A j \in 1..(1 + Len(buffer)) :
           (<<Con>> \o again)[j] = IF j = 1 THEN Con ELSE again[j - 1]
  BY <1>1, <1>2, <1>3, ConcatProperties
<1>5. \A j \in 1..Len(buffer) : again[j] = I(buffer[j])
  BY DEF again
<1>6. todo' = <<Con>> \o again
      /\ pc' = (IF <<Con>> \o again = <<>> THEN "recv" ELSE "sending")
  BY DEF Reply, again
<1>7. \A j \in DOMAIN todo' : todo'[j].kind = "i" => todo'[j].frame \in 1..Made
  <2> SUFFICES ASSUME NEW j \in DOMAIN todo', todo'[j].kind = "i"
               PROVE  todo'[j].frame \in 1..Made
    OBVIOUS
  <2>1. j \in 1..(1 + Len(buffer))
    BY <1>1, <1>4, <1>6, LenProperties
  <2>2. j # 1
    BY <1>4, <1>6, <2>1 DEF Con
  <2>3. todo'[j] = again[j - 1]
    BY <1>1, <1>4, <1>6, <2>1, <2>2
  <2>4. again[j - 1] = I(buffer[j - 1]) /\ buffer[j - 1] \in 1..Made
    BY <1>1, <1>5, <2>1, <2>2
  <2> QED  BY <2>3, <2>4 DEF I
<1> QED  BY <1>4, <1>6, <1>7 DEF TodoOK, Items, Made

(* Answers are yielded in the order in which they will be made.            *)
LEMMA AnswersType ==
  ASSUME TypeOK, NEW k \in Nat, Reply(Answers(k)), UNCHANGED seqOf
  PROVE  TodoOK' /\ pc' \in {"recv", "sending"} /\ (pc' = "sending" => todo' # <<>>)
<1>1. Made \in Nat
  BY LenProperties DEF TypeOK, Made
<1>2. Answers(k) \in Seq(Items) /\ DOMAIN Answers(k) = 1..k
  BY <1>1 DEF Answers, Items, I
<1>3. \A j \in 1..k : Answers(k)[j] = I(Made + j)
  BY DEF Answers
<1> QED  BY <1>2, <1>3 DEF Reply, TodoOK, Items, Made

(* A handler that yields no I frame.                                       *)
LEMMA OthersType ==
  ASSUME NEW items \in {<<Con>>, <<S, Con>>}, Reply(items)
  PROVE  TodoOK' /\ pc' = "sending" /\ todo' # <<>>
<1>1. items \in Seq(Items) /\ \A j \in DOMAIN items : items[j].kind # "i"
  <2>1. CASE items = <<Con>>
    BY <2>1 DEF Items, Con
  <2>2. CASE items = <<S, Con>>
    BY <2>2 DEF Items, Con, S
  <2> QED  BY <2>1, <2>2
<1>2. items # <<>>
  OBVIOUS
<1> QED  BY <1>1, <1>2 DEF Reply, TodoOK, Items

(* What no frame of the station and no timer changes.                      *)
LEMMA DisconnectType ==
  ASSUME IecAssumption, TypeOK, Disconnect, UNCHANGED <<allowDT, sentmsgs, buffer, seqOf, histories>>
  PROVE  TypeOK'
<1>1. TodoOK'
  BY EmptySeq DEF Disconnect, TodoOK
<1>2. ssn' \in 0..(Modulus - 1) /\ rsn' \in 0..(Modulus - 1)
      /\ ack' \in 0..(Modulus - 1) /\ telegrams' \in Nat
  BY DEF Disconnect, IecAssumption
<1>3. t2' \in BOOLEAN /\ pc' = "closed"
  BY DEF Disconnect
<1>4. UNCHANGED Made /\ UNCHANGED Watches
  BY DEF Made, Watches, histories
<1> QED  BY <1>1, <1>2, <1>3, <1>4 DEF TypeOK, histories

(* Steps that leave the frames made, buffered and transmitted alone.       *)
LEMMA QuietType ==
  ASSUME TypeOK, TodoOK', pc' \in {"recv", "sending"},
         pc' = "sending" => todo' # <<>>,
         UNCHANGED <<ssn, buffer, seqOf, order>>, rsn' \in Numbers, ack' \in Numbers,
         telegrams' \in Nat, allowDT' \in BOOLEAN, t2' \in BOOLEAN,
         acked' \in 0..Len(order), accepted' \in Nat, told' \in 0..accepted',
         sentmsgs' \subseteq sentmsgs \cup {TestWatch}
  PROVE  TypeOK'
<1>1. UNCHANGED Made /\ sentmsgs' \subseteq Watches'
  BY DEF Made, Watches, TypeOK
<1> QED  BY <1>1 DEF TypeOK, Numbers

LEMMA UFrameType ==
  ASSUME TypeOK, UFrame PROVE TypeOK'
<1>1. CASE StartDT
  <2>1. TodoOK' /\ pc' \in {"recv", "sending"} /\ (pc' = "sending" => todo' # <<>>)
    BY <1>1, ResendType DEF StartDT
  <2>2. UNCHANGED <<ssn, rsn, ack, telegrams, t2, sentmsgs, buffer, seqOf, order, acked,
                         accepted, told>>
        /\ allowDT' \in BOOLEAN
    BY <1>1 DEF StartDT, registers, histories
  <2> QED  BY <2>1, <2>2, QuietType DEF TypeOK, Numbers
<1>2. CASE StopDT
  <2>1. TodoOK' /\ pc' \in {"recv", "sending"} /\ (pc' = "sending" => todo' # <<>>)
    BY <1>2, OthersType DEF StopDT
  <2>2. UNCHANGED <<ssn, rsn, ack, telegrams, t2, sentmsgs, buffer, seqOf, order, acked,
                         accepted, told>>
        /\ allowDT' \in BOOLEAN
    BY <1>2 DEF StopDT, registers, histories
  <2> QED  BY <2>1, <2>2, QuietType DEF TypeOK, Numbers
<1>3. CASE TestFrAct
  <2>1. TodoOK' /\ pc' \in {"recv", "sending"} /\ (pc' = "sending" => todo' # <<>>)
    BY <1>3, OthersType DEF TestFrAct
  <2>2. UNCHANGED <<ssn, rsn, ack, telegrams, allowDT, t2, buffer, seqOf, order, acked, accepted, told>>
        /\ sentmsgs' \subseteq sentmsgs
    BY <1>3 DEF TestFrAct, WithoutTests, registers, histories
  <2> QED  BY <2>1, <2>2, QuietType DEF TypeOK, Numbers
<1>4. CASE TestFrCon
  <2>1. UNCHANGED <<pc, todo, ssn, rsn, ack, telegrams, allowDT, t2, buffer, seqOf, order, acked, accepted, told>>
        /\ pc = "recv" /\ sentmsgs' \subseteq sentmsgs
    BY <1>4 DEF TestFrCon, WithoutTests, registers, histories
  <2>2. TodoOK'
    BY <2>1 DEF TypeOK, TodoOK, Made
  <2> QED  BY <2>1, <2>2, QuietType DEF TypeOK, Numbers
<1> QED  BY <1>1, <1>2, <1>3, <1>4 DEF UFrame

LEMMA SFrameType ==
  ASSUME IecAssumption, TypeOK, NEW n \in Acks, SFrame(n) PROVE TypeOK'
<1>1. n \in 0..Len(order) /\ n \in Nat
  BY LenProperties DEF Acks, TypeOK
<1>2. ack' \in Numbers /\ acked' = n
  BY <1>1, ModType DEF SFrame, TypeOK, Numbers
<1>3. UNCHANGED <<pc, todo, ssn, rsn, telegrams, allowDT, t2, buffer, seqOf, order, accepted, told>>
      /\ pc = "recv" /\ sentmsgs' \subseteq sentmsgs
  BY DEF SFrame, Unacknowledged
<1>4. TodoOK'
  BY <1>3 DEF TypeOK, TodoOK, Made
<1> QED  BY <1>1, <1>2, <1>3, <1>4, QuietType DEF TypeOK, Numbers

LEMMA IFrameType ==
  ASSUME IecAssumption, TypeOK, NEW n \in Acks, NEW k \in 0..MaxResponses,
         IFrame(n, k)
  PROVE  TypeOK'
<1> MaxResponses \in Nat /\ k \in Nat
  BY DEF IecAssumption
<1>1. n \in 0..Len(order) /\ acked' = n
  BY LenProperties DEF Acks, TypeOK, IFrame
<1>2. rsn' \in Numbers
  BY IncrementType DEF IFrame, TypeOK, Numbers
<1>3. accepted' = accepted + 1 /\ pc = "recv"
      /\ UNCHANGED <<ssn, ack, allowDT, buffer, seqOf, order, told>>
      /\ sentmsgs' \subseteq sentmsgs
  BY DEF IFrame, Unacknowledged
<1>4. accepted' \in Nat /\ told' \in 0..accepted'
  BY <1>3 DEF TypeOK
<1>5. CASE BelowWindow(k)
  <2>1. TodoOK' /\ pc' \in {"recv", "sending"} /\ (pc' = "sending" => todo' # <<>>)
    BY <1>3, <1>5, AnswersType DEF BelowWindow
  <2>2. telegrams' \in Nat /\ t2' \in BOOLEAN
    BY <1>5 DEF BelowWindow, TypeOK
  <2> QED  BY <1>1, <1>2, <1>3, <1>4, <2>1, <2>2, QuietType DEF TypeOK, Numbers
<1>6. CASE WindowFull
  <2>1. pc' = "failed" /\ telegrams' \in Nat /\ t2' \in BOOLEAN /\ todo' = todo
    BY <1>6 DEF WindowFull
  <2>2. TodoOK' /\ UNCHANGED Made /\ UNCHANGED Watches
    BY <1>3, <2>1 DEF TypeOK, TodoOK, Made, Watches
  <2> QED  BY <1>1, <1>2, <1>3, <1>4, <2>1, <2>2 DEF TypeOK, Numbers
<1> QED  BY <1>5, <1>6 DEF IFrame

LEMMA MalformedType ==
  ASSUME IecAssumption, TypeOK, NEW k \in 0..MaxResponses, MalformedIFrame(k)
  PROVE  TypeOK'
<1> MaxResponses \in Nat /\ k \in Nat
  BY DEF IecAssumption
<1>1. UNCHANGED <<ssn, rsn, ack, telegrams, allowDT, sentmsgs, buffer, seqOf, order,
                  acked, accepted, told>>
      /\ t2' \in BOOLEAN
  BY DEF MalformedIFrame, registers, histories
<1>2. TodoOK' /\ pc' \in {"recv", "sending"} /\ (pc' = "sending" => todo' # <<>>)
  BY <1>1, AnswersType DEF MalformedIFrame
<1> QED  BY <1>1, <1>2, QuietType DEF TypeOK, Numbers

(* The handler's generator advances by one.                                *)
LEMMA TailType ==
  ASSUME TypeOK, pc = "sending", todo' = Tail(todo),
         pc' = IF Len(todo) = 1 THEN "recv" ELSE "sending"
  PROVE  /\ pc' \in {"recv", "sending"} /\ (pc' = "sending" => todo' # <<>>)
         /\ Len(todo) \in Nat \ {0} /\ DOMAIN todo = 1..Len(todo)
         /\ todo' \in Seq(Items) /\ Len(todo') = Len(todo) - 1
         /\ DOMAIN todo' = 1..(Len(todo) - 1)
         /\ \A j \in 1..(Len(todo) - 1) : todo'[j] = todo[j + 1]
         /\ Head(todo) = todo[1] /\ todo[1] \in Items
<1>1. todo \in Seq(Items) /\ todo # <<>>
  BY DEF TypeOK, TodoOK, Items
<1>2. Len(todo) \in Nat \ {0} /\ DOMAIN todo = 1..Len(todo) /\ todo[1] \in Items
      /\ Head(todo) = todo[1]
  BY <1>1, EmptySeq, LenProperties, ElementOfSeq, HeadTailProperties
<1>3. /\ todo' \in Seq(Items) /\ Len(todo') = Len(todo) - 1
      /\ \A j \in 1..(Len(todo) - 1) : todo'[j] = todo[j + 1]
  BY <1>1, <1>2, HeadTailProperties
<1>4. DOMAIN todo' = 1..(Len(todo) - 1)
  BY <1>3, LenProperties
<1>5. Len(todo) # 1 => todo' # <<>>
  BY <1>2, <1>3, EmptySeq
<1> QED  BY <1>2, <1>3, <1>4, <1>5

(* A confirmation or an S frame: the rest stays as it was to be made.      *)
LEMMA SkipType ==
  ASSUME TypeOK, pc = "sending", todo' = Tail(todo),
         pc' = IF Len(todo) = 1 THEN "recv" ELSE "sending",
         Head(todo).kind # "i", UNCHANGED seqOf
  PROVE  TodoOK'
<1>1. todo[1].kind # "i" /\ 1 \in DOMAIN todo
  BY TailType
<1>2. \A j \in DOMAIN todo : todo[j].kind = "i" => todo[j].frame \in 1..Made
  <2>1. ~(\A j \in DOMAIN todo : todo[j] = I(Made + j))
    BY <1>1 DEF I
  <2> QED  BY <2>1 DEF TypeOK, TodoOK
<1>3. \A j \in DOMAIN todo' : todo'[j].kind = "i" => todo'[j].frame \in 1..Made
  BY <1>2, TailType
<1> QED  BY <1>3, TailType DEF TodoOK, Items, Made

(* An I frame on its way out is one made before, or the next one.          *)
LEMMA NumberedType ==
  ASSUME TypeOK, pc = "sending", todo' = Tail(todo),
         pc' = IF Len(todo) = 1 THEN "recv" ELSE "sending",
         Head(todo).kind = "i", NEW n \in Numbers,
         seqOf' = Numbered(Head(todo).frame, n)
  PROVE  /\ seqOf' \in Seq(Numbers)
         /\ Made \in Nat /\ Made' \in Nat /\ Made <= Made'
         /\ Head(todo).frame \in 1..Made'
         /\ TodoOK'
<1> DEFINE f == Head(todo).frame
<1>1. todo[1].kind = "i" /\ f = todo[1].frame /\ 1 \in DOMAIN todo /\ f \in Nat
  BY TailType DEF Items
<1>2. Made \in Nat /\ seqOf \in Seq(Numbers)
  BY LenProperties DEF TypeOK, Made, Numbers
<1>3. CASE \A j \in DOMAIN todo : todo[j].kind = "i" => todo[j].frame \in 1..Made
  <2>1. f \in 1..Made
    BY <1>1, <1>3
  <2>2. seqOf' = [seqOf EXCEPT ![f] = n]
    BY <1>2, <2>1 DEF Numbered
  <2>3. seqOf' \in Seq(Numbers) /\ Len(seqOf') = Len(seqOf)
    BY <1>2, <2>1, <2>2, ExceptSeq DEF Made
  <2>4. \A j \in DOMAIN todo' : todo'[j].kind = "i" => todo'[j].frame \in 1..Made
    BY <1>3, TailType
  <2>5. TodoOK'
    BY <2>3, <2>4, TailType DEF TodoOK, Items, Made
  <2> QED  BY <1>2, <2>1, <2>3, <2>5 DEF Made
<1>4. CASE \A j \in DOMAIN todo : todo[j] = I(Made + j)
  <2>1. f = Made + 1
    BY <1>1, <1>2, <1>4 DEF I
  <2>2. seqOf' = Append(seqOf, n)
    BY <1>2, <2>1 DEF Numbered
  <2>3. seqOf' \in Seq(Numbers) /\ Len(seqOf') = Len(seqOf) + 1
    <3>1. Append(seqOf, n) \in Seq(Numbers)
          /\ Len(Append(seqOf, n)) = Len(seqOf) + 1
      BY <1>2, AppendProperties
    <3> QED  BY <2>2, <3>1
  <2>4. Made' = Made + 1
    BY <2>3 DEF Made
  <2>5. \A j \in DOMAIN todo' : todo'[j] = I(Made' + j)
    <3> SUFFICES ASSUME NEW j \in 1..(Len(todo) - 1)
                 PROVE  todo'[j] = I(Made' + j)
      BY TailType
    <3>1. todo'[j] = todo[j + 1] /\ j + 1 \in DOMAIN todo
      BY TailType
    <3>2. Made + (j + 1) = Made' + j
      BY <1>2, <2>4
    <3> QED  BY <1>4, <3>1, <3>2
  <2>6. TodoOK'
    BY <2>5, TailType DEF TodoOK, Items
  <2> QED  BY <1>2, <2>1, <2>3, <2>4, <2>6
<1> QED  BY <1>3, <1>4 DEF TypeOK, TodoOK

LEMMA SendType ==
  ASSUME IecAssumption, TypeOK, SendNext PROVE TypeOK'
<1>1. pc = "sending" /\ todo' = Tail(todo) /\ allowDT' = allowDT
      /\ pc' = IF Len(todo) = 1 THEN "recv" ELSE "sending"
  BY DEF SendNext
<1>2. CASE Head(todo).kind = "con" /\ SendConfirmation
  <2>1. UNCHANGED <<ssn, rsn, ack, telegrams, t2, sentmsgs, buffer, seqOf, order, acked,
                    accepted, told>>
    BY <1>2 DEF SendConfirmation, registers, histories
  <2>2. TodoOK'
    BY <1>1, <1>2, <2>1, SkipType
  <2> QED  BY <1>1, <2>1, <2>2, TailType, QuietType DEF TypeOK, Numbers
<1>3. CASE Head(todo).kind = "s" /\ SendSFrame
  <2>1. UNCHANGED <<ssn, rsn, ack, sentmsgs, buffer, seqOf, order, acked, accepted>>
        /\ t2' \in BOOLEAN /\ telegrams' \in Nat /\ told' = accepted
    BY <1>3 DEF SendSFrame, Acknowledge
  <2>2. TodoOK' /\ told' \in 0..accepted'
    BY <1>1, <1>3, <2>1, SkipType DEF TypeOK
  <2> QED  BY <1>1, <2>1, <2>2, TailType, QuietType DEF TypeOK, Numbers
<1>4. CASE Head(todo).kind = "i" /\ Transmit(Head(todo).frame)
  <2>1. UNCHANGED <<rsn, ack, buffer, acked, accepted>>
        /\ t2' \in BOOLEAN /\ telegrams' \in Nat /\ told' = accepted
        /\ seqOf' = Numbered(Head(todo).frame, ssn) /\ ssn' = increment(ssn)
        /\ order' = Append(order, Head(todo).frame)
        /\ sentmsgs' = sentmsgs \cup {Watch(Head(todo).frame, Len(order) + 1)}
    BY <1>4 DEF Transmit, Acknowledge
  <2>2. ssn \in Numbers /\ ssn' \in Numbers
    BY <2>1, IncrementType DEF TypeOK, Numbers
  <2>3. /\ seqOf' \in Seq(Numbers)
        /\ Made \in Nat /\ Made' \in Nat /\ Made <= Made'
        /\ Head(todo).frame \in 1..Made'
        /\ TodoOK'
    BY <1>1, <1>4, <2>1, <2>2, NumberedType
  <2>4. buffer' \in Seq(1..Made') /\ order \in Seq(1..Made')
    BY <2>1, <2>3, FramesGrow DEF TypeOK
  <2>5. order' \in Seq(1..Made') /\ Len(order') = Len(order) + 1
    BY <2>1, <2>3, <2>4, AppendProperties
  <2>6. acked' \in 0..Len(order') /\ told' \in 0..accepted' /\ accepted' \in Nat
    BY <2>1, <2>4, <2>5, LenProperties DEF TypeOK
  <2>7. sentmsgs' \subseteq Watches'
    <3>1. sentmsgs \subseteq Watches /\ Len(order) \in Nat
      BY LenProperties DEF TypeOK
    <3>2. 1..Made \subseteq 1..Made' /\ 1..Len(order) \subseteq 1..Len(order')
          /\ Len(order) + 1 \in 1..Len(order')
      BY <2>3, <2>5, <3>1
    <3> QED  BY <2>1, <2>3, <3>1, <3>2 DEF Watches
  <2> QED  BY <1>1, <2>1, <2>2, <2>3, <2>4, <2>5, <2>6, <2>7, TailType DEF TypeOK, Numbers
<1>5. CASE Head(todo).kind = "i" /\ Buffer(Head(todo).frame)
  <2>1. UNCHANGED <<ssn, rsn, ack, telegrams, t2, sentmsgs, order, acked, accepted, told>>
        /\ seqOf' = Numbered(Head(todo).frame, 0)
        /\ buffer' = IF Len(buffer) < BufferMax
                       THEN Append(buffer, Head(todo).frame) ELSE buffer
    BY <1>5 DEF Buffer, registers, histories
  <2>2. 0 \in Numbers
    BY DEF IecAssumption, Numbers
  <2>3. /\ seqOf' \in Seq(Numbers)
        /\ Made \in Nat /\ Made' \in Nat /\ Made <= Made'
        /\ Head(todo).frame \in 1..Made'
        /\ TodoOK'
    BY <1>1, <1>5, <2>1, <2>2, NumberedType
  <2>4. buffer \in Seq(1..Made') /\ order' \in Seq(1..Made')
    BY <2>1, <2>3, FramesGrow DEF TypeOK
  <2>5. buffer' \in Seq(1..Made') /\ Len(buffer') <= BufferMax
    <3>1. CASE Len(buffer) < BufferMax
      <4>1. buffer' \in Seq(1..Made') /\ Len(buffer') = Len(buffer) + 1
        BY <2>1, <2>3, <2>4, <3>1, AppendProperties
      <4> QED  BY <2>4, <3>1, <4>1, LenProperties DEF IecAssumption
    <3>2. CASE ~(Len(buffer) < BufferMax)
      BY <2>1, <2>4, <3>2 DEF TypeOK
    <3> QED  BY <3>1, <3>2
  <2>6. sentmsgs' \subseteq Watches'
    <3>1. 1..Made \subseteq 1..Made'
      BY <2>3
    <3>2. sentmsgs \subseteq Watches /\ Len(order') = Len(order)
      BY <2>1 DEF TypeOK
    <3>3. ASSUME NEW e \in Watches PROVE e \in Watches'
      <4>1. CASE e = TestWatch
        BY <4>1 DEF Watches, TestWatch
      <4>2. ASSUME NEW g \in 1..Made, NEW k \in 1..Len(order), e = Watch(g, k)
            PROVE  e \in Watches'
        BY <3>1, <3>2, <4>2 DEF Watches, Watch
      <4> QED  BY <4>1, <4>2 DEF Watches
    <3> QED  BY <2>1, <3>2, <3>3
  <2> QED  BY <1>1, <2>1, <2>3, <2>4, <2>5, <2>6, TailType DEF TypeOK, Numbers
<1> QED  BY <1>2, <1>3, <1>4, <1>5 DEF SendNext

LEMMA TimeoutType ==
  ASSUME TypeOK, SendTimesOut PROVE TypeOK'
<1>1. UNCHANGED <<todo, ssn, rsn, ack, telegrams, allowDT, t2, sentmsgs, buffer, seqOf,
                  order, acked, accepted, told>>
      /\ pc' = "failed"
  BY DEF SendTimesOut, registers, histories
<1> QED  BY <1>1 DEF TypeOK, TodoOK, Made, Watches

LEMMA TimerType ==
  ASSUME TypeOK, T2Fires \/ T3Fires PROVE TypeOK'
<1>1. UNCHANGED <<pc, todo, ssn, rsn, ack, allowDT, buffer, seqOf, order, acked, accepted>>
      /\ pc \in {"recv", "sending"} /\ sentmsgs' \subseteq sentmsgs \cup {TestWatch}
  BY DEF T2Fires, T3Fires, Live, registers, histories
<1>2. telegrams' \in Nat /\ t2' \in BOOLEAN /\ told' \in 0..accepted'
  <2>1. CASE T2Fires
    <3>1. t2' = FALSE /\ telegrams' = 0 /\ told' = accepted
      BY <2>1 DEF T2Fires, Acknowledge
    <3>2. t2' \in BOOLEAN
      BY <3>1
    <3> QED  BY <1>1, <3>1, <3>2 DEF TypeOK
  <2>2. CASE T3Fires
    <3>1. UNCHANGED <<telegrams, t2, told>>
      BY <2>2 DEF T3Fires, registers, histories
    <3> QED  BY <1>1, <3>1 DEF TypeOK
  <2> QED  BY <2>1, <2>2
<1>3. TodoOK'
  BY <1>1 DEF TypeOK, TodoOK, Made
<1> QED  BY <1>1, <1>2, <1>3, QuietType DEF TypeOK, Numbers

(* Every step keeps the types.                                             *)
LEMMA NextType == IecAssumption /\ TypeOK /\ [Next]_vars => TypeOK'
<1> SUFFICES ASSUME IecAssumption, TypeOK, [Next]_vars PROVE TypeOK'
  OBVIOUS
<1>1. CASE UFrame
  BY <1>1, UFrameType
<1>2. ASSUME NEW n \in Acks, SFrame(n) \/ \E k \in 0..MaxResponses : IFrame(n, k)
      PROVE  TypeOK'
  BY <1>2, SFrameType, IFrameType
<1>3. ASSUME NEW k \in 0..MaxResponses, MalformedIFrame(k) PROVE TypeOK'
  BY <1>3, MalformedType
<1>4. CASE SequenceError \/ SendFails \/ T1Fires \/ StationCloses
  <2>1. Disconnect /\ UNCHANGED <<allowDT, sentmsgs, buffer, seqOf, histories>>
    BY <1>4 DEF SequenceError, SendFails, T1Fires, StationCloses
  <2> QED  BY <2>1, DisconnectType
<1>5. CASE SendNext
  BY <1>5, SendType
<1>6. CASE SendTimesOut
  BY <1>6, TimeoutType
<1>7. CASE T2Fires \/ T3Fires
  BY <1>7, TimerType
<1>8. CASE UNCHANGED vars
  <2>1. UNCHANGED <<pc, todo, ssn, rsn, ack, telegrams, allowDT, t2, sentmsgs, buffer,
                    seqOf, order, acked, accepted, told>>
    BY <1>8 DEF vars, registers, histories
  <2> QED  BY <2>1 DEF TypeOK, TodoOK, Made, Watches
<1> QED  BY <1>1, <1>2, <1>3, <1>4, <1>5, <1>6, <1>7, <1>8 DEF Next

(* Registers, buffer and the frames still to be yielded are well formed,   *)
(* for every modulus, window and buffer.                                   *)
THEOREM TypeCorrect == Spec => []TypeOK
<1>1. IecAssumption
  BY IecAssumption
<1> QED  BY <1>1, InitType, NextType, PTL DEF Spec

-----------------------------------------------------------------------------
(* Acknowledgements                                                        *)

LEMMA AckStep == TypeOK /\ AckIsPending /\ [Next]_vars => AckIsPending'
<1> SUFFICES ASSUME TypeOK, AckIsPending, [Next]_vars PROVE AckIsPending'
  OBVIOUS
<1>1. telegrams \in Nat /\ accepted \in Nat /\ told \in Nat
  BY DEF TypeOK
<1>2. CASE UFrame
  BY <1>2 DEF UFrame, StartDT, StopDT, TestFrAct, TestFrCon, AckIsPending, Live, registers, histories
<1>3. ASSUME NEW n \in Acks, SFrame(n) PROVE AckIsPending'
  BY <1>3 DEF SFrame, AckIsPending, Live
<1>4. ASSUME NEW n \in Acks, NEW k \in 0..MaxResponses, IFrame(n, k)
      PROVE  AckIsPending'
  BY <1>1, <1>4 DEF IFrame, WindowFull, BelowWindow, AckIsPending, Live
<1>5. ASSUME NEW k \in 0..MaxResponses, MalformedIFrame(k) PROVE AckIsPending'
  BY <1>5 DEF MalformedIFrame, AckIsPending, Live, registers, histories
<1>6. CASE SequenceError \/ SendFails \/ T1Fires \/ StationCloses
  BY <1>6 DEF SequenceError, SendFails, T1Fires, StationCloses, Disconnect, AckIsPending, Live
<1>7. CASE SendNext
  <2>1. Live
    BY <1>7 DEF SendNext, Live
  <2>2. CASE SendConfirmation \/ Buffer(Head(todo).frame)
    BY <2>1, <2>2 DEF SendConfirmation, Buffer, AckIsPending, registers, histories
  <2>3. CASE SendSFrame \/ Transmit(Head(todo).frame)
    <3>1. telegrams' = 0 /\ told' = accepted /\ accepted' = accepted
      BY <2>3 DEF SendSFrame, Transmit, Acknowledge
    <3> QED  BY <1>1, <3>1 DEF AckIsPending
  <2> QED  BY <1>7, <2>2, <2>3 DEF SendNext
<1>8. CASE SendTimesOut
  BY <1>8 DEF SendTimesOut, AckIsPending, Live
<1>9. CASE T2Fires
  <2>1. telegrams' = 0 /\ told' = accepted /\ accepted' = accepted
    BY <1>9 DEF T2Fires, Acknowledge
  <2> QED  BY <1>1, <2>1 DEF AckIsPending
<1>10. CASE T3Fires
  BY <1>10 DEF T3Fires, AckIsPending, Live, registers, histories
<1>11. CASE UNCHANGED vars
  BY <1>11 DEF vars, registers, histories, AckIsPending, Live
<1> QED  BY <1>2, <1>3, <1>4, <1>5, <1>6, <1>7, <1>8, <1>9, <1>10, <1>11 DEF Next

(* What the station has not been told is counted, and T2 runs to tell it,  *)
(* for every window and buffer and however sends and timers interleave.    *)
THEOREM AcknowledgementPending == Spec => []AckIsPending
<1>1. Init => AckIsPending
  BY DEF Init, AckIsPending, Live
<1> QED  BY <1>1, AckStep, TypeCorrect, PTL DEF Spec

-----------------------------------------------------------------------------
(* Order of the answers                                                    *)

Flushed == Range(buffer) \subseteq Range(order)

Rising == \A i, j \in 1..Len(buffer) : i < j => buffer[i] < buffer[j]

(* The confirmation and the first d buffered frames have been yielded; the *)
(* confirmation stands at place 0.                                         *)
ResendingFrom(d) ==
  /\ Len(todo) = Len(buffer) - d
  /\ \A j \in 1..Len(todo) :
       todo[j] = IF d + j = 0 THEN Con ELSE I(buffer[d + j])
  /\ \A i \in 1..d : buffer[i] \in Range(order)

Resending == allowDT /\ \E d \in Int : d >= -1 /\ ResendingFrom(d)
Making == \A j \in 1..Len(todo) : todo[j] = I(Made + j)
Confirming == \A j \in 1..Len(todo) : todo[j].kind # "i"

(* While frames are sent again none is made, and none is made before all   *)
(* that waited are on the wire.                                            *)
OrderInv ==
  /\ Rising
  /\ AnswersInOrder
  /\ pc = "recv" /\ allowDT => Flushed
  /\ pc = "sending" =>
       \/ Resending
       \/ (allowDT => Flushed) /\ (Making \/ Confirming)

LEMMA OrderTypes ==
  ASSUME TypeOK
  PROVE  /\ Made \in Nat /\ Len(buffer) \in Nat /\ Len(order) \in Nat
         /\ Len(todo) \in Nat
         /\ DOMAIN buffer = 1..Len(buffer) /\ DOMAIN order = 1..Len(order)
         /\ \A j \in 1..Len(buffer) : buffer[j] \in 1..Made
         /\ \A j \in 1..Len(order) : order[j] \in 1..Made
         /\ Range(buffer) \subseteq 1..Made /\ Range(order) \subseteq 1..Made
         /\ todo \in Seq(Items)
<1>1. Made \in Nat /\ Len(buffer) \in Nat /\ Len(order) \in Nat /\ Len(todo) \in Nat
      /\ DOMAIN buffer = 1..Len(buffer) /\ DOMAIN order = 1..Len(order)
      /\ todo \in Seq(Items)
  BY LenProperties DEF TypeOK, TodoOK, Items, Made
<1>2. /\ \A j \in 1..Len(buffer) : buffer[j] \in 1..Made
      /\ \A j \in 1..Len(order) : order[j] \in 1..Made
  BY ElementOfSeq DEF TypeOK
<1> QED  BY <1>1, <1>2 DEF Range

(* Steps that make, buffer and transmit nothing.                           *)
LEMMA OrderQuiet ==
  ASSUME OrderInv, UNCHANGED <<buffer, order, seqOf>>, Live' => Live
  PROVE  Rising' /\ AnswersInOrder'
BY DEF OrderInv, Rising, AnswersInOrder, Made

(* The handler of a U frame yields confirmations, after STARTDT followed   *)
(* by what waits.                                                          *)
LEMMA OrderUFrame ==
  ASSUME TypeOK, OrderInv, UFrame PROVE OrderInv'
<1>1. pc = "recv" /\ UNCHANGED <<buffer, order, seqOf>>
  BY DEF UFrame, StartDT, StopDT, TestFrAct, TestFrCon, histories
<1>2. Rising' /\ AnswersInOrder'
  BY <1>1, OrderQuiet DEF Live
<1>3. CASE StartDT
  <2> DEFINE again == [j \in 1..Len(buffer) |-> I(buffer[j])]
  <2>1. again \in Seq(Items) /\ Len(again) = Len(buffer)
    BY OrderTypes DEF Items, I
  <2>2. \A j \in 1..Len(buffer) : again[j] = I(buffer[j])
    OBVIOUS
  <2>3. <<Con>> \in Seq(Items) /\ Len(<<Con>>) = 1 /\ <<Con>>[1] = Con
    BY DEF Items, Con
  <2>4. todo' = <<Con>> \o again /\ allowDT'
        /\ pc' = (IF todo' = <<>> THEN "recv" ELSE "sending")
    BY <1>3 DEF StartDT, Reply
  <2> HIDE DEF again
  <2>5. /\ <<Con>> \o again \in Seq(Items)
        /\ Len(<<Con>> \o again) = 1 + Len(buffer)
        /\ \A j \in 1..(1 + Len(buffer)) :
             (<<Con>> \o again)[j] = IF j = 1 THEN Con ELSE again[j - 1]
    BY <2>1, <2>3, OrderTypes, ConcatProperties
  <2>6. Len(todo') = Len(buffer) + 1
    BY <2>4, <2>5, OrderTypes
  <2>7. \A j \in 1..Len(todo') : todo'[j] = IF -1 + j = 0 THEN Con ELSE I(buffer[-1 + j])
    <3> SUFFICES ASSUME NEW j \in 1..(Len(buffer) + 1)
                 PROVE  todo'[j] = IF -1 + j = 0 THEN Con ELSE I(buffer[-1 + j])
      BY <2>6
    <3>1. CASE j = 1
      BY <2>4, <2>5, <3>1, OrderTypes
    <3>2. CASE j # 1
      <4>1. j - 1 \in 1..Len(buffer) /\ -1 + j = j - 1 /\ -1 + j # 0
        BY <3>2, OrderTypes
      <4>2. todo'[j] = again[j - 1]
        BY <2>4, <2>5, <3>2, OrderTypes
      <4> QED  BY <2>2, <4>1, <4>2
    <3> QED  BY <3>1, <3>2
  <2>8. Len(todo') = Len(buffer') - (-1)
    BY <1>1, <2>6, OrderTypes
  <2>9. ResendingFrom(-1)'
    BY <1>1, <2>7, <2>8 DEF ResendingFrom
  <2>10. todo' # <<>>
    BY <2>6, OrderTypes
  <2> QED  BY <1>2, <2>4, <2>9, <2>10 DEF OrderInv, Resending
<1>4. CASE StopDT
  <2>1. ~allowDT' /\ todo' = <<S, Con>>
    BY <1>4 DEF StopDT, Reply
  <2>2. Confirming'
    BY <2>1 DEF Confirming, S, Con
  <2> QED  BY <1>2, <2>1, <2>2 DEF OrderInv
<1>5. CASE TestFrAct
  <2>1. allowDT' = allowDT /\ todo' = <<Con>>
    BY <1>5 DEF TestFrAct, Reply
  <2>2. Confirming'
    BY <2>1 DEF Confirming, Con
  <2>3. Flushed' <=> Flushed
    BY <1>1 DEF Flushed
  <2> QED  BY <1>1, <1>2, <2>1, <2>2, <2>3 DEF OrderInv
<1>6. CASE TestFrCon
  <2>1. pc' = "recv" /\ allowDT' = allowDT /\ (Flushed' <=> Flushed)
    BY <1>1, <1>6 DEF TestFrCon, Flushed
  <2> QED  BY <1>1, <1>2, <2>1 DEF OrderInv
<1> QED  BY <1>3, <1>4, <1>5, <1>6 DEF UFrame

(* Answers are made only when all that waited is on the wire.              *)
LEMMA OrderAnswers ==
  ASSUME TypeOK, OrderInv, pc = "recv", NEW k \in Nat, Reply(Answers(k)),
         UNCHANGED <<buffer, order, seqOf, allowDT>>
  PROVE  OrderInv'
<1>1. Rising' /\ AnswersInOrder'
  BY OrderQuiet DEF Live
<1>2. Answers(k) \in Seq(Items) /\ Len(Answers(k)) = k
  BY OrderTypes DEF Answers, Items, I
<1>3. Making'
  BY <1>2 DEF Reply, Making, Answers, Made
<1>4. allowDT' => Flushed'
  BY DEF OrderInv, Flushed
<1> QED  BY <1>1, <1>3, <1>4 DEF OrderInv

(* What the rest of a generator looks like after its first frame.          *)
LEMMA OrderTail ==
  ASSUME TypeOK, pc = "sending", todo' = Tail(todo),
         pc' = IF Len(todo) = 1 THEN "recv" ELSE "sending",
         UNCHANGED buffer
  PROVE  /\ \A d \in Int : ResendingFrom(d) =>
              /\ Len(todo') = Len(buffer') - (d + 1)
              /\ \A j \in 1..Len(todo') :
                   todo'[j] = IF (d + 1) + j = 0 THEN Con
                                                 ELSE I(buffer'[(d + 1) + j])
         /\ Making => \A j \in 1..Len(todo') : todo'[j] = I((Made + 1) + j)
         /\ Confirming => Confirming'
<1>1. /\ Len(todo) \in Nat \ {0} /\ Len(todo') = Len(todo) - 1
      /\ \A j \in 1..(Len(todo) - 1) : todo'[j] = todo[j + 1]
      /\ Made \in Nat /\ Len(buffer) \in Nat
  BY TailType, OrderTypes
<1>2. ASSUME NEW d \in Int, ResendingFrom(d)
      PROVE  /\ Len(todo') = Len(buffer') - (d + 1)
             /\ \A j \in 1..Len(todo') :
                  todo'[j] = IF (d + 1) + j = 0 THEN Con
                                                ELSE I(buffer'[(d + 1) + j])
  <2>1. Len(todo') = Len(buffer') - (d + 1)
    BY <1>1, <1>2 DEF ResendingFrom
  <2>2. ASSUME NEW j \in 1..Len(todo')
        PROVE  todo'[j] = IF (d + 1) + j = 0 THEN Con
                                             ELSE I(buffer'[(d + 1) + j])
    <3>1. j + 1 \in 1..Len(todo) /\ todo'[j] = todo[j + 1]
          /\ d + (j + 1) = (d + 1) + j
      BY <1>1
    <3> QED  BY <1>2, <3>1 DEF ResendingFrom
  <2> QED  BY <2>1, <2>2
<1>3. ASSUME Making, NEW j \in 1..Len(todo')
      PROVE  todo'[j] = I((Made + 1) + j)
  <2>1. j + 1 \in 1..Len(todo) /\ todo'[j] = todo[j + 1]
        /\ Made + (j + 1) = (Made + 1) + j
    BY <1>1
  <2> QED  BY <1>3, <2>1 DEF Making
<1>4. Confirming => Confirming'
  BY <1>1 DEF Confirming
<1> QED  BY <1>2, <1>3, <1>4

LEMMA OrderConfirmed ==
  ASSUME TypeOK, OrderInv, SendNext, Head(todo).kind # "i",
         UNCHANGED <<buffer, order, seqOf>>
  PROVE  OrderInv'
<1>1. pc = "sending" /\ todo' = Tail(todo) /\ allowDT' = allowDT
      /\ pc' = IF Len(todo) = 1 THEN "recv" ELSE "sending"
  BY DEF SendNext
<1>2. Rising' /\ AnswersInOrder'
  BY <1>1, OrderQuiet DEF Live
<1>3. todo[1].kind # "i" /\ Len(todo) \in Nat \ {0} /\ Len(buffer) \in Nat
      /\ Len(todo') = Len(todo) - 1
  BY <1>1, TailType, OrderTypes
<1>4. CASE Resending
  <2>1. PICK d \in Int : d >= -1 /\ ResendingFrom(d)
    BY <1>4 DEF Resending
  <2>2. d = -1
    <3>1. todo[1] = IF d + 1 = 0 THEN Con ELSE I(buffer[d + 1])
      BY <1>3, <2>1 DEF ResendingFrom
    <3> QED  BY <1>3, <2>1, <3>1 DEF I
  <2>3. \A i \in 1..(d + 1) : buffer'[i] \in Range(order')
    BY <2>2
  <2>4. ResendingFrom(d + 1)'
    BY <1>1, <2>1, <2>3, OrderTail DEF ResendingFrom
  <2>5. Resending'
    BY <1>1, <1>4, <2>1, <2>4 DEF Resending
  <2>6. pc' = "recv" => Flushed'
    <3>1. pc' = "recv" => Len(buffer) = 0
      BY <1>1, <1>3, <2>1, <2>2 DEF ResendingFrom
    <3> QED  BY <3>1, OrderTypes DEF Flushed, Range
  <2> QED  BY <1>2, <2>5, <2>6 DEF OrderInv
<1>5. CASE (allowDT => Flushed) /\ (Making \/ Confirming)
  <2>1. ~Making
    <3>1. 1 \in 1..Len(todo)
      BY <1>3
    <3>2. Making => todo[1] = I(Made + 1)
      BY <3>1 DEF Making
    <3> QED  BY <1>3, <3>2 DEF I
  <2>2. Confirming'
    BY <1>1, <1>5, <2>1, OrderTail
  <2>3. allowDT' => Flushed'
    BY <1>1, <1>5 DEF Flushed
  <2> QED  BY <1>2, <2>2, <2>3 DEF OrderInv
<1> QED  BY <1>1, <1>4, <1>5 DEF OrderInv

(* An I frame on its way out: one of those that waited, or a new one.      *)
LEMMA OrderNumbered ==
  ASSUME TypeOK, pc = "sending", Head(todo).kind = "i", NEW n,
         seqOf' = Numbered(Head(todo).frame, n)
  PROVE  /\ Making => Head(todo).frame = Made + 1 /\ Made' = Made + 1
         /\ \A d \in Int : d >= -1 /\ ResendingFrom(d) =>
              /\ d >= 0 /\ d + 1 \in 1..Len(buffer)
              /\ Head(todo).frame = buffer[d + 1]
              /\ Made' = Made
         /\ ~Confirming
<1> DEFINE f == Head(todo).frame
<1>1. todo \in Seq(Items) /\ todo # <<>>
  BY DEF TypeOK, TodoOK, Items
<1>2. Len(todo) \in Nat \ {0} /\ Head(todo) = todo[1]
  BY <1>1, EmptySeq, LenProperties, HeadTailProperties
<1>3. Made \in Nat /\ Len(buffer) \in Nat
      /\ \A j \in 1..Len(buffer) : buffer[j] \in 1..Made
  BY OrderTypes
<1>4. ASSUME Making PROVE f = Made + 1 /\ Made' = Made + 1
  <2>1. f = Made + 1
    <3>1. 1 \in 1..Len(todo)
      BY <1>2
    <3>2. todo[1] = I(Made + 1)
      BY <1>4, <3>1 DEF Making
    <3> QED  BY <1>2, <3>2 DEF I
  <2>2. seqOf' = Append(seqOf, n)
    BY <1>3, <2>1 DEF Numbered
  <2>3. Len(seqOf') = Len(seqOf) + 1
    BY <2>2 DEF TypeOK
  <2> QED  BY <2>1, <2>3 DEF Made
<1>5. ASSUME NEW d \in Int, d >= -1, ResendingFrom(d)
      PROVE  d >= 0 /\ d + 1 \in 1..Len(buffer) /\ f = buffer[d + 1] /\ Made' = Made
  <2>1. todo[1] = IF d + 1 = 0 THEN Con ELSE I(buffer[d + 1])
    BY <1>2, <1>5 DEF ResendingFrom
  <2>2. d + 1 # 0
    BY <1>2, <2>1 DEF Con
  <2>3. f = buffer[d + 1] /\ d >= 0
    BY <1>2, <1>5, <2>1, <2>2 DEF I
  <2>4. d + 1 \in 1..Len(buffer)
    BY <1>2, <1>3, <1>5, <2>3 DEF ResendingFrom
  <2>5. f \in 1..Made
    BY <1>3, <2>3, <2>4
  <2>6. seqOf' = [seqOf EXCEPT ![f] = n]
    BY <1>3, <2>5 DEF Numbered
  <2>7. Made' = Made
    BY <2>6 DEF TypeOK, Made
  <2> QED  BY <2>3, <2>4, <2>7
<1>6. ~Confirming
  BY <1>2 DEF Confirming
<1> QED  BY <1>4, <1>5, <1>6

(* A transmitted frame has every kept frame made before it on the wire.    *)
LEMMA OrderTransmitted ==
  ASSUME TypeOK, OrderInv, UNCHANGED buffer, Made' \in Nat, NEW f \in Nat,
         order' = Append(order, f), Live' => Live,
         \/ f \in Range(buffer) /\ Made' = Made
         \/ f = Made + 1 /\ Made' = Made + 1,
         \A g \in Range(buffer) \cup Range(order) : g < f => g \in Range(order)
  PROVE  /\ Rising' /\ AnswersInOrder'
         /\ Range(order') = Range(order) \cup {f}
<1>1. /\ Len(order) \in Nat /\ order \in Seq(Nat) /\ DOMAIN order = 1..Len(order)
      /\ \A j \in 1..Len(order) : order[j] \in 1..Made
      /\ Range(buffer) \subseteq 1..Made /\ Made \in Nat
  <2>1. order \in Seq(Nat)
    <3>1. order \in [1..Len(order) -> 1..Made] /\ Len(order) \in Nat
      BY LenProperties DEF TypeOK
    <3>2. 1..Made \subseteq Nat
      BY OrderTypes
    <3>3. order \in [1..Len(order) -> Nat]
      BY <3>1, <3>2
    <3> QED  BY <3>1, <3>3, SeqDef
  <2> QED  BY <2>1, OrderTypes
<1>2. /\ Len(order') = Len(order) + 1
      /\ DOMAIN order' = 1..(Len(order) + 1)
      /\ \A j \in 1..Len(order) : order'[j] = order[j]
      /\ order'[Len(order) + 1] = f
  BY <1>1, AppendProperties
<1>3. Range(order') = Range(order) \cup {f}
  BY <1>1, <1>2 DEF Range
<1>4. Rising'
  BY DEF OrderInv, Rising
<1>5. ASSUME NEW j \in DOMAIN order',
             NEW g \in Range(buffer') \cup Range(order'), g < order'[j]
      PROVE  \E i \in 1..(j - 1) : order'[i] = g
  <2>1. CASE j = Len(order) + 1
    <3>1. g < f /\ g # f
      BY <1>2, <1>5, <2>1
    <3>2. g \in Range(order)
      BY <1>3, <3>1
    <3>3. PICK i \in 1..Len(order) : order[i] = g
      BY <1>1, <3>2 DEF Range
    <3> QED  BY <1>1, <1>2, <2>1, <3>3
  <2>2. CASE j \in 1..Len(order)
    <3>1. g < order[j] /\ order[j] <= Made
      BY <1>1, <1>2, <1>5, <2>2
    <3>2. g \in Range(buffer) \cup Range(order)
      <4>1. g # Made + 1
        BY <1>1, <3>1, <2>2
      <4> QED  BY <1>3, <1>5, <4>1
    <3>3. PICK i \in 1..(j - 1) : order[i] = g
      BY <1>1, <2>2, <3>1, <3>2 DEF OrderInv, AnswersInOrder
    <3>4. i \in 1..Len(order)
      BY <1>1, <2>2
    <3> QED  BY <1>2, <3>3, <3>4
  <2> QED  BY <1>1, <1>2, <1>5, <2>1, <2>2
<1>6. Live' /\ ~(1..Made' \subseteq Range(buffer') \cup Range(order'))
      => Len(buffer') = BufferMax
  <2>1. 1..Made \subseteq Range(buffer) \cup Range(order)
        => 1..Made' \subseteq Range(buffer') \cup Range(order')
    <3> SUFFICES ASSUME 1..Made \subseteq Range(buffer) \cup Range(order),
                        NEW g \in 1..Made'
                 PROVE  g \in Range(buffer') \cup Range(order')
      OBVIOUS
    <3>1. g \in 1..Made \/ g = f
      <4>1. CASE Made' = Made
        BY <4>1
      <4>2. CASE f = Made + 1 /\ Made' = Made + 1
        <5>1. g \in 1..(Made + 1)
          BY <4>2
        <5> QED  BY <1>1, <4>2, <5>1
      <4> QED  BY <4>1, <4>2
    <3> QED  BY <1>3, <3>1
  <2> QED  BY <2>1 DEF OrderInv, AnswersInOrder
<1> QED  BY <1>3, <1>4, <1>5, <1>6 DEF AnswersInOrder

LEMMA OrderTransmit ==
  ASSUME IecAssumption, TypeOK, OrderInv, SendNext, Head(todo).kind = "i",
         Transmit(Head(todo).frame)
  PROVE  OrderInv'
<1> DEFINE f == Head(todo).frame
<1>1. pc = "sending" /\ todo' = Tail(todo) /\ allowDT' = allowDT /\ allowDT
      /\ pc' = (IF Len(todo) = 1 THEN "recv" ELSE "sending")
      /\ UNCHANGED buffer /\ order' = Append(order, f) /\ seqOf' = Numbered(f, ssn)
  BY DEF SendNext, Transmit
<1>2. ssn \in Numbers
  BY DEF TypeOK, Numbers
<1>3. Made \in Nat /\ Made' \in Nat /\ f \in 1..Made' /\ f \in Nat
  <2>1. Made \in Nat /\ Made' \in Nat /\ f \in 1..Made'
    BY <1>1, <1>2, NumberedType
  <2> QED  BY <2>1
<1>4. Live' => Live
  BY <1>1 DEF Live
<1>5. Len(todo) \in Nat \ {0} /\ Len(todo') = Len(todo) - 1 /\ Len(buffer) \in Nat
      /\ DOMAIN buffer = 1..Len(buffer)
  BY <1>1, TailType, OrderTypes
<1>6. CASE Resending
  <2>1. PICK d \in Int : d >= -1 /\ ResendingFrom(d)
    BY <1>6 DEF Resending
  <2>2. d >= 0 /\ d + 1 \in 1..Len(buffer) /\ f = buffer[d + 1] /\ Made' = Made
    BY <1>1, <2>1, OrderNumbered
  <2>3. f \in Range(buffer)
    BY <1>5, <2>2 DEF Range
  <2>4. ASSUME NEW g \in Range(buffer), g < f PROVE g \in Range(order)
    <3>1. PICK i \in 1..Len(buffer) : buffer[i] = g
      BY <1>5 DEF Range
    <3>2. i \in 1..d
      <4>1. g \in Nat
        BY <3>1, OrderTypes
      <4>2. d + 1 < i => f < g
        BY <2>2, <3>1 DEF OrderInv, Rising
      <4>3. ~(d + 1 < i) /\ i # d + 1
        BY <1>3, <2>2, <2>4, <3>1, <4>1, <4>2
      <4> QED  BY <2>2, <3>1, <4>3
    <3> QED  BY <2>1, <3>1, <3>2 DEF ResendingFrom
  <2>5. Rising' /\ AnswersInOrder' /\ Range(order') = Range(order) \cup {f}
    BY <1>1, <1>3, <1>4, <2>2, <2>3, <2>4, OrderTransmitted
  <2>6. \A i \in 1..(d + 1) : buffer'[i] \in Range(order')
    <3> SUFFICES ASSUME NEW i \in 1..(d + 1) PROVE buffer[i] \in Range(order')
      BY <1>1
    <3>1. CASE i = d + 1
      BY <2>2, <2>5, <3>1
    <3>2. CASE i \in 1..d
      BY <2>1, <2>5, <3>2 DEF ResendingFrom
    <3> QED  BY <2>2, <3>1, <3>2
  <2>7. Resending'
    <3>1. ResendingFrom(d + 1)'
      BY <1>1, <2>1, <2>6, OrderTail DEF ResendingFrom
    <3> QED  BY <1>1, <2>2, <3>1 DEF Resending
  <2>8. pc' = "recv" => Flushed'
    <3>1. pc' = "recv" => d + 1 = Len(buffer)
      <4>1. Len(todo) = Len(buffer) - d
        BY <2>1 DEF ResendingFrom
      <4>2. pc' = "recv" => Len(todo) = 1
        BY <1>1
      <4> QED  BY <1>5, <4>1, <4>2
    <3> QED  BY <1>1, <1>5, <2>6, <3>1 DEF Flushed, Range
  <2> QED  BY <2>5, <2>7, <2>8 DEF OrderInv
<1>7. CASE Flushed /\ Making
  <2>1. f = Made + 1 /\ Made' = Made + 1
    BY <1>1, <1>7, OrderNumbered
  <2>2. Rising' /\ AnswersInOrder' /\ Range(order') = Range(order) \cup {f}
    BY <1>1, <1>3, <1>4, <1>7, <2>1, OrderTransmitted DEF Flushed
  <2>3. Making'
    BY <1>1, <1>7, <2>1, OrderTail DEF Making
  <2>4. Flushed'
    BY <1>1, <1>7, <2>2 DEF Flushed
  <2> QED  BY <2>2, <2>3, <2>4 DEF OrderInv
<1> QED  BY <1>1, <1>6, <1>7, OrderNumbered DEF OrderInv

(* A frame that is not transmitted waits in the buffer, or finds it full.  *)
LEMMA OrderBuffer ==
  ASSUME IecAssumption, TypeOK, OrderInv, SendNext, Head(todo).kind = "i",
         Buffer(Head(todo).frame)
  PROVE  OrderInv'
<1> DEFINE f == Head(todo).frame
<1>1. pc = "sending" /\ todo' = Tail(todo) /\ allowDT' = allowDT /\ ~allowDT
      /\ pc' = (IF Len(todo) = 1 THEN "recv" ELSE "sending")
      /\ order' = order /\ seqOf' = Numbered(f, 0)
      /\ buffer' = (IF Len(buffer) < BufferMax THEN Append(buffer, f) ELSE buffer)
  BY DEF SendNext, Buffer, histories
<1>2. Making /\ f = Made + 1 /\ Made' = Made + 1
  BY <1>1, OrderNumbered DEF OrderInv, Resending
<1>3. Making'
  <2>1. /\ Len(todo) \in Nat \ {0} /\ Len(todo') = Len(todo) - 1
        /\ \A j \in 1..(Len(todo) - 1) : todo'[j] = todo[j + 1]
        /\ Made \in Nat
    BY <1>1, TailType, OrderTypes
  <2>2. ASSUME NEW j \in 1..Len(todo') PROVE todo'[j] = I(Made' + j)
    <3>1. j \in Nat /\ j + 1 \in 1..Len(todo) /\ todo'[j] = todo[j + 1]
      BY <2>1
    <3>2. Made + (j + 1) = Made' + j
      <4>1. Made' = Made + 1
        BY <1>2
      <4> QED  BY <2>1, <3>1, <4>1
    <3> QED  BY <1>2, <3>1, <3>2 DEF Making
  <2> QED  BY <2>2 DEF Making
<1>4. /\ Made \in Nat /\ Len(buffer) \in Nat /\ Len(order) \in Nat
      /\ DOMAIN buffer = 1..Len(buffer) /\ DOMAIN order = 1..Len(order)
      /\ \A j \in 1..Len(buffer) : buffer[j] \in 1..Made
      /\ \A j \in 1..Len(order) : order[j] \in 1..Made
      /\ Range(buffer) \subseteq 1..Made
  BY OrderTypes
<1>5. CASE Len(buffer) < BufferMax
  <2>1. /\ Len(buffer') = Len(buffer) + 1
        /\ DOMAIN buffer' = 1..(Len(buffer) + 1)
        /\ \A j \in 1..Len(buffer) : buffer'[j] = buffer[j]
        /\ buffer'[Len(buffer) + 1] = f
    <3>1. buffer \in Seq(1..(Made + 1)) /\ f \in 1..(Made + 1)
      BY <1>2, <1>4, FramesGrow DEF TypeOK
    <3> QED  BY <1>1, <1>5, <3>1, AppendProperties
  <2>2. Range(buffer') = Range(buffer) \cup {f}
    <3>1. \A j \in 1..(Len(buffer) + 1) : j \in 1..Len(buffer) \/ j = Len(buffer) + 1
      BY <1>4
    <3>2. 1..Len(buffer) \subseteq 1..(Len(buffer) + 1)
          /\ Len(buffer) + 1 \in 1..(Len(buffer) + 1)
      BY <1>4
    <3>3. Range(buffer') \subseteq Range(buffer) \cup {f}
      BY <1>4, <2>1, <3>1 DEF Range
    <3>4. Range(buffer) \subseteq Range(buffer') /\ f \in Range(buffer')
      BY <1>4, <2>1, <3>2 DEF Range
    <3> QED  BY <3>3, <3>4
  <2>3. Rising'
    <3> SUFFICES ASSUME NEW i \in 1..(Len(buffer) + 1), NEW j \in 1..(Len(buffer) + 1),
                        i < j
                 PROVE  buffer'[i] < buffer'[j]
      BY <2>1 DEF Rising
    <3>1. i \in 1..Len(buffer)
      BY <1>4
    <3>2. CASE j = Len(buffer) + 1
      BY <1>2, <1>4, <2>1, <3>1, <3>2
    <3>3. CASE j \in 1..Len(buffer)
      BY <2>1, <3>1, <3>3 DEF OrderInv, Rising
    <3> QED  BY <1>4, <3>2, <3>3
  <2>4. ASSUME NEW j \in DOMAIN order', NEW g \in Range(buffer') \cup Range(order'),
               g < order'[j]
        PROVE  \E i \in 1..(j - 1) : order'[i] = g
    <3>1. order[j] \in 1..Made /\ g < order[j]
      BY <1>1, <1>4, <2>4
    <3>2. g # f
      BY <1>2, <1>4, <3>1
    <3>3. g \in Range(buffer) \cup Range(order)
      BY <1>1, <2>2, <3>2
    <3> QED  BY <1>1, <3>1, <3>3 DEF OrderInv, AnswersInOrder
  <2>5. 1..Made \subseteq Range(buffer) \cup Range(order)
    BY <1>1, <1>5, <1>4 DEF OrderInv, AnswersInOrder, Live, IecAssumption
  <2>6. 1..Made' \subseteq Range(buffer') \cup Range(order')
    <3> SUFFICES ASSUME NEW g \in 1..(Made + 1)
                 PROVE  g \in Range(buffer') \cup Range(order)
      BY <1>1, <1>2
    <3>1. g \in 1..Made \/ g = f
      BY <1>2, <1>4
    <3> QED  BY <2>2, <2>5, <3>1
  <2>7. AnswersInOrder'
    BY <2>4, <2>6 DEF AnswersInOrder
  <2> QED  BY <1>1, <1>3, <2>3, <2>7 DEF OrderInv
<1>6. CASE ~(Len(buffer) < BufferMax)
  <2>1. buffer' = buffer /\ Len(buffer) = BufferMax
    BY <1>1, <1>4, <1>6 DEF TypeOK, IecAssumption
  <2>2. Rising' /\ AnswersInOrder'
    BY <1>1, <2>1 DEF OrderInv, Rising, AnswersInOrder
  <2> QED  BY <1>1, <1>3, <2>2 DEF OrderInv
<1> QED  BY <1>5, <1>6

LEMMA OrderSend ==
  ASSUME IecAssumption, TypeOK, OrderInv, SendNext PROVE OrderInv'
<1>1. CASE Head(todo).kind = "con" /\ SendConfirmation
  BY <1>1, OrderConfirmed DEF SendConfirmation, histories
<1>2. CASE Head(todo).kind = "s" /\ SendSFrame
  BY <1>2, OrderConfirmed DEF SendSFrame
<1>3. CASE Head(todo).kind = "i" /\ Transmit(Head(todo).frame)
  BY <1>3, OrderTransmit
<1>4. CASE Head(todo).kind = "i" /\ Buffer(Head(todo).frame)
  BY <1>4, OrderBuffer
<1> QED  BY <1>1, <1>2, <1>3, <1>4 DEF SendNext

LEMMA OrderStep ==
  IecAssumption /\ TypeOK /\ OrderInv /\ [Next]_vars => OrderInv'
<1> SUFFICES ASSUME IecAssumption, TypeOK, OrderInv, [Next]_vars PROVE OrderInv'
  OBVIOUS
<1>1. CASE UFrame
  BY <1>1, OrderUFrame
<1>2. ASSUME NEW n \in Acks, SFrame(n) PROVE OrderInv'
  <2>1. UNCHANGED <<pc, todo, allowDT, buffer, seqOf, order>>
    BY <1>2 DEF SFrame
  <2> QED  BY <2>1 DEF OrderInv, Rising, AnswersInOrder, Flushed, Resending,
                      ResendingFrom, Making, Confirming, Live, Made
<1>3. ASSUME NEW n \in Acks, NEW k \in 0..MaxResponses, IFrame(n, k)
      PROVE  OrderInv'
  <2>1. pc = "recv" /\ UNCHANGED <<buffer, order, seqOf, allowDT>> /\ k \in Nat
    BY <1>3 DEF IFrame, IecAssumption
  <2>2. CASE BelowWindow(k)
    BY <2>1, <2>2, OrderAnswers DEF BelowWindow
  <2>3. CASE WindowFull
    <3>1. pc' = "failed"
      BY <2>3 DEF WindowFull
    <3>2. Rising' /\ AnswersInOrder'
      BY <2>1, OrderQuiet DEF Live
    <3> QED  BY <3>1, <3>2 DEF OrderInv
  <2> QED  BY <1>3, <2>2, <2>3 DEF IFrame
<1>4. ASSUME NEW k \in 0..MaxResponses, MalformedIFrame(k) PROVE OrderInv'
  <2>1. pc = "recv" /\ UNCHANGED <<buffer, order, seqOf, allowDT>> /\ k \in Nat
        /\ Reply(Answers(k))
    BY <1>4 DEF MalformedIFrame, IecAssumption, histories
  <2> QED  BY <2>1, OrderAnswers
<1>5. CASE SequenceError \/ SendFails \/ T1Fires \/ StationCloses \/ SendTimesOut
  <2>1. pc' \in {"closed", "failed"} /\ UNCHANGED <<buffer, order, seqOf>>
    BY <1>5 DEF SequenceError, SendFails, T1Fires, StationCloses, SendTimesOut,
                Disconnect, histories
  <2>2. Rising' /\ AnswersInOrder'
    BY <2>1, OrderQuiet DEF Live
  <2> QED  BY <2>1, <2>2 DEF OrderInv
<1>6. CASE SendNext
  BY <1>6, OrderSend
<1>7. CASE T2Fires \/ T3Fires \/ UNCHANGED vars
  <2>1. UNCHANGED <<pc, todo, allowDT, buffer, seqOf, order>>
    BY <1>7 DEF T2Fires, T3Fires, vars, histories
  <2> QED  BY <2>1 DEF OrderInv, Rising, AnswersInOrder, Flushed, Resending,
                      ResendingFrom, Making, Confirming, Live, Made
<1> QED  BY <1>1, <1>2, <1>3, <1>4, <1>5, <1>6, <1>7 DEF Next

LEMMA OrderInit == Init => OrderInv
<1> SUFFICES ASSUME Init PROVE OrderInv
  OBVIOUS
<1>1. buffer = <<>> /\ order = <<>> /\ seqOf = <<>> /\ pc = "recv" /\ ~allowDT
  BY DEF Init
<1>2. Len(buffer) = 0 /\ DOMAIN order = {} /\ Made = 0
  BY <1>1 DEF Made
<1> QED  BY <1>1, <1>2 DEF OrderInv, Rising, AnswersInOrder

(* Answers reach the wire in the order they were made, and none is lost    *)
(* but to a full buffer, however data transfer is stopped and started.     *)
THEOREM AnswersKeepOrder == Spec => []AnswersInOrder
<1>1. IecAssumption
  BY IecAssumption
<1>2. OrderInv => AnswersInOrder
  BY DEF OrderInv
<1> QED  BY <1>1, <1>2, OrderInit, OrderStep, TypeCorrect, PTL DEF Spec

-----------------------------------------------------------------------------
(* What the timers T1 watch                                                *)

(* The numbers have not wrapped, and no frame was transmitted twice.       *)
Counting == Live /\ Len(order) < Modulus /\ IsInjective(order)

(* The k-th frame transmitted bears the k-th number.                       *)
Numbering ==
  /\ ssn = Len(order)
  /\ \A k \in 1..Len(order) : seqOf[order[k]] = k - 1

Watched ==
  /\ \A e \in sentmsgs : e.name = "i" =>
       e.tx \in (acked + 1)..Len(order) /\ e.frame = order[e.tx]
  /\ \A k \in (acked + 1)..Len(order) : Watch(order[k], k) \in sentmsgs

(* A frame keeps its number from its transmission on: what is buffered     *)
(* gets the number 0, but that is always a frame never transmitted.        *)
WatchInv == Counting => Numbering /\ Watched

(* Steps that number and acknowledge nothing.                              *)
LEMMA WatchQuiet ==
  ASSUME WatchInv, Live' => Live, UNCHANGED <<ssn, seqOf, order, acked>>,
         \A e : e.name = "i" => (e \in sentmsgs' <=> e \in sentmsgs)
  PROVE  WatchInv'
<1>1. Counting' => Counting
  BY DEF Counting
<1>2. Numbering => Numbering'
  BY DEF Numbering
<1>3. Watched => Watched'
  <2>1. \A f, k : Watch(f, k).name = "i"
    BY DEF Watch
  <2> QED  BY <2>1 DEF Watched
<1> QED  BY <1>1, <1>2, <1>3 DEF WatchInv

(* The station has the first n transmissions: their timers stop.           *)
LEMMA WatchAcknowledged ==
  ASSUME IecAssumption, TypeOK, WatchInv, Live, NEW n \in Acks, acked' = n,
         UNCHANGED <<ssn, seqOf, order>>,
         Counting => sentmsgs' = Unacknowledged(n)
  PROVE  WatchInv'
<1> SUFFICES ASSUME Counting PROVE Numbering' /\ Watched'
  BY DEF WatchInv, Counting
<1>1. /\ Len(order) \in Nat /\ acked \in Nat /\ n \in acked..Len(order) /\ n \in Nat
  BY OrderTypes DEF Acks, TypeOK
<1>2. Numbering /\ Watched /\ sentmsgs' = Unacknowledged(n)
  BY DEF WatchInv
<1>3. Numbering'
  BY <1>2 DEF Numbering
<1>4. ASSUME NEW e \in sentmsgs', e.name = "i"
      PROVE  e.tx \in (acked' + 1)..Len(order') /\ e.frame = order'[e.tx]
  <2>1. e \in sentmsgs /\ seqOf[e.frame] >= n
    BY <1>2, <1>4 DEF Unacknowledged
  <2>2. e.tx \in (acked + 1)..Len(order) /\ e.frame = order[e.tx]
    BY <1>2, <1>4, <2>1 DEF Watched
  <2>3. e.tx \in 1..Len(order)
    BY <1>1, <2>2
  <2>4. seqOf[e.frame] = e.tx - 1
    BY <1>2, <2>2, <2>3 DEF Numbering
  <2> QED  BY <1>1, <2>1, <2>2, <2>3, <2>4
<1>5. ASSUME NEW k \in (acked' + 1)..Len(order')
      PROVE  Watch(order'[k], k) \in sentmsgs'
  <2>1. k \in (acked + 1)..Len(order) /\ k \in 1..Len(order) /\ k - 1 >= n
    BY <1>1
  <2>2. Watch(order[k], k) \in sentmsgs
    BY <1>2, <2>1 DEF Watched
  <2>3. Watch(order[k], k).frame = order[k]
    BY DEF Watch
  <2>4. seqOf[order[k]] = k - 1
    BY <1>2, <2>1 DEF Numbering
  <2> QED  BY <1>2, <2>1, <2>2, <2>3, <2>4 DEF Unacknowledged
<1> QED  BY <1>3, <1>4, <1>5 DEF Watched

(* Before the wrap the number of an S frame is the count it acknowledges.  *)
LEMMA WatchSFrame ==
  ASSUME IecAssumption, TypeOK, WatchInv, NEW n \in Acks, SFrame(n)
  PROVE  WatchInv'
<1>1. Live /\ acked' = n /\ UNCHANGED <<ssn, seqOf, order>>
  BY DEF SFrame, Live
<1>2. ASSUME Counting PROVE sentmsgs' = Unacknowledged(n)
  <2>1. Len(order) \in Nat /\ n \in 0..Len(order) /\ Len(order) < Modulus /\ Modulus \in Nat
    BY <1>2, OrderTypes DEF Acks, TypeOK, Counting, IecAssumption
  <2>2. n % Modulus = n
    BY <2>1
  <2>3. ssn = Len(order)
    BY <1>2 DEF WatchInv, Numbering
  <2>4. ack' = n
    BY <2>1, <2>2, <2>3 DEF SFrame
  <2> QED  BY <2>4 DEF SFrame
<1> QED  BY <1>1, <1>2, WatchAcknowledged

LEMMA WatchIFrame ==
  ASSUME IecAssumption, TypeOK, WatchInv, NEW n \in Acks, NEW k, IFrame(n, k)
  PROVE  WatchInv'
<1>1. Live /\ acked' = n /\ UNCHANGED <<ssn, seqOf, order>>
      /\ sentmsgs' = Unacknowledged(n % Modulus)
  BY DEF IFrame, Live
<1>2. ASSUME Counting PROVE sentmsgs' = Unacknowledged(n)
  <2>1. Len(order) \in Nat /\ n \in 0..Len(order) /\ Len(order) < Modulus /\ Modulus \in Nat
    BY <1>2, OrderTypes DEF Acks, TypeOK, Counting, IecAssumption
  <2>2. n % Modulus = n
    BY <2>1
  <2> QED  BY <1>1, <2>2
<1> QED  BY <1>1, <1>2, WatchAcknowledged

(* A transmission takes the next number and starts a timer.                *)
LEMMA WatchTransmit ==
  ASSUME IecAssumption, TypeOK, WatchInv, SendNext, Head(todo).kind = "i",
         Transmit(Head(todo).frame)
  PROVE  WatchInv'
<1> DEFINE f == Head(todo).frame
           m == Len(order)
<1> SUFFICES ASSUME Counting' PROVE Numbering' /\ Watched'
  BY DEF WatchInv
<1>1. pc = "sending" /\ todo' = Tail(todo) /\ Live
      /\ pc' = (IF Len(todo) = 1 THEN "recv" ELSE "sending")
      /\ order' = Append(order, f) /\ seqOf' = Numbered(f, ssn)
      /\ ssn' = increment(ssn) /\ acked' = acked
      /\ sentmsgs' = sentmsgs \cup {Watch(f, m + 1)}
  BY DEF SendNext, Transmit, Live
<1>2. ssn \in Numbers
  BY DEF TypeOK, Numbers
<1>3. f \in 1..Made' /\ Made \in Nat /\ Made' \in Nat
  BY <1>1, <1>2, NumberedType
<1>4. /\ m \in Nat /\ order \in Seq(Nat) /\ DOMAIN order = 1..m
      /\ \A j \in 1..m : order[j] \in 1..Made
      /\ acked \in 0..m /\ Modulus \in Nat \ {0}
  <2>1. m \in Nat /\ DOMAIN order = 1..m /\ \A j \in 1..m : order[j] \in 1..Made
    BY OrderTypes
  <2>2. order \in [1..m -> 1..Made] /\ 1..Made \subseteq Nat
    BY <1>3, LenProperties DEF TypeOK
  <2>3. order \in [1..m -> Nat]
    BY <2>2
  <2>4. order \in Seq(Nat)
    BY <2>1, <2>3, SeqDef
  <2> QED  BY <2>1, <2>4 DEF TypeOK, IecAssumption
<1>5. /\ Len(order') = m + 1 /\ DOMAIN order' = 1..(m + 1)
      /\ \A j \in 1..m : order'[j] = order[j]
      /\ order'[m + 1] = f
  BY <1>1, <1>3, <1>4, AppendProperties
<1>6. m + 1 < Modulus /\ IsInjective(order')
  BY <1>5 DEF Counting
<1>7. /\ \A i, j \in 1..m : order[i] = order[j] => i = j
      /\ \A j \in 1..m : order[j] # f
  <2>1. \A i, j \in 1..(m + 1) : order'[i] = order'[j] => i = j
    BY <1>5, <1>6 DEF IsInjective
  <2>2. \A j \in 1..m : j \in 1..(m + 1) /\ j # m + 1
    BY <1>4
  <2>3. m + 1 \in 1..(m + 1)
    BY <1>4
  <2> QED  BY <1>5, <2>1, <2>2, <2>3
<1>8. Counting
  <2>1. IsInjective(order)
    BY <1>4, <1>7 DEF IsInjective
  <2>2. m < Modulus
    BY <1>4, <1>6
  <2> QED  BY <1>1, <2>1, <2>2 DEF Counting
<1>9. Numbering /\ Watched
  BY <1>8 DEF WatchInv
<1>10. ssn = m /\ ssn' = m + 1
  <2>1. ssn = m
    BY <1>9 DEF Numbering
  <2>2. ssn' = (m + 1) % Modulus
    BY <1>1, <2>1 DEF increment
  <2>3. \A a, b \in Nat : a < b => a % b = a
    OBVIOUS
  <2> HIDE DEF m
  <2>4. m + 1 \in Nat /\ Modulus \in Nat /\ m + 1 < Modulus
    BY <1>4, <1>6
  <2> QED  BY <2>1, <2>2, <2>3, <2>4
<1>11. /\ seqOf'[f] = m
       /\ \A g \in 1..Made : g # f => seqOf'[g] = seqOf[g]
  <2>1. seqOf \in Seq(Numbers) /\ Len(seqOf) = Made
    BY DEF TypeOK, Numbers, Made
  <2>2. CASE f > Made
    <3>1. seqOf' = Append(seqOf, m)
      BY <1>1, <1>10, <2>2 DEF Numbered
    <3>2. m \in Numbers
      BY <1>2, <1>10
    <3>3. Len(seqOf') = Made + 1 /\ seqOf'[Made + 1] = m
          /\ \A g \in 1..Made : seqOf'[g] = seqOf[g]
      BY <2>1, <3>1, <3>2, AppendProperties
    <3>4. f = Made + 1
      BY <1>3, <2>2, <3>3 DEF Made
    <3> QED  BY <3>3, <3>4
  <2>3. CASE ~(f > Made)
    <3>1. f \in 1..Made
      BY <1>3, <2>3
    <3>2. seqOf' = [seqOf EXCEPT ![f] = m]
      BY <1>1, <1>10, <2>3 DEF Numbered
    <3>3. DOMAIN seqOf = 1..Made
      BY <2>1, LenProperties
    <3> QED  BY <3>1, <3>2, <3>3
  <2> QED  BY <2>2, <2>3
<1>12. Numbering'
  <2>1. ASSUME NEW k \in 1..(m + 1) PROVE seqOf'[order'[k]] = k - 1
    <3>1. CASE k = m + 1
      BY <1>4, <1>5, <1>11, <3>1
    <3>2. CASE k \in 1..m
      <4>1. order'[k] = order[k] /\ order[k] \in 1..Made /\ order[k] # f
        BY <1>4, <1>5, <1>7, <3>2
      <4>2. seqOf[order[k]] = k - 1
        BY <1>9, <3>2 DEF Numbering
      <4> QED  BY <1>11, <4>1, <4>2
    <3> QED  BY <1>4, <3>1, <3>2
  <2> QED  BY <1>5, <1>10, <2>1 DEF Numbering
<1>13. ASSUME NEW e \in sentmsgs', e.name = "i"
       PROVE  e.tx \in (acked' + 1)..Len(order') /\ e.frame = order'[e.tx]
  <2>1. CASE e \in sentmsgs
    <3>1. e.tx \in (acked + 1)..m /\ e.frame = order[e.tx]
      BY <1>9, <1>13, <2>1 DEF Watched
    <3>2. e.tx \in 1..m /\ e.tx \in (acked + 1)..(m + 1)
      BY <1>4, <3>1
    <3> QED  BY <1>1, <1>5, <3>1, <3>2
  <2>2. CASE e = Watch(f, m + 1)
    <3>1. e.tx = m + 1 /\ e.frame = f
      BY <2>2 DEF Watch
    <3>2. m + 1 \in (acked + 1)..(m + 1)
      BY <1>4
    <3> QED  BY <1>1, <1>5, <3>1, <3>2
  <2> QED  BY <1>1, <1>13, <2>1, <2>2
<1>14. ASSUME NEW k \in (acked' + 1)..Len(order')
       PROVE  Watch(order'[k], k) \in sentmsgs'
  <2>1. CASE k = m + 1
    BY <1>1, <1>5, <2>1
  <2>2. CASE k # m + 1
    <3>1. k \in (acked + 1)..m /\ k \in 1..m
      BY <1>1, <1>4, <1>5, <2>2
    <3>2. Watch(order[k], k) \in sentmsgs
      BY <1>9, <3>1 DEF Watched
    <3> QED  BY <1>1, <1>5, <3>1, <3>2
  <2> QED  BY <2>1, <2>2
<1> QED  BY <1>12, <1>13, <1>14 DEF Watched

(* A frame that waits is a new one: no transmitted frame is renumbered.    *)
LEMMA WatchBuffer ==
  ASSUME IecAssumption, TypeOK, OrderInv, WatchInv, SendNext, Head(todo).kind = "i",
         Buffer(Head(todo).frame)
  PROVE  WatchInv'
<1> DEFINE f == Head(todo).frame
<1>1. pc = "sending" /\ ~allowDT /\ seqOf' = Numbered(f, 0)
      /\ UNCHANGED <<ssn, order, acked, sentmsgs>>
  BY DEF SendNext, Buffer, registers, histories
<1>2. f = Made + 1
  BY <1>1, OrderNumbered DEF OrderInv, Resending
<1>3. seqOf \in Seq(Numbers) /\ Made \in Nat /\ 0 \in Numbers /\ Len(seqOf) = Made
      /\ \A j \in 1..Len(order) : order[j] \in 1..Made
  BY OrderTypes DEF TypeOK, Numbers, Made, IecAssumption
<1>4. \A g \in 1..Made : seqOf'[g] = seqOf[g]
  <2>1. seqOf' = Append(seqOf, 0)
    BY <1>1, <1>2, <1>3 DEF Numbered
  <2> QED  BY <1>3, <2>1, AppendProperties
<1>5. Counting' => Counting
  BY <1>1 DEF Counting, Live
<1>6. Numbering => Numbering'
  BY <1>1, <1>3, <1>4 DEF Numbering
<1>7. Watched => Watched'
  BY <1>1 DEF Watched
<1> QED  BY <1>5, <1>6, <1>7 DEF WatchInv

LEMMA WatchStep ==
  IecAssumption /\ TypeOK /\ OrderInv /\ WatchInv /\ [Next]_vars => WatchInv'
<1> SUFFICES ASSUME IecAssumption, TypeOK, OrderInv, WatchInv, [Next]_vars
             PROVE  WatchInv'
  OBVIOUS
<1>1. CASE UFrame
  <2>1. pc = "recv" /\ UNCHANGED <<ssn, seqOf, order, acked>>
    BY <1>1 DEF UFrame, StartDT, StopDT, TestFrAct, TestFrCon, registers, histories
  <2>2. \A e : e.name = "i" => (e \in sentmsgs' <=> e \in sentmsgs)
    BY <1>1 DEF UFrame, StartDT, StopDT, TestFrAct, TestFrCon, WithoutTests
  <2> QED  BY <2>1, <2>2, WatchQuiet DEF Live
<1>2. ASSUME NEW n \in Acks, SFrame(n) \/ \E k \in 0..MaxResponses : IFrame(n, k)
      PROVE  WatchInv'
  BY <1>2, WatchSFrame, WatchIFrame
<1>3. ASSUME NEW k \in 0..MaxResponses, MalformedIFrame(k) PROVE WatchInv'
  <2>1. pc = "recv" /\ UNCHANGED <<ssn, seqOf, order, acked, sentmsgs>>
    BY <1>3 DEF MalformedIFrame, registers, histories
  <2> QED  BY <2>1, WatchQuiet DEF Live
<1>4. CASE SequenceError \/ SendFails \/ T1Fires \/ StationCloses \/ SendTimesOut
  <2>1. ~Live'
    BY <1>4 DEF SequenceError, SendFails, T1Fires, StationCloses, SendTimesOut,
                Disconnect, Live
  <2> QED  BY <2>1 DEF WatchInv, Counting
<1>5. CASE SendNext
  <2>1. Live
    BY <1>5 DEF SendNext, Live
  <2>2. CASE SendConfirmation \/ SendSFrame
    <3>1. UNCHANGED <<ssn, seqOf, order, acked, sentmsgs>>
      BY <2>2 DEF SendConfirmation, SendSFrame, registers, histories
    <3> QED  BY <2>1, <3>1, WatchQuiet
  <2>3. CASE Head(todo).kind = "i" /\ Transmit(Head(todo).frame)
    BY <1>5, <2>3, WatchTransmit
  <2>4. CASE Head(todo).kind = "i" /\ Buffer(Head(todo).frame)
    BY <1>5, <2>4, WatchBuffer
  <2> QED  BY <1>5, <2>2, <2>3, <2>4 DEF SendNext
<1>6. CASE T2Fires
  <2>1. UNCHANGED <<pc, ssn, seqOf, order, acked, sentmsgs>>
    BY <1>6 DEF T2Fires
  <2> QED  BY <2>1, WatchQuiet DEF Live
<1>7. CASE T3Fires
  <2>1. UNCHANGED <<pc, ssn, seqOf, order, acked>>
    BY <1>7 DEF T3Fires, registers, histories
  <2>2. \A e : e.name = "i" => (e \in sentmsgs' <=> e \in sentmsgs)
    <3>1. sentmsgs = {} /\ sentmsgs' = {TestWatch}
      BY <1>7 DEF T3Fires
    <3>2. TestWatch.name # "i"
      BY DEF TestWatch
    <3> QED  BY <3>1, <3>2
  <2> QED  BY <2>1, <2>2, WatchQuiet DEF Live
<1>8. CASE UNCHANGED vars
  <2>1. UNCHANGED <<pc, ssn, seqOf, order, acked, sentmsgs>>
    BY <1>8 DEF vars, registers, histories
  <2> QED  BY <2>1, WatchQuiet DEF Live
<1> QED  BY <1>1, <1>2, <1>3, <1>4, <1>5, <1>6, <1>7, <1>8 DEF Next

LEMMA WatchedIsOwed == TypeOK /\ WatchInv => WatchedAreOwed
<1> SUFFICES ASSUME TypeOK, WatchInv, Counting
             PROVE  {e.tx : e \in {e \in sentmsgs : e.name = "i"}}
                      = (acked + 1) .. Len(order)
  BY DEF WatchedAreOwed, Counting
<1>1. Watched
  BY DEF WatchInv
<1> DEFINE owed == {e \in sentmsgs : e.name = "i"}
<1>2. \A f, k : Watch(f, k).name = "i" /\ Watch(f, k).tx = k
  BY DEF Watch
<1>3. \A e \in sentmsgs : e.name = "i" => e.tx \in (acked + 1)..Len(order)
  BY <1>1 DEF Watched
<1>4. \A k \in (acked + 1)..Len(order) :
        \E e \in sentmsgs : e.name = "i" /\ e.tx = k
  BY <1>1, <1>2 DEF Watched
<1>5. \A k : k \in {e.tx : e \in owed} <=> k \in (acked + 1)..Len(order)
  <2>1. \A e : e \in owed <=> e \in sentmsgs /\ e.name = "i"
    OBVIOUS
  <2> HIDE DEF owed
  <2>2. \A k : k \in {e.tx : e \in owed} <=> \E e \in owed : k = e.tx
    OBVIOUS
  <2> QED  BY <1>3, <1>4, <2>1, <2>2
<1> HIDE DEF owed
<1>6. {e.tx : e \in owed} = (acked + 1)..Len(order)
  BY <1>5
<1> QED  BY <1>6 DEF owed

(* Until the numbers wrap or a frame is sent twice, T1 watches what the    *)
(* station owes and nothing else, however frames of the station, sends     *)
(* and timers interleave and whatever was buffered in between.             *)
THEOREM OwedIsWatched == Spec => []WatchedAreOwed
<1>1. IecAssumption
  BY IecAssumption
<1>2. Init => WatchInv
  <2> SUFFICES ASSUME Init PROVE Numbering /\ Watched
    BY DEF WatchInv
  <2>1. order = <<>> /\ ssn = 0 /\ acked = 0 /\ sentmsgs = {}
    BY DEF Init
  <2>2. Len(order) = 0
    BY <2>1
  <2> QED  BY <2>1, <2>2 DEF Numbering, Watched
<1> QED  BY <1>1, <1>2, OrderInit, OrderStep, WatchStep, WatchedIsOwed, TypeCorrect,
            PTL DEF Spec
=============================================================================
