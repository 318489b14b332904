-------------------------- MODULE BackgroundProofs --------------------------
(***************************************************************************)
(* Two of the background components, for any number of everything.         *)
(*                                                                         *)
(* EntriesKept of ActivityLog, for every set of entries, any capacity of   *)
(* the channel and any number of retries and failing writes.               *)
(*                                                                         *)
(* The counting of EachEntryOnce is inductive only if an entry that is     *)
(* given up or dropped was not counted there before: Apart.  StoredInOrder *)
(* needs the order of the whole pipeline, of which stored is the tail, and *)
(* ShutdownDrains that Shutdown returns with empty hands.                  *)
(*                                                                         *)
(* AttemptsSound of Webhooks follows it.                                   *)
(***************************************************************************)
EXTENDS MCBackground, FiniteSetTheorems, SequenceTheorems, TLAPS

Busy == {r \in Reader : hand[r].entry # NoEntry}

\* No entry is in two places.
Apart ==
  /\ \A i, j \in DOMAIN channel : i # j => channel[i] # channel[j]
  /\ SetOf(channel) \cap (SetOf(stored) \cup dropped \cup lost) = {}
  /\ \A r \in Busy :
       hand[r].entry \notin SetOf(channel) \cup SetOf(stored) \cup dropped \cup lost
  /\ \A r, q \in Busy : r # q => hand[r].entry # hand[q].entry

Countable == IsFiniteSet(dropped) /\ IsFiniteSet(lost)

\* In s, a comes before b.
InOrder(s, a, b) == \E i, j \in DOMAIN s : i < j /\ s[i] = a /\ s[j] = b

\* What is stored, the worker's entry w and the channel are in the order of the calls.
Pipeline(calls, st, w, ch) ==
  /\ \A i, j \in DOMAIN ch : i < j => InOrder(calls, ch[i], ch[j])
  /\ \A i, j \in DOMAIN st : i < j => InOrder(calls, st[i], st[j])
  /\ \A x \in SetOf(st), y \in SetOf(ch) : InOrder(calls, x, y)
  /\ w # NoEntry =>
       /\ \A x \in SetOf(st) : InOrder(calls, x, w)
       /\ \A y \in SetOf(ch) : InOrder(calls, w, y)

Ordered == shutdown = "not_called" => Pipeline(emitted, stored, hand["worker"].entry, channel)

\* Shutdown holds an entry only while it drains the channel.
HandsFree == shutdown # "draining" => "shutdown" \notin Busy

Promised == promised \subseteq SetOf(emitted)

LogInv ==
  /\ TypeOK /\ EachEntryOnce /\ Apart /\ Countable /\ Ordered /\ HandsFree
  /\ Promised /\ ShutdownDrains

-----------------------------------------------------------------------------
(* Sequences and counts.                                                   *)

LEMMA Appended ==
  ASSUME NEW s \in Seq(Entry), NEW e \in Entry
  PROVE  /\ Append(s, e) \in Seq(Entry)
         /\ Len(Append(s, e)) = Len(s) + 1 /\ Len(s) \in Nat
         /\ DOMAIN s = 1 .. Len(s) /\ DOMAIN Append(s, e) = 1 .. Len(s) + 1
         /\ \A i \in 1 .. Len(s) : Append(s, e)[i] = s[i]
         /\ Append(s, e)[Len(s) + 1] = e
         /\ SetOf(Append(s, e)) = SetOf(s) \cup {e}
<1>1. /\ Append(s, e) \in Seq(Entry)
      /\ Len(Append(s, e)) = Len(s) + 1 /\ Len(s) \in Nat
      /\ DOMAIN s = 1 .. Len(s) /\ DOMAIN Append(s, e) = 1 .. Len(s) + 1
      /\ \A i \in 1 .. Len(s) : Append(s, e)[i] = s[i]
      /\ Append(s, e)[Len(s) + 1] = e
  OBVIOUS
<1>2. 1 .. Len(s) + 1 = 1 .. Len(s) \cup {Len(s) + 1}
  BY <1>1
<1>3. SetOf(Append(s, e)) = SetOf(s) \cup {e}
  BY <1>1, <1>2 DEF SetOf
<1> QED
  BY <1>1, <1>3

LEMMA Taken ==
  ASSUME NEW s \in Seq(Entry), s # <<>>
  PROVE  /\ Tail(s) \in Seq(Entry) /\ Head(s) \in Entry
         /\ Len(s) \in Nat /\ Len(s) >= 1 /\ Len(Tail(s)) = Len(s) - 1
         /\ DOMAIN s = 1 .. Len(s) /\ DOMAIN Tail(s) = 1 .. Len(s) - 1
         /\ Head(s) = s[1] /\ \A i \in 1 .. Len(s) - 1 : Tail(s)[i] = s[i + 1]
         /\ SetOf(s) = {Head(s)} \cup SetOf(Tail(s))
<1>1. /\ Tail(s) \in Seq(Entry) /\ Head(s) \in Entry
      /\ Len(s) \in Nat /\ Len(s) >= 1 /\ Len(Tail(s)) = Len(s) - 1
      /\ DOMAIN s = 1 .. Len(s) /\ DOMAIN Tail(s) = 1 .. Len(s) - 1
      /\ Head(s) = s[1] /\ \A i \in 1 .. Len(s) - 1 : Tail(s)[i] = s[i + 1]
  OBVIOUS
<1>2. SetOf(Tail(s)) = {s[i + 1] : i \in 1 .. Len(s) - 1}
  BY <1>1 DEF SetOf
<1>3. \A i \in 1 .. Len(s) : i = 1 \/ (i - 1 \in 1 .. Len(s) - 1 /\ i = (i - 1) + 1)
  BY <1>1
<1>4. SetOf(s) = {Head(s)} \cup SetOf(Tail(s))
  <2>1. SetOf(s) = {s[i] : i \in 1 .. Len(s)}
    BY <1>1 DEF SetOf
  <2>2. \A x \in SetOf(s) : x = Head(s) \/ x \in SetOf(Tail(s))
    <3>. SUFFICES ASSUME NEW i \in 1 .. Len(s)
                  PROVE  s[i] = Head(s) \/ s[i] \in SetOf(Tail(s))
      BY <2>1
    <3>1. CASE i = 1
      BY <1>1, <3>1
    <3>2. CASE i # 1
      <4>1. i - 1 \in 1 .. Len(s) - 1 /\ i = (i - 1) + 1
        BY <1>3, <3>2
      <4>2. s[i] = s[(i - 1) + 1]
        BY <4>1
      <4>3. QED
        BY <1>2, <4>1, <4>2
    <3>3. QED
      BY <3>1, <3>2
  <2>3. Head(s) \in SetOf(s) /\ \A x \in SetOf(Tail(s)) : x \in SetOf(s)
    BY <1>1, <1>2, <2>1
  <2>4. QED
    BY <2>2, <2>3
<1> QED
  BY <1>1, <1>4

LEMMA BusyCount ==
  ASSUME NEW S \in SUBSET Reader, NEW r \in Reader
  PROVE  /\ IsFiniteSet(S) /\ Cardinality(S) \in Nat
         /\ Cardinality(S \cup {r}) = IF r \in S THEN Cardinality(S) ELSE Cardinality(S) + 1
         /\ Cardinality(S \ {r}) = IF r \in S THEN Cardinality(S) - 1 ELSE Cardinality(S)
<1>1. IsFiniteSet(Reader)
  <2>1. IsFiniteSet({"worker"})
    BY FS_Singleton
  <2>2. IsFiniteSet({"worker"} \cup {"shutdown"})
    BY <2>1, FS_AddElement
  <2>3. Reader = {"worker"} \cup {"shutdown"}
    BY DEF Reader
  <2> QED
    BY <2>2, <2>3
<1>2. IsFiniteSet(S)
  BY <1>1, FS_Subset
<1> QED
  BY <1>2, FS_CardinalityType, FS_AddElement, FS_RemoveElement

\* What was in order stays so when e is appended, and e is the last of all.
LEMMA OrderKept ==
  ASSUME NEW s \in Seq(Entry), NEW e \in Entry
  PROVE  /\ \A a, b : InOrder(s, a, b) => InOrder(Append(s, e), a, b)
         /\ \A a \in SetOf(s) : InOrder(Append(s, e), a, e)
<1>1. ASSUME NEW a, NEW b, InOrder(s, a, b) PROVE InOrder(Append(s, e), a, b)
  <2>1. PICK i, j \in DOMAIN s : i < j /\ s[i] = a /\ s[j] = b
    BY <1>1 DEF InOrder
  <2>2. /\ i \in DOMAIN Append(s, e) /\ j \in DOMAIN Append(s, e)
        /\ Append(s, e)[i] = a /\ Append(s, e)[j] = b
    BY <2>1, Appended
  <2> QED
    BY <2>1, <2>2 DEF InOrder
<1>2. ASSUME NEW a \in SetOf(s) PROVE InOrder(Append(s, e), a, e)
  <2>1. PICK i \in DOMAIN s : s[i] = a
    BY DEF SetOf
  <2>2. /\ i \in DOMAIN Append(s, e) /\ Len(s) + 1 \in DOMAIN Append(s, e)
        /\ i < Len(s) + 1 /\ Append(s, e)[i] = a /\ Append(s, e)[Len(s) + 1] = e
    BY <2>1, Appended
  <2> QED
    BY <2>2 DEF InOrder
<1> QED
  BY <1>1, <1>2

\* A new call reaches the channel.
LEMMA PipelineIn ==
  ASSUME NEW calls \in Seq(Entry), NEW st \in Seq(Entry), NEW ch \in Seq(Entry),
         NEW w \in Entry \cup {NoEntry}, NEW e \in Entry,
         Pipeline(calls, st, w, ch),
         SetOf(st) \cup SetOf(ch) \cup ({w} \ {NoEntry}) \subseteq SetOf(calls)
  PROVE  /\ Pipeline(Append(calls, e), st, w, Append(ch, e))
         /\ Pipeline(Append(calls, e), st, w, ch)
<1> DEFINE more == Append(calls, e)
           new == Append(ch, e)
<1>1. \A a, b : InOrder(calls, a, b) => InOrder(more, a, b)
  BY OrderKept
<1>2. \A a \in SetOf(calls) : InOrder(more, a, e)
  BY OrderKept
<1>3. SetOf(new) = SetOf(ch) \cup {e}
  BY Appended
<1>4. ASSUME NEW i \in DOMAIN new, NEW j \in DOMAIN new, i < j
      PROVE  InOrder(more, new[i], new[j])
  <2>1. /\ i \in DOMAIN ch /\ new[i] = ch[i]
        /\ \/ j \in DOMAIN ch /\ new[j] = ch[j]
           \/ new[j] = e
    <3>1. /\ DOMAIN ch = 1 .. Len(ch) /\ DOMAIN new = 1 .. Len(ch) + 1 /\ Len(ch) \in Nat
          /\ \A k \in 1 .. Len(ch) : new[k] = ch[k]
          /\ new[Len(ch) + 1] = e
      BY Appended
    <3>2. i \in 1 .. Len(ch) /\ (j \in 1 .. Len(ch) \/ j = Len(ch) + 1)
      BY <1>4, <3>1
    <3> QED
      BY <3>1, <3>2
  <2>2. ch[i] \in SetOf(calls)
    BY <2>1 DEF SetOf
  <2> HIDE DEF more, new
  <2> QED
    BY <1>1, <1>2, <1>4, <2>1, <2>2 DEF Pipeline
<1> HIDE DEF more, new
<1>5. Pipeline(more, st, w, ch)
  BY <1>1 DEF Pipeline
<1>6. Pipeline(more, st, w, new)
  BY <1>1, <1>2, <1>3, <1>4 DEF Pipeline
<1> QED
  BY <1>5, <1>6 DEF more, new

\* The first of the channel goes to the worker.
LEMMA PipelineTake ==
  ASSUME NEW calls \in Seq(Entry), NEW st \in Seq(Entry), NEW ch \in Seq(Entry),
         ch # <<>>, Pipeline(calls, st, NoEntry, ch)
  PROVE  Pipeline(calls, st, Head(ch), Tail(ch))
<1> DEFINE rest == Tail(ch)
<1>1. /\ Len(ch) \in Nat /\ DOMAIN ch = 1 .. Len(ch) /\ DOMAIN rest = 1 .. Len(ch) - 1
      /\ Len(ch) >= 1
      /\ Head(ch) = ch[1] /\ \A i \in 1 .. Len(ch) - 1 : rest[i] = ch[i + 1]
      /\ SetOf(ch) = {Head(ch)} \cup SetOf(rest)
  BY Taken
<1> HIDE DEF rest
<1>2. ASSUME NEW i \in DOMAIN rest, NEW j \in DOMAIN rest, i < j
      PROVE  InOrder(calls, rest[i], rest[j])
  <2>1. /\ i + 1 \in DOMAIN ch /\ j + 1 \in DOMAIN ch /\ i + 1 < j + 1
        /\ rest[i] = ch[i + 1] /\ rest[j] = ch[j + 1]
    BY <1>1, <1>2
  <2> QED
    BY <2>1 DEF Pipeline
<1>3. ASSUME NEW y \in SetOf(rest) PROVE InOrder(calls, Head(ch), y)
  <2>1. PICK i \in DOMAIN rest : rest[i] = y
    BY DEF SetOf
  <2>2. 1 \in DOMAIN ch /\ i + 1 \in DOMAIN ch /\ 1 < i + 1 /\ ch[i + 1] = y
    BY <1>1, <2>1
  <2> QED
    BY <1>1, <2>2 DEF Pipeline
<1>4. \A x \in SetOf(st) : InOrder(calls, x, Head(ch))
  BY <1>1 DEF Pipeline
<1> QED
  BY <1>1, <1>2, <1>3, <1>4 DEF Pipeline, rest

\* The worker's entry is stored, or given up.
LEMMA PipelineOut ==
  ASSUME NEW calls \in Seq(Entry), NEW st \in Seq(Entry), NEW ch \in Seq(Entry),
         NEW w \in Entry, w # NoEntry, Pipeline(calls, st, w, ch)
  PROVE  /\ Pipeline(calls, Append(st, w), NoEntry, ch)
         /\ Pipeline(calls, st, NoEntry, ch)
<1> DEFINE new == Append(st, w)
<1>1. SetOf(new) = SetOf(st) \cup {w}
  BY Appended
<1>2. ASSUME NEW i \in DOMAIN new, NEW j \in DOMAIN new, i < j
      PROVE  InOrder(calls, new[i], new[j])
  <2>1. /\ i \in DOMAIN st /\ new[i] = st[i]
        /\ \/ j \in DOMAIN st /\ new[j] = st[j]
           \/ new[j] = w
    <3>1. /\ DOMAIN st = 1 .. Len(st) /\ DOMAIN new = 1 .. Len(st) + 1 /\ Len(st) \in Nat
          /\ \A k \in 1 .. Len(st) : new[k] = st[k]
          /\ new[Len(st) + 1] = w
      BY Appended
    <3>2. i \in 1 .. Len(st) /\ (j \in 1 .. Len(st) \/ j = Len(st) + 1)
      BY <1>2, <3>1
    <3> QED
      BY <3>1, <3>2
  <2>2. st[i] \in SetOf(st)
    BY <2>1 DEF SetOf
  <2> HIDE DEF new
  <2> QED
    BY <1>2, <2>1, <2>2 DEF Pipeline
<1> HIDE DEF new
<1>3. Pipeline(calls, new, NoEntry, ch)
  BY <1>1, <1>2 DEF Pipeline
<1> QED
  BY <1>3 DEF Pipeline, new

-----------------------------------------------------------------------------
LEMMA InitLog == ActivityLogAssumption /\ Init => LogInv
<1> SUFFICES ASSUME ActivityLogAssumption, Init PROVE LogInv
  OBVIOUS
<1>1. /\ Busy = {} /\ InHand = {} /\ SetOf(<<>>) = {} /\ Len(<<>>) = 0
      /\ Cardinality({}) = 0 /\ IsFiniteSet({}) /\ <<>> \in Seq(Entry)
  BY FS_EmptySet DEF Init, Busy, InHand, EmptyHand, SetOf, Reader
<1>2. TypeOK
  BY <1>1 DEF Init, TypeOK, ActivityLogAssumption, EmptyHand
<1>3. EachEntryOnce
  <2>1. Cardinality(Busy) = 0
    BY <1>1
  <2>2. SetOf(emitted) = {} /\ SetOf(channel) = {} /\ SetOf(stored) = {}
    BY <1>1 DEF Init
  <2>3. Len(emitted) = 0 /\ Len(channel) = 0 /\ Len(stored) = 0
    BY <1>1 DEF Init
  <2>4. Cardinality(dropped) = 0 /\ Cardinality(lost) = 0
    BY <1>1 DEF Init
  <2>5. dropped = {} /\ lost = {}
    BY DEF Init
  <2> QED
    BY <1>1, <2>1, <2>2, <2>3, <2>4, <2>5 DEF EachEntryOnce, Busy
<1>4. Apart /\ Countable /\ HandsFree /\ Promised /\ ShutdownDrains
  BY <1>1 DEF Init, Apart, Countable, HandsFree, Promised, ShutdownDrains
<1>5. Ordered
  BY <1>1 DEF Init, Ordered, Pipeline, EmptyHand, Reader
<1> QED
  BY <1>2, <1>3, <1>4, <1>5 DEF LogInv

\* What EachEntryOnce counts.
LEMMA LogCounts ==
  ASSUME LogInv
  PROVE  /\ Len(channel) \in Nat /\ Len(stored) \in Nat /\ Len(emitted) \in Nat
         /\ Cardinality(Busy) \in Nat
         /\ Cardinality(dropped) \in Nat /\ Cardinality(lost) \in Nat
         /\ Len(emitted) = Len(channel) + Cardinality(Busy) + Len(stored)
                             + Cardinality(dropped) + Cardinality(lost)
<1>1. Busy \in SUBSET Reader /\ "worker" \in Reader
  BY DEF Busy, Reader
<1>2. Cardinality(Busy) \in Nat
  BY <1>1, BusyCount
<1>3. Cardinality(dropped) \in Nat /\ Cardinality(lost) \in Nat
  BY FS_CardinalityType DEF LogInv, Countable
<1>4. Len(channel) \in Nat /\ Len(stored) \in Nat /\ Len(emitted) \in Nat
  BY DEF LogInv, TypeOK
<1> QED
  BY <1>2, <1>3, <1>4 DEF LogInv, EachEntryOnce, Busy

\* A new entry goes to the channel, or finds it full.
LEMMA LogActivityKeeps ==
  ASSUME ActivityLogAssumption, LogInv, NEW e \in Entry, LogActivity(e)
  PROVE  LogInv'
<1> USE DEF LogInv
<1>1. /\ e \notin SetOf(emitted) /\ emitted' = Append(emitted, e)
      /\ UNCHANGED <<hand, worker, shutdown, stored, lost, promised, failures>>
      /\ emitted \in Seq(Entry) /\ channel \in Seq(Entry) /\ stored \in Seq(Entry)
  BY DEF LogActivity, TypeOK
<1>2. /\ emitted' \in Seq(Entry) /\ SetOf(emitted)' = SetOf(emitted) \cup {e}
      /\ Len(emitted') = Len(emitted) + 1 /\ Len(emitted) \in Nat
  BY <1>1, Appended
<1>3. Busy' = Busy /\ InHand' = InHand /\ SetOf(stored)' = SetOf(stored)
  BY <1>1 DEF Busy, InHand, SetOf
<1>4. /\ SetOf(emitted) = SetOf(channel) \cup InHand \cup SetOf(stored) \cup dropped \cup lost
      /\ Len(emitted) = Len(channel) + Cardinality(Busy) + Len(stored)
                          + Cardinality(dropped) + Cardinality(lost)
  BY DEF EachEntryOnce, Busy
<1>5. /\ Len(channel) \in Nat /\ Len(stored) \in Nat /\ Cardinality(Busy) \in Nat
      /\ Cardinality(dropped) \in Nat /\ Cardinality(lost) \in Nat
  BY LogCounts
<1>6. \A r \in Busy : hand[r].entry \in InHand
  BY DEF Busy, InHand
<1>7. HandsFree' /\ Promised' /\ (IsFiniteSet(lost))'
  BY <1>1, <1>2, <1>3 DEF HandsFree, Promised, Countable
<1>8. Ordered => Pipeline(emitted, stored, hand["worker"].entry, channel)
                   \/ shutdown # "not_called"
  BY DEF Ordered
<1>9. /\ SetOf(stored) \cup SetOf(channel) \cup ({hand["worker"].entry} \ {NoEntry})
           \subseteq SetOf(emitted)
      /\ hand["worker"].entry \in Entry \cup {NoEntry}
  BY <1>4 DEF InHand, Reader, TypeOK
<1>10. CASE channel' = Append(channel, e) /\ dropped' = dropped /\ Len(channel) < Capacity
  <2>1. /\ channel' \in Seq(Entry) /\ SetOf(channel)' = SetOf(channel) \cup {e}
        /\ Len(channel') = Len(channel) + 1
        /\ DOMAIN channel = 1 .. Len(channel) /\ DOMAIN channel' = 1 .. Len(channel) + 1
        /\ \A i \in 1 .. Len(channel) : channel'[i] = channel[i]
        /\ channel'[Len(channel) + 1] = e
    BY <1>1, <1>10, Appended
  <2>2. \A i \in DOMAIN channel' :
          \/ i \in DOMAIN channel /\ channel'[i] = channel[i] /\ channel[i] \in SetOf(channel)
          \/ i = Len(channel) + 1 /\ channel'[i] = e
    BY <1>5, <2>1 DEF SetOf
  <2>3. TypeOK'
    BY <1>1, <1>2, <1>10, <2>1 DEF TypeOK, ActivityLogAssumption
  <2>4. EachEntryOnce'
    BY SMTT(30), <1>2, <1>3, <1>4, <1>5, <1>10, <1>1, <2>1 DEF EachEntryOnce, Busy
  <2>5. Apart'
    <3>1. \A i, j \in DOMAIN channel' : i # j => channel'[i] # channel'[j]
      BY <1>1, <1>4, <2>2 DEF Apart
    <3>2. SetOf(channel)' \cap (SetOf(stored)' \cup dropped' \cup lost') = {}
      BY <1>1, <1>3, <1>4, <1>10, <2>1 DEF Apart
    <3>3. \A r \in Busy' :
            hand'[r].entry \notin SetOf(channel)' \cup SetOf(stored)' \cup dropped' \cup lost'
      BY <1>1, <1>3, <1>4, <1>6, <1>10, <2>1 DEF Apart
    <3>4. \A r, q \in Busy' : r # q => hand'[r].entry # hand'[q].entry
      BY <1>1, <1>3 DEF Apart
    <3> QED
      BY <3>1, <3>2, <3>3, <3>4 DEF Apart
  <2>6. Ordered'
    BY <1>1, <1>8, <1>9, <1>10, PipelineIn DEF Ordered
  <2>7. ShutdownDrains'
    BY <1>1, <1>3, <1>10 DEF ShutdownDrains
  <2> QED
    BY <1>7, <1>10, <2>3, <2>4, <2>5, <2>6, <2>7 DEF Countable
<1>11. CASE channel' = channel /\ dropped' = dropped \cup {e}
  <2>1. SetOf(channel)' = SetOf(channel)
    BY <1>11 DEF SetOf
  <2>2. e \notin dropped /\ IsFiniteSet(dropped')
        /\ Cardinality(dropped') = Cardinality(dropped) + 1
    BY <1>1, <1>4, <1>11, FS_AddElement DEF Countable
  <2>3. TypeOK'
    BY <1>1, <1>2, <1>11 DEF TypeOK
  <2>4. EachEntryOnce'
    BY <1>1, <1>2, <1>3, <1>4, <1>5, <1>11, <2>1, <2>2 DEF EachEntryOnce, Busy
  <2>5. Apart'
    BY <1>1, <1>3, <1>4, <1>6, <1>11, <2>1 DEF Apart
  <2>6. Ordered'
    BY <1>1, <1>8, <1>9, <1>11, PipelineIn DEF Ordered
  <2>7. ShutdownDrains'
    BY <1>1, <1>3, <1>11 DEF ShutdownDrains
  <2> QED
    BY <1>7, <2>2, <2>3, <2>4, <2>5, <2>6, <2>7 DEF Countable
<1> QED
  BY <1>10, <1>11 DEF LogActivity

\* One of the two readers takes the first entry of the channel.
LEMMA ReceiveKeeps ==
  ASSUME ActivityLogAssumption, LogInv, NEW r \in Reader, Receive(r),
         r = "shutdown" => shutdown = "draining",
         UNCHANGED <<worker, shutdown, emitted, stored, dropped, lost, promised, failures>>
  PROVE  LogInv'
<1> USE DEF LogInv
<1> DEFINE first == Head(channel)
<1>1. /\ hand[r].entry = NoEntry /\ channel # <<>>
      /\ hand' = [hand EXCEPT ![r].entry = first] /\ channel' = Tail(channel)
      /\ UNCHANGED <<worker, shutdown, emitted, stored, dropped, lost, promised, failures>>
      /\ channel \in Seq(Entry)
      /\ hand \in [Reader -> [entry : Entry \cup {NoEntry}, attempt : 1 .. MaxRetries]]
  BY DEF Receive, EmptyHand, TypeOK
<1>2. /\ channel' \in Seq(Entry) /\ first \in Entry
      /\ Len(channel) \in Nat /\ Len(channel) >= 1 /\ Len(channel') = Len(channel) - 1
      /\ DOMAIN channel = 1 .. Len(channel) /\ DOMAIN channel' = 1 .. Len(channel) - 1
      /\ first = channel[1] /\ \A i \in 1 .. Len(channel) - 1 : channel'[i] = channel[i + 1]
      /\ SetOf(channel) = {first} \cup SetOf(channel)'
  BY <1>1, Taken
<1> HIDE DEF first
<1>3. /\ first # NoEntry /\ first \in SetOf(channel)
      /\ hand'[r].entry = first
      /\ \A q \in Reader \ {r} : hand'[q] = hand[q]
  BY <1>1, <1>2 DEF ActivityLogAssumption
<1>4. /\ Busy' = Busy \cup {r} /\ r \notin Busy
      /\ InHand' = InHand \cup {first} /\ SetOf(stored)' = SetOf(stored)
      /\ SetOf(emitted)' = SetOf(emitted)
  BY <1>1, <1>3 DEF Busy, InHand, SetOf
<1>5. Cardinality(Busy') = Cardinality(Busy) + 1 /\ Cardinality(Busy) \in Nat
  <2>1. Busy \in SUBSET Reader
    BY DEF Busy
  <2> QED
    BY <1>4, <2>1, BusyCount
<1>6. TypeOK'
  <2>1. [hand[r] EXCEPT !.entry = first]
          \in [entry : Entry \cup {NoEntry}, attempt : 1 .. MaxRetries]
    BY <1>1, <1>2
  <2>2. hand' \in [Reader -> [entry : Entry \cup {NoEntry}, attempt : 1 .. MaxRetries]]
    BY <1>1, <2>1
  <2>3. Len(channel') <= Capacity
    BY <1>2 DEF TypeOK, ActivityLogAssumption
  <2> QED
    BY <1>1, <1>2, <2>2, <2>3 DEF TypeOK
<1>7. EachEntryOnce'
  <2>1. SetOf(emitted)' = SetOf(channel)' \cup InHand' \cup SetOf(stored)' \cup dropped' \cup lost'
    BY <1>1, <1>2, <1>4 DEF EachEntryOnce
  <2>2. Len(emitted') = Len(channel') + Cardinality(Busy') + Len(stored')
                          + Cardinality(dropped') + Cardinality(lost')
    BY <1>1, <1>2, <1>5, LogCounts
  <2> QED
    BY <2>1, <2>2 DEF EachEntryOnce, Busy
<1>8. Apart'
  <2>1. \A i \in DOMAIN channel' :
          /\ i + 1 \in DOMAIN channel /\ channel'[i] = channel[i + 1]
          /\ i + 1 # 1 /\ 1 \in DOMAIN channel
    BY <1>2
  <2>2. \A i, j \in DOMAIN channel' : i # j => i + 1 # j + 1
    BY <1>2
  <2>3. \A i, j \in DOMAIN channel' : i # j => channel'[i] # channel'[j]
    BY <2>1, <2>2 DEF Apart
  <2>4. first \notin SetOf(channel)'
    BY <1>2, <2>1 DEF Apart, SetOf
  <2>5. SetOf(channel)' \cap (SetOf(stored)' \cup dropped' \cup lost') = {}
    BY <1>1, <1>2, <1>4 DEF Apart
  <2>6. \A q \in Busy : hand'[q].entry = hand[q].entry /\ hand[q].entry # first
    BY <1>3, <1>4 DEF Apart, Busy
  <2>7. ASSUME NEW q \in Busy'
        PROVE  hand'[q].entry \notin SetOf(channel)' \cup SetOf(stored)' \cup dropped' \cup lost'
    <3>1. CASE q = r
      BY <1>1, <1>3, <1>4, <2>4, <3>1 DEF Apart
    <3>2. CASE q \in Busy
      BY <1>1, <1>2, <1>4, <2>6, <3>2 DEF Apart
    <3> QED
      BY <1>4, <2>7, <3>1, <3>2
  <2>8. \A q, p \in Busy' : q # p => hand'[q].entry # hand'[p].entry
    BY <1>3, <1>4, <2>6 DEF Apart
  <2> QED
    BY <2>3, <2>5, <2>7, <2>8 DEF Apart
<1>9. Ordered'
  <2> SUFFICES ASSUME shutdown' = "not_called"
               PROVE  Pipeline(emitted', stored', hand'["worker"].entry, channel')
    BY DEF Ordered
  <2>1. r = "worker" /\ Pipeline(emitted, stored, NoEntry, channel)
    BY <1>1 DEF Ordered, Reader
  <2>2. Pipeline(emitted, stored, first, Tail(channel))
    BY <1>1, <2>1, PipelineTake DEF TypeOK, first
  <2> QED
    BY <1>1, <1>3, <2>1, <2>2
<1>10. HandsFree' /\ Promised' /\ Countable'
  BY <1>1, <1>4 DEF HandsFree, Promised, Countable, Reader
<1>11. ShutdownDrains'
  BY <1>1, <1>4 DEF ShutdownDrains, TypeOK, ActivityLogAssumption, Reader
<1> QED
  BY <1>6, <1>7, <1>8, <1>9, <1>10, <1>11

\* A reader's entry is written, or given up: its hand is empty again.
Settled(r) ==
  /\ hand' = [hand EXCEPT ![r] = EmptyHand]
  /\ \/ stored' = Append(stored, hand[r].entry) /\ lost' = lost /\ failures' = failures
     \/ /\ stored' = stored /\ lost' = lost \cup {hand[r].entry}
        /\ failures' = failures + 1 /\ failures < MaxFailures
  /\ UNCHANGED <<channel, worker, shutdown, emitted, dropped, promised>>

LEMMA SettledKeeps ==
  ASSUME ActivityLogAssumption, LogInv, NEW r \in Reader, r \in Busy, Settled(r)
  PROVE  LogInv'
<1> USE DEF LogInv
<1> DEFINE done == hand[r].entry
<1>0. /\ hand' = [hand EXCEPT ![r] = EmptyHand]
      /\ UNCHANGED <<channel, worker, shutdown, emitted, dropped, promised>>
      /\ \/ stored' = Append(stored, done) /\ lost' = lost /\ failures' = failures
         \/ /\ stored' = stored /\ lost' = lost \cup {done}
            /\ failures' = failures + 1 /\ failures < MaxFailures
  BY DEF Settled
<1>1. /\ done \in Entry /\ done \in SetOf(emitted)
      /\ done \notin SetOf(channel) \cup SetOf(stored) \cup dropped \cup lost
      /\ \A q \in Busy \ {r} : hand[q].entry # done
      /\ stored \in Seq(Entry) /\ channel \in Seq(Entry) /\ emitted \in Seq(Entry)
      /\ hand \in [Reader -> [entry : Entry \cup {NoEntry}, attempt : 1 .. MaxRetries]]
  BY DEF Busy, TypeOK, Apart, EachEntryOnce, InHand
<1>2. hand'[r] = EmptyHand /\ \A q \in Reader \ {r} : hand'[q] = hand[q]
  BY <1>0, <1>1
<1>3. /\ Busy' = Busy \ {r}
      /\ InHand' = InHand \ {done} /\ done \in InHand
      /\ SetOf(channel)' = SetOf(channel) /\ SetOf(emitted)' = SetOf(emitted)
  BY <1>0, <1>1, <1>2 DEF Busy, InHand, SetOf, EmptyHand
<1>4. Cardinality(Busy') = Cardinality(Busy) - 1
  <2>1. Busy \in SUBSET Reader
    BY DEF Busy
  <2> QED
    BY <1>3, <2>1, BusyCount
<1>5. /\ SetOf(stored)' \cup lost' = SetOf(stored) \cup lost \cup {done}
      /\ Len(stored') + Cardinality(lost') = Len(stored) + Cardinality(lost) + 1
      /\ Len(stored') \in Nat /\ Cardinality(lost') \in Nat
      /\ stored' \in Seq(Entry) /\ lost' \subseteq Entry /\ IsFiniteSet(lost')
      /\ failures' \in 0 .. MaxFailures
  <2>1. failures' \in 0 .. MaxFailures
    BY <1>0 DEF TypeOK, ActivityLogAssumption
  <2>2. CASE stored' = Append(stored, done) /\ lost' = lost
    <3>1. /\ stored' \in Seq(Entry) /\ SetOf(stored)' = SetOf(stored) \cup {done}
          /\ Len(stored') = Len(stored) + 1
      BY <1>1, <2>2, Appended
    <3>2. lost \subseteq Entry /\ IsFiniteSet(lost)
      BY DEF TypeOK, Countable
    <3>3. Len(stored) \in Nat /\ Cardinality(lost) \in Nat
      BY LogCounts
    <3> HIDE DEF done
    <3> QED
      BY <2>1, <2>2, <3>1, <3>2, <3>3
  <2>3. CASE stored' = stored /\ lost' = lost \cup {done}
    <3>1. IsFiniteSet(lost') /\ Cardinality(lost') = Cardinality(lost) + 1
      BY <1>1, <2>3, FS_AddElement DEF Countable
    <3>2. SetOf(stored)' = SetOf(stored)
      BY <2>3 DEF SetOf
    <3>3. lost' \subseteq Entry
      BY <1>1, <2>3 DEF TypeOK
    <3>4. Len(stored) \in Nat /\ Cardinality(lost) \in Nat
      BY LogCounts
    <3> HIDE DEF done
    <3> QED
      BY <1>1, <2>1, <2>3, <3>1, <3>2, <3>3, <3>4
  <2> QED
    BY <1>0, <2>2, <2>3
<1>6. TypeOK'
  BY SMTT(30), <1>0, <1>1, <1>2, <1>5 DEF TypeOK, EmptyHand, ActivityLogAssumption
<1>7. EachEntryOnce'
  <2>1. SetOf(emitted)' = SetOf(channel)' \cup InHand' \cup SetOf(stored)' \cup dropped' \cup lost'
    BY <1>0, <1>3, <1>5 DEF EachEntryOnce
  <2>2. Len(emitted') = Len(channel') + Cardinality(Busy') + Len(stored')
                          + Cardinality(dropped') + Cardinality(lost')
    <3>1. /\ Len(emitted') = Len(emitted) /\ Len(channel') = Len(channel)
          /\ Cardinality(dropped') = Cardinality(dropped)
      BY <1>0
    <3>2. Len(stored') + Cardinality(lost') = Len(stored) + Cardinality(lost) + 1
      BY <1>5
    <3>3. Cardinality(Busy') = Cardinality(Busy) - 1
      BY <1>4
    <3>4. Len(emitted) = Len(channel) + Cardinality(Busy) + Len(stored)
                              + Cardinality(dropped) + Cardinality(lost)
      BY LogCounts
    <3>5. /\ Len(channel) \in Nat /\ Len(stored) \in Nat
         /\ Cardinality(Busy) \in Nat
         /\ Cardinality(dropped) \in Nat /\ Cardinality(lost) \in Nat
      BY LogCounts
    <3>6. Len(stored') \in Nat /\ Cardinality(lost') \in Nat
      BY <1>5
    <3> HIDE DEF LogInv
    <3>7. Len(emitted) = Len(channel') + (Cardinality(Busy') + 1)
                            + (Len(stored) + Cardinality(lost)) + Cardinality(dropped')
      BY <3>1, <3>3, <3>4, <3>5
    <3> QED
      BY SMTT(30), <3>1, <3>2, <3>3, <3>5, <3>6, <3>7
  <2> QED
    BY <2>1, <2>2 DEF EachEntryOnce, Busy
<1>8. Apart'
  <2>1. \A q \in Busy' : q \in Busy /\ q # r /\ hand'[q].entry = hand[q].entry
    BY <1>2, <1>3 DEF Busy
  <2>2. \A i, j \in DOMAIN channel' : i # j => channel'[i] # channel'[j]
    BY <1>0 DEF Apart
  <2>3. SetOf(channel)' \cap (SetOf(stored)' \cup dropped' \cup lost') = {}
    BY <1>0, <1>1, <1>3, <1>5 DEF Apart
  <2>4. \A q \in Busy' :
          hand'[q].entry \notin SetOf(channel)' \cup SetOf(stored)' \cup dropped' \cup lost'
    BY <1>0, <1>1, <1>3, <1>5, <2>1 DEF Apart
  <2>5. \A q, p \in Busy' : q # p => hand'[q].entry # hand'[p].entry
    BY <2>1 DEF Apart
  <2> QED
    BY <2>2, <2>3, <2>4, <2>5 DEF Apart
<1>9. Ordered'
  <2> SUFFICES ASSUME shutdown' = "not_called"
               PROVE  Pipeline(emitted', stored', hand'["worker"].entry, channel')
    BY DEF Ordered
  <2>1. r = "worker" /\ Pipeline(emitted, stored, done, channel) /\ done # NoEntry
    BY <1>0, <1>1 DEF Ordered, Reader, HandsFree, ActivityLogAssumption
  <2>2. /\ Pipeline(emitted, Append(stored, done), NoEntry, channel)
        /\ Pipeline(emitted, stored, NoEntry, channel)
    BY <1>1, <2>1, PipelineOut
  <2>3. hand'["worker"].entry = NoEntry /\ emitted' = emitted /\ channel' = channel
    BY <1>0, <1>2, <2>1 DEF EmptyHand
  <2>4. stored' = Append(stored, done) \/ stored' = stored
    BY <1>0
  <2> QED
    BY <2>2, <2>3, <2>4
<1>10. HandsFree' /\ Promised' /\ Countable'
  BY <1>0, <1>3, <1>5 DEF HandsFree, Promised, Countable
<1>11. ShutdownDrains'
  <2> SUFFICES ASSUME shutdown' = "complete"
               PROVE  promised' \subseteq SetOf(stored)' \cup dropped' \cup lost'
                                            \cup {hand'["worker"].entry}
    BY DEF ShutdownDrains
  <2>1. r = "worker"
    BY <1>0 DEF HandsFree, Reader
  <2> QED
    BY <1>0, <1>5, <2>1 DEF ShutdownDrains
<1> QED
  BY <1>6, <1>7, <1>8, <1>9, <1>10, <1>11

\* Nothing changes places.
LEMMA QuietKeeps ==
  ASSUME LogInv, UNCHANGED <<channel, emitted, stored, dropped, lost>>,
         \A r \in Reader : hand'[r].entry = hand[r].entry,
         shutdown' = "not_called" => shutdown = "not_called"
  PROVE  /\ EachEntryOnce' /\ Apart' /\ Countable' /\ Ordered'
         /\ Busy' = Busy /\ SetOf(emitted)' = SetOf(emitted)
         /\ SetOf(stored)' = SetOf(stored)
<1>1. /\ Busy' = Busy /\ InHand' = InHand /\ SetOf(emitted)' = SetOf(emitted)
      /\ SetOf(stored)' = SetOf(stored) /\ SetOf(channel)' = SetOf(channel)
  BY DEF Busy, InHand, SetOf
<1>2. EachEntryOnce'
  <2>1. SetOf(emitted) = SetOf(channel) \cup InHand \cup SetOf(stored) \cup dropped \cup lost
    BY DEF LogInv, EachEntryOnce
  <2>2. Len(emitted) = Len(channel) + Cardinality(Busy) + Len(stored)
                          + Cardinality(dropped) + Cardinality(lost)
    BY LogCounts
  <2> QED
    BY <1>1, <2>1, <2>2 DEF EachEntryOnce, Busy
<1>3. Apart'
  <2>1. \A r \in Busy : hand'[r].entry = hand[r].entry
    BY DEF Busy
  <2> QED
    BY <1>1, <2>1 DEF LogInv, Apart
<1>4. Countable' /\ Ordered'
  BY DEF LogInv, Countable, Ordered, Reader
<1> QED
  BY <1>1, <1>2, <1>3, <1>4

LEMMA NextLog == ActivityLogAssumption /\ LogInv /\ [Next]_vars => LogInv'
<1> SUFFICES ASSUME ActivityLogAssumption, LogInv, [Next]_vars PROVE LogInv'
  OBVIOUS
<1>1. ASSUME NEW e \in Entry, LogActivity(e) PROVE LogInv'
  BY <1>1, LogActivityKeeps
<1>2. CASE WorkerReceive
  BY <1>2, ReceiveKeeps DEF WorkerReceive, Reader
<1>3. CASE ShutdownReceive
  BY <1>3, ReceiveKeeps DEF ShutdownReceive, Reader
<1>4. ASSUME NEW r \in Reader, Create(r) PROVE LogInv'
  <2>1. r \in Busy /\ Settled(r)
    BY <1>4 DEF Create, Settled, Busy
  <2> QED
    BY <2>1, SettledKeeps
<1>5. ASSUME NEW r \in Reader, CreateFails(r) PROVE LogInv'
  <2>1. CASE hand[r].attempt < MaxRetries
    <3>1. /\ hand' = [hand EXCEPT ![r].attempt = @ + 1] /\ failures' = failures + 1
          /\ failures < MaxFailures
          /\ UNCHANGED <<channel, worker, shutdown, emitted, stored, dropped, lost, promised>>
          /\ hand \in [Reader -> [entry : Entry \cup {NoEntry}, attempt : 1 .. MaxRetries]]
      BY <1>5, <2>1 DEF CreateFails, LogInv, TypeOK
    <3>2. \A q \in Reader : hand'[q].entry = hand[q].entry
      BY <3>1
    <3>3. TypeOK'
      <4>1. [hand[r] EXCEPT !.attempt = @ + 1]
              \in [entry : Entry \cup {NoEntry}, attempt : 1 .. MaxRetries]
        BY <2>1, <3>1 DEF ActivityLogAssumption
      <4>2. hand' \in [Reader -> [entry : Entry \cup {NoEntry}, attempt : 1 .. MaxRetries]]
        BY <3>1, <4>1
      <4> QED
        BY <3>1, <4>2 DEF LogInv, TypeOK, ActivityLogAssumption
    <3>4. /\ EachEntryOnce' /\ Apart' /\ Countable' /\ Ordered'
          /\ Busy' = Busy /\ SetOf(emitted)' = SetOf(emitted)
          /\ SetOf(stored)' = SetOf(stored)
      BY <3>1, <3>2, QuietKeeps
    <3> QED
      BY <3>1, <3>2, <3>3, <3>4 DEF LogInv, HandsFree, Promised, ShutdownDrains, Reader
  <2>2. CASE ~ (hand[r].attempt < MaxRetries)
    <3>1. r \in Busy /\ Settled(r)
      BY <1>5, <2>2 DEF CreateFails, Settled, Busy
    <3> QED
      BY <3>1, SettledKeeps
  <2> QED
    BY <2>1, <2>2
<1>6. ASSUME \/ WorkerDone \/ Shutdown \/ ShutdownComplete \/ ShutdownTimeout
             \/ UNCHANGED vars
      PROVE  LogInv'
  <2>1. /\ UNCHANGED <<channel, hand, emitted, stored, dropped, lost, failures>>
        /\ shutdown' = "not_called" => shutdown = "not_called"
    BY <1>6 DEF WorkerDone, Shutdown, ShutdownComplete, ShutdownTimeout, vars
  <2>2. /\ EachEntryOnce' /\ Apart' /\ Countable' /\ Ordered'
        /\ Busy' = Busy /\ SetOf(emitted)' = SetOf(emitted)
        /\ SetOf(stored)' = SetOf(stored)
    BY <2>1, QuietKeeps
  <2>3. SetOf(emitted) \subseteq Entry
    BY DEF LogInv, TypeOK, SetOf
  <2>4. CASE WorkerDone \/ UNCHANGED vars
    BY <2>1, <2>2, <2>4
       DEF WorkerDone, vars, LogInv, TypeOK, HandsFree, Promised, ShutdownDrains
  <2>5. CASE Shutdown
    BY <2>1, <2>2, <2>3, <2>5
       DEF Shutdown, LogInv, TypeOK, HandsFree, Promised, ShutdownDrains
  <2>6. CASE ShutdownComplete
    <3>1. "shutdown" \notin Busy /\ SetOf(channel) = {}
      BY <2>6 DEF ShutdownComplete, Busy, EmptyHand, SetOf
    <3>2. InHand \subseteq {hand["worker"].entry}
      BY <3>1 DEF InHand, Busy, Reader
    <3>3. promised \subseteq SetOf(stored) \cup dropped \cup lost \cup {hand["worker"].entry}
      BY <3>1, <3>2 DEF LogInv, Promised, EachEntryOnce
    <3> QED
      BY <2>1, <2>2, <2>6, <3>1, <3>3
         DEF ShutdownComplete, LogInv, TypeOK, HandsFree, Promised, ShutdownDrains
  <2>7. CASE ShutdownTimeout
    <3>1. "shutdown" \notin Busy
      BY <2>7 DEF ShutdownTimeout, Busy, EmptyHand
    <3> QED
      BY <2>1, <2>2, <2>7, <3>1
         DEF ShutdownTimeout, LogInv, TypeOK, HandsFree, Promised, ShutdownDrains
  <2> QED
    BY <1>6, <2>4, <2>5, <2>6, <2>7
<1> QED
  BY <1>1, <1>2, <1>3, <1>4, <1>5, <1>6 DEF Next, Process

\* No entry vanishes, none is written twice or overtakes another before Shutdown adds a
\* second reader, and a Shutdown that reports success has drained the channel, whatever
\* the channel's capacity and however often writes fail (log/service.go:122-339, 364).
THEOREM EntriesAreKept == ASSUME ActivityLogAssumption PROVE Spec => []EntriesKept
<1>1. LogInv => EntriesKept
  BY DEF LogInv, EntriesKept, Ordered, Pipeline, StoredInOrder, InOrder, Before
<1> QED
  BY <1>1, InitLog, NextLog, PTL DEF Spec

-----------------------------------------------------------------------------
(* A drop happens under pressure only.                                     *)

\* A sequence without repetitions has as many elements as places.
LEMMA SizeOfDistinct ==
  ASSUME NEW s \in Seq(Entry), \A i, j \in DOMAIN s : i # j => s[i] # s[j]
  PROVE  Cardinality(SetOf(s)) = Len(s)
<1>1. Len(s) \in Nat /\ DOMAIN s = 1 .. Len(s) /\ s = [i \in 1 .. Len(s) |-> s[i]]
  OBVIOUS
<1>2. s \in [1 .. Len(s) -> SetOf(s)]
  BY <1>1 DEF SetOf
<1>3. \A x \in SetOf(s) : \E i \in 1 .. Len(s) : s[i] = x
  BY <1>1 DEF SetOf
<1>4. s \in Bijection(1 .. Len(s), SetOf(s))
  BY <1>1, <1>2, <1>3 DEF Bijection, Injection, Surjection, IsInjective
<1>5. ExistsBijection(1 .. Len(s), SetOf(s))
  BY <1>4 DEF ExistsBijection
<1> QED
  BY <1>1, <1>5, FS_CountingElements

LEMMA SetOfFinite ==
  ASSUME NEW s \in Seq(Entry)
  PROVE  IsFiniteSet(SetOf(s))
<1>1. Len(s) \in Nat /\ DOMAIN s = 1 .. Len(s)
  OBVIOUS
<1>2. IsFiniteSet(1 .. Len(s))
  BY <1>1, FS_Interval
<1>3. s \in Surjection(1 .. Len(s), SetOf(s))
  BY <1>1 DEF Surjection, SetOf
<1> QED
  BY <1>2, <1>3, FS_Surjection

\* An entry is dropped only while Capacity entries logged before it are not settled, for
\* every capacity: the channel never loses count of its places (log/service.go:196-205).
THEOREM DropsNeedABacklog == ASSUME ActivityLogAssumption PROVE Spec => DroppedUnderPressure
<1> DEFINE backlog == {x \in SetOf(emitted) : x \notin SetOf(stored) \cup dropped \cup lost}
<1>1. ASSUME LogInv, [Next]_vars
      PROVE  [\A e \in dropped' \ dropped : Capacity <= Cardinality(backlog)]_vars
  <2> SUFFICES ASSUME NEW e \in dropped' \ dropped PROVE Capacity <= Cardinality(backlog)
    OBVIOUS
  <2>1. PICK x \in Entry : LogActivity(x)
    BY <1>1 DEF Next, vars, WorkerReceive, WorkerDone, Process, Create, CreateFails, Shutdown,
                ShutdownReceive, ShutdownComplete, ShutdownTimeout
  <2>2. Len(channel) = Capacity /\ channel \in Seq(Entry) /\ emitted \in Seq(Entry)
    BY <1>1, <2>1 DEF LogActivity, LogInv, TypeOK, ActivityLogAssumption
  <2>3. Cardinality(SetOf(channel)) = Capacity
    BY <1>1, <2>2, SizeOfDistinct DEF LogInv, Apart
  <2>4. SetOf(channel) \subseteq backlog
    BY <1>1 DEF LogInv, Apart, EachEntryOnce
  <2>5. IsFiniteSet(backlog)
    <3>1. IsFiniteSet(SetOf(emitted)) /\ backlog \subseteq SetOf(emitted)
      BY <2>2, SetOfFinite
    <3> HIDE DEF backlog
    <3> QED
      BY <3>1, FS_Subset
  <2> HIDE DEF backlog
  <2> QED
    BY <2>3, <2>4, <2>5, FS_Subset
<1>2. DroppedUnderPressure <=>
        [][\A e \in dropped' \ dropped : Capacity <= Cardinality(backlog)]_vars
  BY DEF DroppedUnderPressure
<1> HIDE DEF backlog
<1> QED
  BY <1>1, <1>2, InitLog, NextLog, PTL DEF Spec
-----------------------------------------------------------------------------
(***************************************************************************)
(* AttemptsSound of Webhooks, for any number of events, endpoints, retries *)
(* and failures.  It is not inductive: that a retry replaces the attempt   *)
(* it follows needs what the worker holds, between its poll and the clear  *)
(* of a schedule, to be scheduled still, and each row once.                *)
(***************************************************************************)

\* The attempts of an event that are under way or scheduled, in a log.
Underway(r) ==
  \/ r.state \in {"posting", "answered"}
  \/ r.state = "stored" /\ r.retry # "never"
PendingIn(s, e) == {i \in DOMAIN s : s[i].event = e /\ Underway(s[i])}

\* A scheduled attempt is a stored failure, and not the last one.
ScheduledRows ==
  \A i \in DOMAIN log :
    /\ log[i].event \in sent
    /\ log[i].retry # "never" =>
         log[i].state = "stored" /\ ~ log[i].success /\ log[i].attempt < MaxAttempts

\* The batch of the worker: rows that are due, each once.
BatchDue ==
  /\ retrier.verdict # "none" => retrier.todo # <<>>
  /\ \A k \in DOMAIN retrier.todo :
       retrier.todo[k] \in DOMAIN log /\ log[retrier.todo[k]].retry = "due"
  /\ \A j, k \in DOMAIN retrier.todo : retrier.todo[j] = retrier.todo[k] => j = k

OneAtATime ==
  \A e \in Message :
    IsFiniteSet(PendingIn(log, e)) /\ Cardinality(PendingIn(log, e)) <= 1 + errors

NotAfterAccepted ==
  errors = 0 => \A i, j \in DOMAIN log :
    log[i].event = log[j].event /\ log[i].success /\ Underway(log[j])
      => i = j

WebhookInv ==
  /\ W!TypeOK /\ ScheduledRows /\ BatchDue /\ OneAtATime /\ NotAfterAccepted
  /\ W!AttemptsInOrder


-----------------------------------------------------------------------------
(* What the rows and the worker are made of. *)

LEMMA LogTyped ==
  ASSUME W!TypeOK
  PROVE  /\ log \in Seq(W!Attempt) /\ Len(log) \in Nat /\ DOMAIN log = 1 .. Len(log)
         /\ Len(log) <= MaxDeliveries
         /\ retrier \in W!Worker
         /\ \A i \in DOMAIN log : log[i] \in W!Attempt
<1>1. log \in Seq(W!Attempt) /\ Len(log) <= MaxDeliveries /\ retrier \in W!Worker
  BY Zenon DEF W!TypeOK
<1>. HIDE DEF W!Attempt
<1>2. QED
  BY <1>1

LEMMA CountsTyped ==
  ASSUME W!TypeOK
  PROVE  /\ errors \in Nat /\ errors <= MaxErrors
         /\ MaxErrors \in Nat /\ MaxAttempts \in Nat /\ MaxAttempts >= 1
         /\ MaxDeliveries \in Nat /\ PollLimit \in Nat /\ PollLimit >= 1
         /\ MaxToggles \in Nat /\ MaxCrashes \in Nat
<1>1. errors \in 0 .. MaxErrors
  BY Zenon DEF W!TypeOK
<1>2. W!WebhooksAssumption
  BY BackgroundAssumption, Zenon
<1>3. QED
  BY <1>1, <1>2 DEF W!WebhooksAssumption

LEMMA AttemptTyped ==
  ASSUME NEW r \in W!Attempt
  PROVE  /\ r.state \in {"posting", "answered", "stored", "lost"}
         /\ r.event \in Message /\ r.ep \in Endpoint
         /\ r.attempt \in 1 .. MaxAttempts /\ r.success \in BOOLEAN
         /\ r.retry \in {"never", "later", "due"}
BY DEF W!Attempt

LEMMA WorkerTyped ==
  ASSUME W!TypeOK
  PROVE  /\ retrier.todo \in Seq(1 .. MaxDeliveries)
         /\ retrier.verdict \in {"none", "retry", "drop"}
         /\ retrier = [todo |-> retrier.todo, verdict |-> retrier.verdict]
<1>1. retrier \in [todo : Seq(1 .. MaxDeliveries), verdict : {"none", "retry", "drop"}]
  BY Zenon, LogTyped DEF W!Worker
<1>. DEFINE T == Seq(1 .. MaxDeliveries)
<1>2. retrier \in [todo : T, verdict : {"none", "retry", "drop"}]
  BY <1>1
<1>. HIDE DEF T
<1>3. /\ retrier.todo \in T /\ retrier.verdict \in {"none", "retry", "drop"}
      /\ retrier = [todo |-> retrier.todo, verdict |-> retrier.verdict]
  BY <1>2
<1>4. QED
  BY <1>3 DEF T

\* The count of the pending attempts, read off the set.
LEMMA PendingCount ==
  ASSUME NEW e
  PROVE  W!Pending(e) = PendingIn(log, e)
BY DEF W!Pending, W!Unanswered, W!Scheduled, PendingIn, Underway

LEMMA PendingFinite ==
  ASSUME W!TypeOK, NEW e
  PROVE  IsFiniteSet(PendingIn(log, e))
<1>1. IsFiniteSet(1 .. Len(log))
  BY LogTyped, FS_Interval
<1>2. PendingIn(log, e) \subseteq 1 .. Len(log)
  BY LogTyped DEF PendingIn
<1>3. QED
  BY <1>1, <1>2, FS_Subset

\* The number of pending attempts the invariant allows.
LEMMA WhatIsSound ==
  ASSUME WebhookInv
  PROVE  W!AttemptsSound
<1>1. W!OneAttemptAtATime
  <2>1. \A S : W!Cardinality(S) = Cardinality(S)
    BY Zenon DEF W!Cardinality, Cardinality
  <2>2. \A e \in Message : Cardinality(PendingIn(log, e)) <= 1 + errors
    BY Zenon DEF WebhookInv, OneAtATime
  <2>3. \A e \in Message : W!Cardinality(W!Pending(e)) <= 1 + errors
    BY <2>1, <2>2, PendingCount, Zenon
  <2>4. QED
    BY <2>3, Zenon DEF W!OneAttemptAtATime
<1>2. W!AcceptedOnce
  <2>1. W!TypeOK /\ NotAfterAccepted
    BY DEF WebhookInv
  <2>. SUFFICES ASSUME NEW i \in DOMAIN log, NEW j \in DOMAIN log,
                       log[i].event = log[j].event, i # j, log[i].success,
                       j \in W!Pending(log[j].event)
                PROVE  errors > 0
    BY DEF W!AcceptedOnce
  <2>2. Underway(log[j])
    BY PendingCount DEF PendingIn
  <2>3. errors # 0
    BY <2>1, <2>2 DEF NotAfterAccepted
  <2>4. QED
    BY <2>1, <2>3, CountsTyped
<1>3. QED
  BY <1>1, <1>2, Zenon DEF WebhookInv, W!AttemptsSound

-----------------------------------------------------------------------------
(* Steps that change rows in place: what each of them may do to a row. *)

\* A row after a step that starts no attempt: it is not under way if it was not,
\* a stored row stays as it was answered, and its schedule is only moved on.
Follows(new, old) ==
  /\ new.event = old.event /\ new.attempt = old.attempt
  /\ Underway(new) => Underway(old)
  /\ old.state = "stored" => new.state = "stored" /\ new.success = old.success
  /\ old.retry = "never" /\ old.state = "stored" => new.retry = "never"
  /\ new.retry # "never" =>
       new.state = "stored" /\ ~ new.success /\ new.attempt < MaxAttempts

\* No more is pending for any event.
LEMMA FewerPending ==
  ASSUME WebhookInv, DOMAIN log' = DOMAIN log,
         \A i \in DOMAIN log : Follows(log'[i], log[i]),
         errors' \in Nat, errors' >= errors
  PROVE  OneAtATime'
<1>0. W!TypeOK /\ OneAtATime /\ errors \in Nat
  BY CountsTyped, Zenon DEF WebhookInv
<1>. SUFFICES ASSUME NEW e \in Message
              PROVE  /\ IsFiniteSet(PendingIn(log', e))
                     /\ Cardinality(PendingIn(log', e)) <= 1 + errors'
  BY Zenon DEF OneAtATime
<1>1. PendingIn(log', e) \subseteq PendingIn(log, e)
  BY DEF PendingIn, Follows
<1>2. IsFiniteSet(PendingIn(log, e)) /\ Cardinality(PendingIn(log, e)) <= 1 + errors
  BY <1>0, Zenon DEF OneAtATime
<1>3. /\ IsFiniteSet(PendingIn(log', e))
      /\ Cardinality(PendingIn(log', e)) <= Cardinality(PendingIn(log, e))
  BY <1>1, <1>2, FS_Subset
<1>4. Cardinality(PendingIn(log, e)) \in Nat /\ Cardinality(PendingIn(log', e)) \in Nat
  BY <1>2, <1>3, FS_CardinalityType
<1>5. QED
  BY <1>0, <1>2, <1>3, <1>4

LEMMA OrderFollows ==
  ASSUME WebhookInv, DOMAIN log' = DOMAIN log,
         \A i \in DOMAIN log : Follows(log'[i], log[i]),
         errors' \in Nat, errors' >= errors
  PROVE  W!AttemptsInOrder'
<1>0. W!TypeOK /\ W!AttemptsInOrder /\ errors \in Nat
  BY CountsTyped, Zenon DEF WebhookInv
<1>. SUFFICES ASSUME NEW j \in DOMAIN log, log'[j].attempt > 1
              PROVE  \E i \in 1 .. j - 1 :
                       /\ log'[i].event = log'[j].event
                       /\ log'[i].attempt = log'[j].attempt - 1
                       /\ log'[i].state = "stored" /\ ~log'[i].success
                       /\ log'[i].retry = "never" \/ errors' > 0
  BY DEF W!AttemptsInOrder
<1>1. log'[j].attempt = log[j].attempt /\ log'[j].event = log[j].event
  BY DEF Follows
<1>2. PICK i \in 1 .. j - 1 :
        /\ log[i].event = log[j].event
        /\ log[i].attempt = log[j].attempt - 1
        /\ log[i].state = "stored" /\ ~log[i].success
        /\ log[i].retry = "never" \/ errors > 0
  BY <1>0, <1>1 DEF W!AttemptsInOrder
<1>3. i \in DOMAIN log
  BY <1>0, LogTyped
<1>4. Follows(log'[i], log[i])
  BY <1>3
<1>5. /\ log'[i].event = log[i].event /\ log'[i].attempt = log[i].attempt
      /\ log'[i].state = "stored" /\ ~log'[i].success
      /\ log[i].retry = "never" => log'[i].retry = "never"
  BY <1>2, <1>4 DEF Follows
<1>6. log'[i].retry = "never" \/ errors' > 0
  BY <1>0, <1>2, <1>5
<1>7. QED
  BY <1>1, <1>2, <1>5, <1>6

\* The rest of the invariant, when no attempt is accepted by the step.
LEMMA RowsMove ==
  ASSUME WebhookInv, W!TypeOK', DOMAIN log' = DOMAIN log, sent' = sent,
         \A i \in DOMAIN log : Follows(log'[i], log[i]),
         \A i \in DOMAIN log : log'[i].success => log[i].success,
         errors' >= errors, BatchDue'
  PROVE  WebhookInv'
<1>1. errors \in Nat /\ errors' \in Nat /\ ScheduledRows /\ NotAfterAccepted
  <2>1. W!TypeOK /\ ScheduledRows /\ NotAfterAccepted
    BY Zenon DEF WebhookInv
  <2>2. errors' \in 0 .. MaxErrors
    BY Zenon DEF W!TypeOK
  <2>3. QED
    BY <2>1, <2>2, CountsTyped
<1>2. ScheduledRows'
  BY <1>1 DEF ScheduledRows, Follows
<1>3. OneAtATime' /\ W!AttemptsInOrder'
  BY <1>1, FewerPending, OrderFollows, Zenon
<1>4. NotAfterAccepted'
  <2>1. errors' = 0 => errors = 0
    BY <1>1
  <2>. SUFFICES ASSUME errors' = 0, NEW i \in DOMAIN log, NEW j \in DOMAIN log,
                       log'[i].event = log'[j].event, log'[i].success, Underway(log'[j])
                PROVE  i = j
    BY Zenon DEF NotAfterAccepted
  <2>2. /\ log[i].event = log[j].event /\ log[i].success /\ Underway(log[j])
    BY DEF Follows
  <2>3. QED
    BY <1>1, <2>1, <2>2, Zenon DEF NotAfterAccepted
<1>5. QED
  BY <1>2, <1>3, <1>4, Zenon DEF WebhookInv

\* The batch of the worker is as it was, and no row of it stops being due.
LEMMA BatchStays ==
  ASSUME BatchDue, retrier' = retrier, DOMAIN log \subseteq DOMAIN log',
         \A i \in DOMAIN log : log[i].retry = "due" => log'[i].retry = "due"
  PROVE  BatchDue'
BY DEF BatchDue

\* An index of the log, changed there and nowhere else.
LEMMA OneRow ==
  ASSUME W!TypeOK, NEW i \in DOMAIN log, NEW r \in W!Attempt,
         log' = [log EXCEPT ![i] = r]
  PROVE  /\ log' \in Seq(W!Attempt) /\ Len(log') = Len(log) /\ DOMAIN log' = DOMAIN log
         /\ log'[i] = r
         /\ \A j \in DOMAIN log : j # i => log'[j] = log[j]
<1>1. log \in Seq(W!Attempt) /\ DOMAIN log = 1 .. Len(log)
  BY LogTyped
<1>. HIDE DEF W!Attempt
<1>2. QED
  BY <1>1

LEMMA FollowsItself ==
  ASSUME WebhookInv, NEW i \in DOMAIN log
  PROVE  Follows(log[i], log[i])
<1>1. ScheduledRows
  BY Zenon DEF WebhookInv
<1>2. QED
  BY <1>1 DEF ScheduledRows, Follows

\* Two members of a set of one are the same.
LEMMA AtMostOne ==
  ASSUME NEW S, IsFiniteSet(S), Cardinality(S) <= 1, NEW a \in S, NEW b \in S
  PROVE  a = b
<1>1. Cardinality(S) \in Nat /\ S # {}
  BY FS_CardinalityType
<1>2. Cardinality(S) # 0
  BY <1>1, FS_EmptySet
<1>3. Cardinality(S) = 1
  BY <1>1, <1>2
<1>4. PICK x : S = {x}
  BY <1>3, FS_Singleton
<1>5. QED
  BY <1>4

-----------------------------------------------------------------------------
(* Posting, storing and coming due. *)

\* A step that rewrites one row and nothing else but the counts.
LEMMA RowKeeps ==
  ASSUME WebhookInv, NEW i \in DOMAIN log, NEW r \in W!Attempt,
         log' = [log EXCEPT ![i] = r], Follows(r, log[i]),
         r.success => log[i].success,
         log[i].retry = "due" => r.retry = "due",
         errors' \in 0 .. MaxErrors, errors' >= errors,
         UNCHANGED <<endpoints, retrier, sent, toggles, crashes>>
  PROVE  WebhookInv'
<1>0. W!TypeOK /\ BatchDue
  BY Zenon DEF WebhookInv
<1>1. /\ log' \in Seq(W!Attempt) /\ Len(log') = Len(log) /\ DOMAIN log' = DOMAIN log
      /\ log'[i] = r
      /\ \A j \in DOMAIN log : j # i => log'[j] = log[j]
  BY <1>0, OneRow
<1>2. Len(log') <= MaxDeliveries
  BY <1>0, <1>1, LogTyped
<1>3. W!TypeOK'
  BY <1>0, <1>1, <1>2, Zenon DEF W!TypeOK
<1>4. \A j \in DOMAIN log : Follows(log'[j], log[j])
  BY <1>1, FollowsItself, Zenon
<1>5. \A j \in DOMAIN log : log'[j].success => log[j].success
  BY <1>1, Zenon
<1>6. BatchDue'
  <2>1. \A j \in DOMAIN log : log[j].retry = "due" => log'[j].retry = "due"
    BY <1>1, Zenon
  <2>2. DOMAIN log \subseteq DOMAIN log'
    BY <1>1
  <2>3. QED
    BY <1>0, <2>1, <2>2, BatchStays, Zenon
<1>7. QED
  BY <1>1, <1>3, <1>4, <1>5, <1>6, RowsMove, Zenon

LEMMA PostKeeps ==
  ASSUME WebhookInv, NEW i \in DOMAIN log, NEW success \in BOOLEAN, W!Post(i, success)
  PROVE  WebhookInv'
<1>0. /\ W!TypeOK /\ ScheduledRows /\ BatchDue /\ OneAtATime /\ NotAfterAccepted
      /\ W!AttemptsInOrder
  BY Zenon DEF WebhookInv
<1>. DEFINE r == [log[i] EXCEPT !.state = "answered", !.success = success]
<1>1. /\ log[i].state = "posting" /\ log' = [log EXCEPT ![i] = r]
      /\ UNCHANGED <<endpoints, retrier, sent, toggles, errors, crashes>>
  BY DEF W!Post
<1>2. log[i] \in W!Attempt
  BY <1>0, LogTyped
<1>3. /\ r \in W!Attempt /\ r.state = "answered" /\ r.success = success
      /\ r.event = log[i].event /\ r.attempt = log[i].attempt /\ r.retry = log[i].retry
  BY <1>2 DEF W!Attempt
<1>4. log[i].retry = "never"
  BY <1>0, <1>1, <1>2, AttemptTyped DEF ScheduledRows
<1>. HIDE DEF r
<1>5. Follows(r, log[i])
  BY <1>1, <1>3, <1>4 DEF Follows, Underway
<1>6. /\ log' \in Seq(W!Attempt) /\ Len(log') = Len(log) /\ DOMAIN log' = DOMAIN log
      /\ log'[i] = r
      /\ \A j \in DOMAIN log : j # i => log'[j] = log[j]
  BY <1>0, <1>1, <1>3, OneRow
<1>7. W!TypeOK'
  <2>1. Len(log') <= MaxDeliveries
    BY <1>0, <1>6, LogTyped
  <2>2. QED
    BY <1>0, <1>1, <1>6, <2>1, Zenon DEF W!TypeOK
<1>8. \A j \in DOMAIN log : Follows(log'[j], log[j])
  BY <1>5, <1>6, FollowsItself, Zenon
<1>9. ScheduledRows' /\ OneAtATime' /\ W!AttemptsInOrder'
  <2>1. errors \in Nat /\ errors' = errors
    BY <1>0, <1>1, CountsTyped
  <2>2. errors' \in Nat /\ errors' >= errors
    BY <2>1
  <2>3. ScheduledRows'
    BY <1>0, <1>1, <1>6, <1>8 DEF ScheduledRows, Follows
  <2>4. QED
    BY <1>6, <1>8, <2>2, <2>3, FewerPending, OrderFollows, Zenon
<1>10. NotAfterAccepted'
  <2>. SUFFICES ASSUME errors = 0, NEW k \in DOMAIN log, NEW j \in DOMAIN log,
                       log'[k].event = log'[j].event, log'[k].success,
                       Underway(log'[j])
                PROVE  k = j
    BY <1>1, <1>6 DEF NotAfterAccepted
  <2>1. log[k].event = log[j].event /\ Underway(log[j])
    BY <1>8 DEF Follows
  <2>2. CASE k # i
    <3>1. log[k].success
      BY <1>6, <2>2
    <3>2. QED
      BY <1>0, <2>1, <3>1, Zenon DEF NotAfterAccepted
  <2>3. CASE k = i
    <3>. DEFINE e == log[i].event
    <3>1. e \in Message
      BY <1>2, AttemptTyped
    <3>2. i \in PendingIn(log, e) /\ j \in PendingIn(log, e)
      BY <1>1, <2>1, <2>3 DEF PendingIn, Underway
    <3>3. IsFiniteSet(PendingIn(log, e)) /\ Cardinality(PendingIn(log, e)) <= 1 + errors
      BY <1>0, <3>1, Zenon DEF OneAtATime
    <3>4. Cardinality(PendingIn(log, e)) \in Nat
      BY <3>3, FS_CardinalityType
    <3>5. Cardinality(PendingIn(log, e)) <= 1
      BY <3>3, <3>4
    <3>. HIDE DEF e
    <3>6. i = j
      BY <3>2, <3>3, <3>5, AtMostOne
    <3>7. QED
      BY <2>3, <3>6
  <2>4. QED
    BY <2>2, <2>3
<1>11. BatchDue'
  <2>1. \A j \in DOMAIN log : log[j].retry = "due" => log'[j].retry = "due"
    BY <1>3, <1>6, Zenon
  <2>2. DOMAIN log \subseteq DOMAIN log'
    BY <1>6
  <2>3. QED
    BY <1>0, <1>1, <2>1, <2>2, BatchStays, Zenon
<1>12. QED
  BY <1>7, <1>9, <1>10, <1>11, Zenon DEF WebhookInv

LEMMA CreateDeliveryKeeps ==
  ASSUME WebhookInv, NEW i \in DOMAIN log, W!CreateDelivery(i)
  PROVE  WebhookInv'
<1>0. W!TypeOK /\ ScheduledRows
  BY Zenon DEF WebhookInv
<1>. DEFINE q == W!RetryFor(log[i])
            r == [log[i] EXCEPT !.state = "stored", !.retry = q]
<1>1. /\ log[i].state = "answered" /\ log' = [log EXCEPT ![i] = r]
      /\ UNCHANGED <<endpoints, retrier, sent, toggles, errors, crashes>>
  BY DEF W!CreateDelivery
<1>2. log[i] \in W!Attempt
  BY <1>0, LogTyped
<1>3. /\ q \in {"never", "later"}
      /\ q # "never" => ~ log[i].success /\ log[i].attempt < MaxAttempts
  BY DEF W!RetryFor
<1>. HIDE DEF q
<1>4. /\ r \in W!Attempt /\ r.state = "stored" /\ r.success = log[i].success
      /\ r.event = log[i].event /\ r.attempt = log[i].attempt /\ r.retry = q
  BY <1>2, <1>3 DEF W!Attempt
<1>5. log[i].retry = "never"
  BY <1>0, <1>1, <1>2, AttemptTyped DEF ScheduledRows
<1>. HIDE DEF r
<1>6. Follows(r, log[i])
  BY <1>1, <1>3, <1>4, <1>5 DEF Follows, Underway
<1>7. errors' \in 0 .. MaxErrors /\ errors' >= errors
  BY <1>0, <1>1, CountsTyped
<1>8. QED
  BY <1>1, <1>4, <1>5, <1>6, <1>7, RowKeeps

LEMMA CreateDeliveryFailsKeeps ==
  ASSUME WebhookInv, NEW i \in DOMAIN log, W!CreateDeliveryFails(i)
  PROVE  WebhookInv'
<1>0. W!TypeOK /\ ScheduledRows
  BY Zenon DEF WebhookInv
<1>. DEFINE r == [log[i] EXCEPT !.state = "lost"]
<1>1. /\ log[i].state = "answered" /\ log' = [log EXCEPT ![i] = r]
      /\ errors < MaxErrors /\ errors' = errors + 1
      /\ UNCHANGED <<endpoints, retrier, sent, toggles, crashes>>
  BY DEF W!CreateDeliveryFails
<1>2. log[i] \in W!Attempt
  BY <1>0, LogTyped
<1>3. /\ r \in W!Attempt /\ r.state = "lost" /\ r.success = log[i].success
      /\ r.event = log[i].event /\ r.attempt = log[i].attempt /\ r.retry = log[i].retry
  BY <1>2 DEF W!Attempt
<1>4. log[i].retry = "never"
  BY <1>0, <1>1, <1>2, AttemptTyped DEF ScheduledRows
<1>. HIDE DEF r
<1>5. Follows(r, log[i])
  BY <1>1, <1>3, <1>4 DEF Follows, Underway
<1>6. errors' \in 0 .. MaxErrors /\ errors' >= errors
  BY <1>0, <1>1, CountsTyped
<1>7. QED
  BY <1>1, <1>3, <1>4, <1>5, <1>6, RowKeeps

LEMMA ComeDueKeeps ==
  ASSUME WebhookInv, NEW i \in DOMAIN log, W!ComeDue(i)
  PROVE  WebhookInv'
<1>0. W!TypeOK /\ ScheduledRows
  BY Zenon DEF WebhookInv
<1>. DEFINE r == [log[i] EXCEPT !.retry = "due"]
<1>1. /\ log[i].state = "stored" /\ log[i].retry = "later"
      /\ log' = [log EXCEPT ![i] = r]
      /\ UNCHANGED <<endpoints, retrier, sent, toggles, errors, crashes>>
  BY DEF W!ComeDue
<1>2. log[i] \in W!Attempt
  BY <1>0, LogTyped
<1>3. /\ r \in W!Attempt /\ r.state = log[i].state /\ r.success = log[i].success
      /\ r.event = log[i].event /\ r.attempt = log[i].attempt /\ r.retry = "due"
  BY <1>2 DEF W!Attempt
<1>4. ~ log[i].success /\ log[i].attempt < MaxAttempts
  BY <1>0, <1>1, <1>2 DEF ScheduledRows
<1>. HIDE DEF r
<1>5. Follows(r, log[i])
  BY <1>1, <1>3, <1>4 DEF Follows, Underway
<1>6. errors' \in 0 .. MaxErrors /\ errors' >= errors
  BY <1>0, <1>1, CountsTyped
<1>7. QED
  BY <1>1, <1>3, <1>5, <1>6, RowKeeps

-----------------------------------------------------------------------------
(* Endpoints, the process, and the dispatch of an event. *)

LEMMA RegistryKeeps ==
  ASSUME WebhookInv, W!Registry
  PROVE  WebhookInv'
<1>0. W!TypeOK
  BY Zenon DEF WebhookInv
<1>1. /\ UNCHANGED <<log, retrier, sent, errors, crashes>>
      /\ endpoints' \in [Endpoint -> {"none", "active", "disabled", "deleted"}]
      /\ toggles' \in 0 .. MaxToggles
  <2>1. /\ endpoints \in [Endpoint -> {"none", "active", "disabled", "deleted"}]
        /\ toggles \in 0 .. MaxToggles /\ MaxToggles \in Nat
    BY <1>0, CountsTyped, Zenon DEF W!TypeOK
  <2>2. PICK ep \in Endpoint : \/ W!RegisterEndpoint(ep) \/ W!DeleteEndpoint(ep)
                               \/ \E isActive \in BOOLEAN :
                                    W!SetEndpointActive(ep, isActive)
    BY Zenon DEF W!Registry, W!AdminCreateEndpoint, W!AdminDeleteEndpoint,
      W!AppCreateEndpoint, W!AppToggleEndpoint, W!AppDeleteEndpoint, W!WebhookCreate,
      W!WebhookToggle, W!WebhookDelete
  <2>3. QED
    BY <2>1, <2>2 DEF W!RegisterEndpoint, W!DeleteEndpoint, W!SetEndpointActive
<1>2. W!TypeOK'
  BY <1>0, <1>1, Zenon DEF W!TypeOK
<1>3. BatchDue' /\ ScheduledRows' /\ OneAtATime' /\ NotAfterAccepted'
  BY <1>1 DEF WebhookInv, BatchDue, ScheduledRows, OneAtATime, NotAfterAccepted
<1>4. W!AttemptsInOrder'
  BY <1>1 DEF WebhookInv, W!AttemptsInOrder
<1>5. QED
  BY <1>2, <1>3, <1>4, Zenon DEF WebhookInv

LEMMA CrashKeeps ==
  ASSUME WebhookInv, W!Crash
  PROVE  WebhookInv'
<1>0. W!TypeOK /\ ScheduledRows
  BY Zenon DEF WebhookInv
<1>1. /\ crashes < MaxCrashes /\ crashes' = crashes + 1
      /\ retrier' = [todo |-> <<>>, verdict |-> "none"]
      /\ UNCHANGED <<endpoints, sent, toggles, errors>>
  BY DEF W!Crash, W!Idle
<1>2. log' = [i \in DOMAIN log |->
               IF log[i].state = "stored" THEN log[i] ELSE [log[i] EXCEPT !.state = "lost"]]
  BY DEF W!Crash
<1>3. ASSUME NEW i \in DOMAIN log
      PROVE  /\ log'[i] \in W!Attempt /\ Follows(log'[i], log[i])
             /\ log'[i].success => log[i].success
  <2>0. log[i] \in W!Attempt
    BY <1>0, LogTyped
  <2>1. CASE log[i].state = "stored"
    BY <1>2, <2>0, <2>1, FollowsItself
  <2>2. CASE log[i].state # "stored"
    <3>1. log'[i] = [log[i] EXCEPT !.state = "lost"]
      BY <1>2, <2>2
    <3>2. /\ log'[i] \in W!Attempt /\ log'[i].state = "lost"
          /\ log'[i].success = log[i].success /\ log'[i].event = log[i].event
          /\ log'[i].attempt = log[i].attempt /\ log'[i].retry = log[i].retry
      BY <2>0, <3>1 DEF W!Attempt
    <3>3. log[i].retry = "never"
      BY <1>0, <2>0, <2>2, AttemptTyped DEF ScheduledRows
    <3>4. QED
      BY <2>2, <3>2, <3>3 DEF Follows, Underway
  <2>3. QED
    BY <2>1, <2>2
<1>4. log' \in Seq(W!Attempt) /\ Len(log') = Len(log) /\ DOMAIN log' = DOMAIN log
  <2>1. log \in Seq(W!Attempt) /\ DOMAIN log = 1 .. Len(log) /\ Len(log) \in Nat
    BY <1>0, LogTyped
  <2>. HIDE DEF W!Attempt
  <2>2. log' \in [1 .. Len(log) -> W!Attempt] /\ DOMAIN log' = 1 .. Len(log)
    BY <1>2, <1>3, <2>1
  <2>3. log' \in Seq(W!Attempt)
    BY <2>1, <2>2, SeqDef
  <2>4. QED
    BY <2>1, <2>2, <2>3
<1>5. W!TypeOK'
  <2>1. Len(log') <= MaxDeliveries
    BY <1>0, <1>4, LogTyped
  <2>2. crashes \in 0 .. MaxCrashes /\ MaxCrashes \in Nat
    BY <1>0, CountsTyped, Zenon DEF W!TypeOK
  <2>3. crashes' \in 0 .. MaxCrashes
    BY <1>1, <2>2
  <2>4. retrier' \in W!Worker
    <3>1. <<>> \in Seq(1 .. MaxDeliveries)
      BY EmptySeq
    <3>2. QED
      BY <1>1, <3>1 DEF W!Worker
  <2>5. QED
    BY <1>0, <1>1, <1>4, <2>1, <2>3, <2>4, Zenon DEF W!TypeOK
<1>6. BatchDue'
  BY <1>1 DEF BatchDue
<1>7. errors' >= errors
  BY <1>0, <1>1, CountsTyped
<1>8. QED
  BY <1>1, <1>3, <1>4, <1>5, <1>6, <1>7, RowsMove, Zenon

\* A new attempt at the end of the rows.
LEMMA Grown ==
  ASSUME NEW s \in Seq(W!Attempt), NEW r \in W!Attempt, NEW t, t = Append(s, r)
  PROVE  /\ t \in Seq(W!Attempt) /\ Len(t) = Len(s) + 1
         /\ DOMAIN t = DOMAIN s \cup {Len(s) + 1} /\ DOMAIN s = 1 .. Len(s)
         /\ t[Len(s) + 1] = r
         /\ \A i \in DOMAIN s : t[i] = s[i]
<1>. HIDE DEF W!Attempt
<1>1. QED
  OBVIOUS

LEMMA DispatchKeeps ==
  ASSUME WebhookInv, NEW e \in Message, W!Dispatch(e)
  PROVE  WebhookInv'
<1>0. /\ W!TypeOK /\ ScheduledRows /\ BatchDue /\ OneAtATime /\ NotAfterAccepted
      /\ W!AttemptsInOrder
  BY Zenon DEF WebhookInv
<1>1. /\ e \notin sent /\ Len(log) < MaxDeliveries /\ sent' = sent \cup {e}
      /\ UNCHANGED <<endpoints, retrier, toggles, errors, crashes>>
  BY DEF W!Dispatch
<1>2. CASE log' = log
  <2>1. sent \subseteq Message
    BY <1>0, Zenon DEF W!TypeOK
  <2>2. sent' \subseteq Message
    BY <1>1, <2>1
  <2>3. W!TypeOK'
    BY <1>0, <1>1, <1>2, <2>2, Zenon DEF W!TypeOK
  <2>4. BatchDue' /\ OneAtATime' /\ NotAfterAccepted'
    BY <1>0, <1>1, <1>2 DEF BatchDue, OneAtATime, NotAfterAccepted
  <2>5. W!AttemptsInOrder'
    BY <1>0, <1>1, <1>2 DEF W!AttemptsInOrder
  <2>6. ScheduledRows'
    BY <1>0, <1>1, <1>2 DEF ScheduledRows
  <2>7. QED
    BY <2>3, <2>4, <2>5, <2>6, Zenon DEF WebhookInv
<1>3. ASSUME NEW ep \in W!Active, log' = Append(log, W!Started(e, ep, 1))
      PROVE  WebhookInv'
  <2>. DEFINE r == W!Started(e, ep, 1)
              n == Len(log) + 1
  <2>1. ep \in Endpoint /\ 1 \in 1 .. MaxAttempts
    BY <1>0, CountsTyped DEF W!Active
  <2>2. /\ r \in W!Attempt /\ r.state = "posting" /\ r.event = e /\ r.attempt = 1
        /\ r.success = FALSE /\ r.retry = "never" /\ Underway(r)
    <3>1. r = W!Started(e, ep, 1)
      OBVIOUS
    <3>. HIDE DEF r
    <3>2. QED
      BY <2>1, <3>1 DEF W!Started, W!Attempt, Underway
  <2>. HIDE DEF r
  <2>3. log \in Seq(W!Attempt) /\ Len(log) \in Nat
    BY <1>0, LogTyped
  <2>4. /\ log' \in Seq(W!Attempt) /\ Len(log') = n
        /\ DOMAIN log' = DOMAIN log \cup {n} /\ DOMAIN log = 1 .. Len(log)
        /\ log'[n] = r /\ \A i \in DOMAIN log : log'[i] = log[i]
    BY <1>3, <2>2, <2>3, Grown DEF r
  <2>5. n \notin DOMAIN log
    BY <2>3, <2>4
  <2>6. W!TypeOK'
    <3>1. Len(log') <= MaxDeliveries
      BY <1>0, <1>1, <2>3, <2>4, CountsTyped
    <3>2. sent \subseteq Message
      BY <1>0, Zenon DEF W!TypeOK
    <3>3. sent' \subseteq Message
      BY <1>1, <3>2
    <3>4. QED
      BY <1>0, <1>1, <2>4, <3>1, <3>3, Zenon DEF W!TypeOK
  <2>7. ScheduledRows'
    BY <1>0, <1>1, <2>2, <2>4 DEF ScheduledRows
  <2>8. BatchDue'
    <3>1. \A i \in DOMAIN log : log[i].retry = "due" => log'[i].retry = "due"
      BY <2>4
    <3>2. QED
      BY <1>0, <1>1, <2>4, <3>1, BatchStays, Zenon
  <2>9. \A i \in DOMAIN log : log[i].event # e
    BY <1>0, <1>1 DEF ScheduledRows
  <2>10. OneAtATime'
    <3>. SUFFICES ASSUME NEW d \in Message
                  PROVE  /\ IsFiniteSet(PendingIn(log', d))
                         /\ Cardinality(PendingIn(log', d)) <= 1 + errors'
      BY Zenon DEF OneAtATime
    <3>0. errors \in Nat /\ errors' = errors
      BY <1>0, <1>1, CountsTyped
    <3>1. CASE d # e
      <4>1. PendingIn(log', d) = PendingIn(log, d)
        BY <2>2, <2>4, <3>1 DEF PendingIn
      <4>2. QED
        BY <1>0, <3>0, <4>1, Zenon DEF OneAtATime
    <3>2. CASE d = e
      <4>1. PendingIn(log', d) = {n}
        BY <2>2, <2>4, <2>9, <3>2 DEF PendingIn
      <4>2. IsFiniteSet({n}) /\ Cardinality({n}) = 1
        BY FS_Singleton
      <4>3. QED
        BY <3>0, <4>1, <4>2
    <3>3. QED
      BY <3>1, <3>2
  <2>11. NotAfterAccepted'
    <3>. SUFFICES ASSUME errors = 0, NEW i \in DOMAIN log \cup {n},
                         NEW j \in DOMAIN log \cup {n},
                         log'[i].event = log'[j].event, log'[i].success,
                         Underway(log'[j])
                  PROVE  i = j
      BY <1>1, <2>4 DEF NotAfterAccepted
    <3>1. i \in DOMAIN log /\ log'[i] = log[i]
      BY <2>2, <2>4
    <3>2. CASE j = n
      BY <2>2, <2>4, <2>9, <3>1, <3>2
    <3>3. CASE j \in DOMAIN log
      <4>1. log'[j] = log[j]
        BY <2>4, <3>3
      <4>2. log[i].event = log[j].event /\ log[i].success /\ Underway(log[j])
        BY <3>1, <4>1
      <4>3. QED
        BY <1>0, <3>1, <3>3, <4>2, Zenon DEF NotAfterAccepted
    <3>4. QED
      BY <3>2, <3>3
  <2>12. W!AttemptsInOrder'
    <3>. SUFFICES ASSUME NEW j \in DOMAIN log \cup {n}, log'[j].attempt > 1
                  PROVE  \E i \in 1 .. j - 1 :
                           /\ log'[i].event = log'[j].event
                           /\ log'[i].attempt = log'[j].attempt - 1
                           /\ log'[i].state = "stored" /\ ~log'[i].success
                           /\ log'[i].retry = "never" \/ errors' > 0
      BY <2>4 DEF W!AttemptsInOrder
    <3>1. j \in DOMAIN log /\ log'[j] = log[j]
      BY <2>2, <2>4
    <3>2. PICK i \in 1 .. j - 1 :
            /\ log[i].event = log[j].event
            /\ log[i].attempt = log[j].attempt - 1
            /\ log[i].state = "stored" /\ ~log[i].success
            /\ log[i].retry = "never" \/ errors > 0
      BY <1>0, <3>1 DEF W!AttemptsInOrder
    <3>3. i \in DOMAIN log
      BY <2>3, <2>4, <3>1
    <3>4. log'[i] = log[i] /\ errors' = errors
      BY <1>1, <2>4, <3>3
    <3>5. QED
      BY <3>1, <3>2, <3>4
  <2>13. QED
    BY <2>6, <2>7, <2>8, <2>10, <2>11, <2>12, Zenon DEF WebhookInv
<1>4. QED
  BY <1>2, <1>3 DEF W!Dispatch

LEMMA DispatchFailsKeeps ==
  ASSUME WebhookInv, NEW e \in Message, W!DispatchFails(e)
  PROVE  WebhookInv'
<1>0. /\ W!TypeOK /\ ScheduledRows /\ BatchDue /\ OneAtATime /\ NotAfterAccepted
      /\ W!AttemptsInOrder
  BY Zenon DEF WebhookInv
<1>1. /\ sent' = sent \cup {e} /\ errors < MaxErrors /\ errors' = errors + 1
      /\ UNCHANGED <<endpoints, log, retrier, toggles, crashes>>
  BY DEF W!DispatchFails
<1>2. errors' \in 0 .. MaxErrors /\ errors' \in Nat /\ errors' >= errors /\ errors' > 0
  BY <1>0, <1>1, CountsTyped
<1>3. W!TypeOK'
  <2>1. sent \subseteq Message
    BY <1>0, Zenon DEF W!TypeOK
  <2>2. sent' \subseteq Message
    BY <1>1, <2>1
  <2>3. QED
    BY <1>0, <1>1, <1>2, <2>2, Zenon DEF W!TypeOK
<1>4. \A i \in DOMAIN log : log' = log /\ Follows(log'[i], log[i])
  BY <1>1, FollowsItself, Zenon
<1>5. OneAtATime' /\ W!AttemptsInOrder'
  <2>1. DOMAIN log' = DOMAIN log
    BY <1>1
  <2>2. QED
    BY <1>2, <1>4, <2>1, FewerPending, OrderFollows, Zenon
<1>6. ScheduledRows'
  BY <1>0, <1>1 DEF ScheduledRows
<1>7. BatchDue'
  BY <1>0, <1>1 DEF BatchDue
<1>8. NotAfterAccepted'
  BY <1>2 DEF NotAfterAccepted
<1>9. QED
  BY <1>3, <1>5, <1>6, <1>7, <1>8, Zenon DEF WebhookInv

-----------------------------------------------------------------------------
(* The retry worker. *)

LEMMA PollKeeps ==
  ASSUME WebhookInv, W!GetPendingRetries
  PROVE  WebhookInv'
<1>0. /\ W!TypeOK /\ ScheduledRows /\ BatchDue /\ OneAtATime /\ NotAfterAccepted
      /\ W!AttemptsInOrder
  BY Zenon DEF WebhookInv
<1>1. /\ retrier.todo = <<>>
      /\ UNCHANGED <<endpoints, log, sent, toggles, errors, crashes>>
  BY DEF W!GetPendingRetries
<1>. DEFINE n == IF W!Cardinality(W!Due) < PollLimit THEN W!Cardinality(W!Due)
                                                     ELSE PollLimit
<1>2. PICK b \in [1 .. n -> W!Due] :
        /\ \A j, k \in 1 .. n : b[j] = b[k] => j = k
        /\ retrier' = [retrier EXCEPT !.todo = b]
  BY DEF W!GetPendingRetries, W!Batches
<1>3. n \in Nat
  <2>1. W!Cardinality(W!Due) = Cardinality(W!Due)
    BY Zenon DEF W!Cardinality, Cardinality
  <2>2. IsFiniteSet(1 .. Len(log)) /\ W!Due \subseteq 1 .. Len(log)
    BY <1>0, LogTyped, FS_Interval DEF W!Due
  <2>3. Cardinality(W!Due) \in Nat
    BY <2>2, FS_Subset, FS_CardinalityType
  <2>4. PollLimit \in Nat
    BY <1>0, CountsTyped
  <2>5. QED
    BY <2>1, <2>3, <2>4
<1>. HIDE DEF n
<1>4. \A i \in W!Due : i \in DOMAIN log /\ log[i].retry = "due" /\ i \in 1 .. MaxDeliveries
  BY <1>0, LogTyped, CountsTyped DEF W!Due
<1>5. b \in Seq(1 .. MaxDeliveries) /\ DOMAIN b = 1 .. n
  <2>1. b \in [1 .. n -> 1 .. MaxDeliveries]
    BY <1>2, <1>4
  <2>2. QED
    BY <1>3, <2>1, SeqDef
<1>6. retrier.verdict \in {"none", "retry", "drop"} /\ retrier.verdict = "none"
  <2>1. retrier.verdict \in {"none", "retry", "drop"}
    BY <1>0, WorkerTyped
  <2>2. QED
    BY <1>0, <1>1, <2>1 DEF BatchDue
<1>7. retrier' = [todo |-> b, verdict |-> "none"]
  <2>1. retrier = [todo |-> retrier.todo, verdict |-> retrier.verdict]
    BY <1>0, WorkerTyped
  <2>2. QED
    BY <1>2, <1>6, <2>1
<1>8. retrier' \in W!Worker
  BY <1>5, <1>7 DEF W!Worker
<1>9. W!TypeOK'
  BY <1>0, <1>1, <1>8, Zenon DEF W!TypeOK
<1>10. BatchDue'
  <2>1. retrier'.todo = b /\ retrier'.verdict = "none"
    BY <1>7
  <2>2. \A k \in DOMAIN b : b[k] \in DOMAIN log /\ log[b[k]].retry = "due"
    BY <1>2, <1>4, <1>5
  <2>3. \A j, k \in DOMAIN b : b[j] = b[k] => j = k
    BY <1>2, <1>5
  <2>4. QED
    BY <1>1, <2>1, <2>2, <2>3 DEF BatchDue
<1>11. ScheduledRows' /\ OneAtATime' /\ NotAfterAccepted'
  BY <1>0, <1>1 DEF ScheduledRows, OneAtATime, NotAfterAccepted
<1>12. W!AttemptsInOrder'
  BY <1>0, <1>1 DEF W!AttemptsInOrder
<1>13. QED
  BY <1>9, <1>10, <1>11, <1>12, Zenon DEF WebhookInv

LEMMA GetEndpointKeeps ==
  ASSUME WebhookInv, W!GetEndpointByID
  PROVE  WebhookInv'
<1>0. /\ W!TypeOK /\ ScheduledRows /\ BatchDue /\ OneAtATime /\ NotAfterAccepted
      /\ W!AttemptsInOrder
  BY Zenon DEF WebhookInv
<1>1. /\ retrier.todo # <<>>
      /\ UNCHANGED <<endpoints, log, sent, toggles, crashes>>
      /\ errors' = errors \/ (errors < MaxErrors /\ errors' = errors + 1)
  BY DEF W!GetEndpointByID
<1>2. PICK v \in {"retry", "drop"} : retrier' = [retrier EXCEPT !.verdict = v]
  <2>1. \/ retrier' = [retrier EXCEPT !.verdict = "retry"]
        \/ retrier' = [retrier EXCEPT !.verdict = "drop"]
    <3>. DEFINE c == log[Head(retrier.todo)].ep \in W!Active
    <3>1. \/ retrier' = [retrier EXCEPT !.verdict = IF c THEN "retry" ELSE "drop"]
          \/ retrier' = [retrier EXCEPT !.verdict = "drop"]
      BY Zenon DEF W!GetEndpointByID
    <3>. HIDE DEF c
    <3>2. CASE c
      BY <3>1, <3>2
    <3>3. CASE ~ c
      BY <3>1, <3>3
    <3>4. QED
      BY <3>2, <3>3
  <2>2. QED
    BY <2>1
<1>3. retrier' = [todo |-> retrier.todo, verdict |-> v]
  <2>1. retrier = [todo |-> retrier.todo, verdict |-> retrier.verdict]
    BY <1>0, WorkerTyped
  <2>2. QED
    BY <1>2, <2>1
<1>4. errors' \in 0 .. MaxErrors /\ errors' \in Nat /\ errors' >= errors /\ errors \in Nat
  BY <1>0, <1>1, CountsTyped
<1>5. retrier' \in W!Worker
  <2>1. retrier.todo \in Seq(1 .. MaxDeliveries)
    BY <1>0, WorkerTyped
  <2>2. QED
    BY <1>3, <2>1 DEF W!Worker
<1>6. W!TypeOK'
  BY <1>0, <1>1, <1>4, <1>5, Zenon DEF W!TypeOK
<1>7. BatchDue'
  <2>1. retrier'.todo = retrier.todo
    BY <1>3
  <2>2. QED
    BY <1>0, <1>1, <2>1 DEF BatchDue
<1>8. \A i \in DOMAIN log : Follows(log'[i], log[i])
  BY <1>1, FollowsItself, Zenon
<1>9. OneAtATime' /\ W!AttemptsInOrder'
  BY <1>1, <1>4, <1>8, FewerPending, OrderFollows, Zenon
<1>10. ScheduledRows'
  BY <1>0, <1>1 DEF ScheduledRows
<1>11. NotAfterAccepted'
  <2>1. errors' = 0 => errors = 0
    BY <1>4
  <2>2. QED
    BY <1>0, <1>1, <2>1 DEF NotAfterAccepted
<1>12. QED
  BY <1>6, <1>7, <1>9, <1>10, <1>11, Zenon DEF WebhookInv

\* The head of the batch is a scheduled row that no other row of the batch is.
LEMMA HeadDue ==
  ASSUME WebhookInv, retrier.verdict # "none", NEW h, h = Head(retrier.todo)
  PROVE  /\ h \in DOMAIN log /\ log[h] \in W!Attempt /\ log[h].retry = "due"
         /\ log[h].state = "stored" /\ ~ log[h].success /\ log[h].attempt < MaxAttempts
         /\ log[h].attempt + 1 \in 1 .. MaxAttempts /\ Underway(log[h])
         /\ Tail(retrier.todo) \in Seq(1 .. MaxDeliveries)
         /\ \A k \in DOMAIN Tail(retrier.todo) :
              /\ Tail(retrier.todo)[k] \in DOMAIN log \ {h}
              /\ log[Tail(retrier.todo)[k]].retry = "due"
         /\ \A j, k \in DOMAIN Tail(retrier.todo) :
              Tail(retrier.todo)[j] = Tail(retrier.todo)[k] => j = k
<1>0. W!TypeOK /\ ScheduledRows /\ BatchDue
  BY Zenon DEF WebhookInv
<1>. DEFINE q == retrier.todo
            B == 1 .. MaxDeliveries
<1>1. q \in Seq(B) /\ q # <<>>
  BY <1>0, WorkerTyped DEF BatchDue
<1>2. /\ \A k \in DOMAIN q : q[k] \in DOMAIN log /\ log[q[k]].retry = "due"
      /\ \A j, k \in DOMAIN q : q[j] = q[k] => j = k
  BY <1>0 DEF BatchDue
<1>3. h = Head(q)
  OBVIOUS
<1>. HIDE DEF q, B
<1>4. /\ DOMAIN q = 1 .. Len(q) /\ Len(q) \in Nat /\ 1 \in DOMAIN q /\ h = q[1]
      /\ Tail(q) \in Seq(B) /\ DOMAIN Tail(q) = 1 .. Len(q) - 1
      /\ \A k \in DOMAIN Tail(q) : Tail(q)[k] = q[k + 1]
  BY <1>1, <1>3
<1>5. \A k \in DOMAIN Tail(q) : k + 1 \in DOMAIN q /\ k + 1 # 1
  BY <1>4
<1>6. \A k \in DOMAIN Tail(q) :
        Tail(q)[k] \in DOMAIN log \ {h} /\ log[Tail(q)[k]].retry = "due"
  BY <1>2, <1>4, <1>5
<1>7. \A j, k \in DOMAIN Tail(q) : Tail(q)[j] = Tail(q)[k] => j = k
  <2>. SUFFICES ASSUME NEW j \in DOMAIN Tail(q), NEW k \in DOMAIN Tail(q),
                       Tail(q)[j] = Tail(q)[k]
                PROVE  j = k
    OBVIOUS
  <2>0. /\ j + 1 \in DOMAIN q /\ k + 1 \in DOMAIN q
        /\ Tail(q)[j] = q[j + 1] /\ Tail(q)[k] = q[k + 1]
    BY <1>4, <1>5
  <2>1. j + 1 = k + 1
    BY <1>2, <2>0
  <2>2. j \in Int /\ k \in Int
    BY <1>4
  <2>3. QED
    BY <2>1, <2>2
<1>8. h \in DOMAIN log /\ log[h].retry = "due" /\ log[h] \in W!Attempt
  BY <1>0, <1>2, <1>4, LogTyped
<1>9. log[h].state = "stored" /\ ~ log[h].success /\ log[h].attempt < MaxAttempts
  BY <1>0, <1>8 DEF ScheduledRows
<1>10. log[h].attempt + 1 \in 1 .. MaxAttempts
  BY <1>0, <1>8, <1>9, AttemptTyped, CountsTyped
<1>11. QED
  BY <1>4, <1>6, <1>7, <1>8, <1>9, <1>10 DEF Underway, q, B

\* The log once the head's schedule is cleared, or could not be.
Cleared(after, h) ==
  \/ after = [log EXCEPT ![h].retry = "never"] /\ errors' = errors
  \/ after = log /\ errors < MaxErrors /\ errors' = errors + 1

LEMMA ClearedRows ==
  ASSUME WebhookInv, retrier.verdict # "none", NEW h, h = Head(retrier.todo),
         NEW after, Cleared(after, h)
  PROVE  /\ after \in Seq(W!Attempt) /\ Len(after) = Len(log) /\ DOMAIN after = DOMAIN log
         /\ \A i \in DOMAIN log : i # h => after[i] = log[i]
         /\ after[h].event = log[h].event /\ after[h].attempt = log[h].attempt
         /\ after[h].state = "stored" /\ ~ after[h].success
         /\ after[h].retry = "never" \/ errors' > 0
         /\ \A i \in DOMAIN log : Follows(after[i], log[i])
         /\ errors' \in 0 .. MaxErrors /\ errors' \in Nat /\ errors \in Nat
         /\ errors' >= errors
         /\ errors' = 0 => after = [log EXCEPT ![h].retry = "never"]
<1>0. W!TypeOK /\ errors \in Nat
  BY CountsTyped, Zenon DEF WebhookInv
<1>1. /\ h \in DOMAIN log /\ log[h] \in W!Attempt /\ log[h].retry = "due"
      /\ log[h].state = "stored" /\ ~ log[h].success /\ log[h].attempt < MaxAttempts
  BY HeadDue
<1>2. CASE after = [log EXCEPT ![h].retry = "never"] /\ errors' = errors
  <2>. DEFINE r == [log[h] EXCEPT !.retry = "never"]
  <2>1. after = [log EXCEPT ![h] = r]
    BY <1>2
  <2>2. /\ r \in W!Attempt /\ r.state = log[h].state /\ r.success = log[h].success
        /\ r.event = log[h].event /\ r.attempt = log[h].attempt /\ r.retry = "never"
    BY <1>1 DEF W!Attempt
  <2>. HIDE DEF r
  <2>3. log \in Seq(W!Attempt) /\ DOMAIN log = 1 .. Len(log)
    BY <1>0, LogTyped
  <2>4. /\ after \in Seq(W!Attempt) /\ Len(after) = Len(log) /\ DOMAIN after = DOMAIN log
        /\ after[h] = r /\ \A i \in DOMAIN log : i # h => after[i] = log[i]
    <3>. HIDE DEF W!Attempt
    <3>1. QED
      BY <1>1, <2>1, <2>2, <2>3
  <2>5. Follows(r, log[h])
    BY <1>1, <2>2 DEF Follows, Underway
  <2>6. \A i \in DOMAIN log : Follows(after[i], log[i])
    BY <2>4, <2>5, FollowsItself, Zenon
  <2>7. errors' \in 0 .. MaxErrors /\ errors' \in Nat /\ errors' >= errors
    BY <1>0, <1>2, CountsTyped
  <2>8. QED
    BY <1>0, <1>1, <1>2, <2>2, <2>4, <2>6, <2>7
<1>3. CASE after = log /\ errors < MaxErrors /\ errors' = errors + 1
  <2>1. /\ errors' \in 0 .. MaxErrors /\ errors' \in Nat /\ errors' >= errors
        /\ errors' > 0
    BY <1>0, <1>3, CountsTyped
  <2>2. \A i \in DOMAIN log : Follows(after[i], log[i])
    BY <1>3, FollowsItself, Zenon
  <2>3. log \in Seq(W!Attempt)
    BY <1>0, LogTyped
  <2>4. QED
    BY <1>0, <1>1, <1>3, <2>1, <2>2, <2>3
<1>4. QED
  BY <1>2, <1>3, Zenon DEF Cleared

\* How many attempts are pending once the head is dealt with: of its event one less
\* than the invariant allows.
LEMMA ClearedPending ==
  ASSUME WebhookInv, retrier.verdict # "none", NEW h, h = Head(retrier.todo),
         NEW after, Cleared(after, h), NEW e \in Message
  PROVE  /\ IsFiniteSet(PendingIn(after, e)) /\ Cardinality(PendingIn(after, e)) \in Nat
         /\ Cardinality(PendingIn(after, e)) <= 1 + errors'
         /\ e = log[h].event => Cardinality(PendingIn(after, e)) <= errors'
<1>0. OneAtATime
  BY Zenon DEF WebhookInv
<1>1. /\ DOMAIN after = DOMAIN log
      /\ \A i \in DOMAIN log : i # h => after[i] = log[i]
      /\ \A i \in DOMAIN log : Follows(after[i], log[i])
      /\ errors' \in Nat /\ errors \in Nat /\ errors' >= errors
  BY ClearedRows
<1>2. PendingIn(after, e) \subseteq PendingIn(log, e)
  BY <1>1 DEF PendingIn, Follows
<1>3. IsFiniteSet(PendingIn(log, e)) /\ Cardinality(PendingIn(log, e)) <= 1 + errors
  BY <1>0, Zenon DEF OneAtATime
<1>4. /\ IsFiniteSet(PendingIn(after, e))
      /\ Cardinality(PendingIn(after, e)) <= Cardinality(PendingIn(log, e))
      /\ PendingIn(after, e) # PendingIn(log, e) =>
           Cardinality(PendingIn(after, e)) # Cardinality(PendingIn(log, e))
  BY <1>2, <1>3, FS_Subset, Zenon
<1>5. Cardinality(PendingIn(log, e)) \in Nat /\ Cardinality(PendingIn(after, e)) \in Nat
  BY <1>3, <1>4, FS_CardinalityType
<1>6. Cardinality(PendingIn(after, e)) <= 1 + errors'
  BY <1>1, <1>3, <1>4, <1>5
<1>7. ASSUME e = log[h].event
      PROVE  Cardinality(PendingIn(after, e)) <= errors'
  <2>1. /\ h \in DOMAIN log /\ Underway(log[h]) /\ log[h] \in W!Attempt
        /\ log[h].state = "stored"
    BY HeadDue
  <2>2. CASE after = [log EXCEPT ![h].retry = "never"] /\ errors' = errors
    <3>1. after[h] = [log[h] EXCEPT !.retry = "never"]
      BY <2>1, <2>2
    <3>2. after[h].retry = "never" /\ after[h].state = "stored"
      BY <2>1, <3>1 DEF W!Attempt
    <3>3. h \in PendingIn(log, e) /\ h \notin PendingIn(after, e)
      BY <1>7, <2>1, <3>2 DEF PendingIn, Underway
    <3>4. QED
      BY <1>3, <1>4, <1>5, <2>2, <3>3, <1>1
  <2>3. CASE after = log /\ errors < MaxErrors /\ errors' = errors + 1
    BY <1>1, <1>3, <1>5, <2>3
  <2>4. QED
    BY <2>2, <2>3, Zenon DEF Cleared
<1>8. QED
  BY <1>4, <1>5, <1>6, <1>7

LEMMA StillWebhooks ==
  ASSUME WebhookInv, UNCHANGED <<errors, webhookVars>>
  PROVE  WebhookInv'
<1>1. UNCHANGED <<endpoints, log, retrier, sent, toggles, crashes, errors>>
  BY DEF webhookVars
<1>2. W!TypeOK'
  BY <1>1, Zenon DEF WebhookInv, W!TypeOK
<1>3. BatchDue' /\ ScheduledRows' /\ OneAtATime' /\ NotAfterAccepted'
  BY <1>1 DEF WebhookInv, BatchDue, ScheduledRows, OneAtATime, NotAfterAccepted
<1>4. W!AttemptsInOrder'
  BY <1>1 DEF WebhookInv, W!AttemptsInOrder
<1>5. QED
  BY <1>2, <1>3, <1>4, Zenon DEF WebhookInv

\* The worker goes on to the next row, having started an attempt or not.
LEMMA ContinueKeeps ==
  ASSUME WebhookInv, retrier.verdict # "none", NEW after,
         Cleared(after, Head(retrier.todo)), W!Continue(after),
         UNCHANGED <<endpoints, sent, toggles, crashes>>
  PROVE  WebhookInv'
<1>. DEFINE h == Head(retrier.todo)
<1>0. /\ W!TypeOK /\ ScheduledRows /\ BatchDue /\ OneAtATime /\ NotAfterAccepted
      /\ W!AttemptsInOrder
  BY Zenon DEF WebhookInv
<1>1. /\ h \in DOMAIN log /\ log[h] \in W!Attempt /\ log[h].retry = "due"
      /\ log[h].state = "stored" /\ ~ log[h].success /\ log[h].attempt < MaxAttempts
      /\ log[h].attempt + 1 \in 1 .. MaxAttempts /\ Underway(log[h])
      /\ Tail(retrier.todo) \in Seq(1 .. MaxDeliveries)
      /\ \A k \in DOMAIN Tail(retrier.todo) :
           /\ Tail(retrier.todo)[k] \in DOMAIN log \ {h}
           /\ log[Tail(retrier.todo)[k]].retry = "due"
      /\ \A j, k \in DOMAIN Tail(retrier.todo) :
           Tail(retrier.todo)[j] = Tail(retrier.todo)[k] => j = k
  BY HeadDue
<1>2. /\ after \in Seq(W!Attempt) /\ Len(after) = Len(log) /\ DOMAIN after = DOMAIN log
      /\ \A i \in DOMAIN log : i # h => after[i] = log[i]
      /\ after[h].event = log[h].event /\ after[h].attempt = log[h].attempt
      /\ after[h].state = "stored" /\ ~ after[h].success
      /\ after[h].retry = "never" \/ errors' > 0
      /\ \A i \in DOMAIN log : Follows(after[i], log[i])
      /\ errors' \in 0 .. MaxErrors /\ errors' \in Nat /\ errors \in Nat
      /\ errors' >= errors
      /\ errors' = 0 => after = [log EXCEPT ![h].retry = "never"]
  BY ClearedRows
<1>3. \A e \in Message :
        /\ IsFiniteSet(PendingIn(after, e)) /\ Cardinality(PendingIn(after, e)) \in Nat
        /\ Cardinality(PendingIn(after, e)) <= 1 + errors'
        /\ e = log[h].event => Cardinality(PendingIn(after, e)) <= errors'
  BY ClearedPending
<1>4. /\ retrier' = [todo |-> Tail(retrier.todo), verdict |-> "none"]
      /\ retrier'.todo = Tail(retrier.todo) /\ retrier'.verdict = "none"
      /\ retrier' \in W!Worker
  <2>1. retrier' = [todo |-> Tail(retrier.todo), verdict |-> "none"]
    BY DEF W!Continue
  <2>2. QED
    BY <1>1, <2>1 DEF W!Worker
<1>5. sent' = sent /\ UNCHANGED <<endpoints, toggles, crashes>>
  OBVIOUS
<1>. HIDE DEF h
<1>6. \A i \in DOMAIN after :
        /\ after[i].event \in sent
        /\ after[i].retry # "never" =>
             after[i].state = "stored" /\ ~ after[i].success /\ after[i].attempt < MaxAttempts
  BY <1>0, <1>2 DEF ScheduledRows, Follows
<1>7. errors' = 0 => \A i, j \in DOMAIN log :
        after[i].event = after[j].event /\ after[i].success /\ Underway(after[j]) => i = j
  <2>. SUFFICES ASSUME errors' = 0, NEW i \in DOMAIN log, NEW j \in DOMAIN log,
                       after[i].event = after[j].event, after[i].success, Underway(after[j])
                PROVE  i = j
    OBVIOUS
  <2>1. i # h /\ log[i].success /\ log[i].event = log[j].event /\ Underway(log[j])
    BY <1>2 DEF Follows
  <2>2. errors = 0
    BY <1>2
  <2>3. QED
    BY <1>0, <2>1, <2>2, Zenon DEF NotAfterAccepted
<1>8. ASSUME NEW j \in DOMAIN log, after[j].attempt > 1
      PROVE  \E i \in 1 .. j - 1 :
               /\ after[i].event = after[j].event
               /\ after[i].attempt = after[j].attempt - 1
               /\ after[i].state = "stored" /\ ~ after[i].success
               /\ after[i].retry = "never" \/ errors' > 0
  <2>1. after[j].attempt = log[j].attempt /\ after[j].event = log[j].event
    BY <1>2 DEF Follows
  <2>2. PICK i \in 1 .. j - 1 :
          /\ log[i].event = log[j].event
          /\ log[i].attempt = log[j].attempt - 1
          /\ log[i].state = "stored" /\ ~log[i].success
          /\ log[i].retry = "never" \/ errors > 0
    BY <1>0, <1>8, <2>1 DEF W!AttemptsInOrder
  <2>3. i \in DOMAIN log
    BY <1>0, LogTyped
  <2>4. Follows(after[i], log[i])
    BY <1>2, <2>3
  <2>5. /\ after[i].event = log[i].event /\ after[i].attempt = log[i].attempt
        /\ after[i].state = "stored" /\ ~ after[i].success
        /\ log[i].retry = "never" => after[i].retry = "never"
    BY <2>2, <2>4 DEF Follows
  <2>6. after[i].retry = "never" \/ errors' > 0
    BY <1>2, <2>2, <2>5
  <2>7. QED
    BY <2>1, <2>2, <2>5, <2>6
<1>9. CASE log' = after
  <2>1. W!TypeOK'
    <3>1. Len(log') <= MaxDeliveries /\ log' \in Seq(W!Attempt)
      BY <1>0, <1>2, <1>9, LogTyped
    <3>2. QED
      BY <1>0, <1>2, <1>4, <1>5, <3>1, Zenon DEF W!TypeOK
  <2>2. ScheduledRows'
    BY <1>5, <1>6, <1>9 DEF ScheduledRows
  <2>3. BatchDue'
    BY <1>1, <1>2, <1>4, <1>9 DEF BatchDue
  <2>4. OneAtATime'
    BY <1>3, <1>9, Zenon DEF OneAtATime
  <2>5. NotAfterAccepted'
    BY <1>2, <1>7, <1>9 DEF NotAfterAccepted
  <2>6. W!AttemptsInOrder'
    BY <1>2, <1>8, <1>9 DEF W!AttemptsInOrder
  <2>7. QED
    BY <2>1, <2>2, <2>3, <2>4, <2>5, <2>6, Zenon DEF WebhookInv
<1>10. ASSUME NEW r, r = W!Started(log[h].event, log[h].ep, log[h].attempt + 1),
              log' = Append(after, r), Len(log) < MaxDeliveries
       PROVE  WebhookInv'
  <2>. DEFINE n == Len(after) + 1
              e == log[h].event
  <2>1. /\ r \in W!Attempt /\ r.state = "posting" /\ r.event = e
        /\ r.attempt = log[h].attempt + 1
        /\ r.success = FALSE /\ r.retry = "never" /\ Underway(r)
    <3>1. log[h].event \in Message /\ log[h].ep \in Endpoint
      BY <1>1, AttemptTyped
    <3>2. log[h].attempt + 1 \in 1 .. MaxAttempts
      BY <1>1
    <3>3. /\ r \in W!Attempt /\ r.state = "posting" /\ r.event = log[h].event
          /\ r.attempt = log[h].attempt + 1
          /\ r.success = FALSE /\ r.retry = "never" /\ Underway(r)
      BY <1>10, <3>1, <3>2 DEF W!Started, W!Attempt, Underway
    <3>4. QED
      BY <3>3
  <2>2. /\ log' \in Seq(W!Attempt) /\ Len(log') = n
        /\ DOMAIN log' = DOMAIN after \cup {n} /\ DOMAIN after = 1 .. Len(after)
        /\ log'[n] = r /\ \A i \in DOMAIN after : log'[i] = after[i]
    BY <1>2, <1>10, <2>1, Grown
  <2>3. Len(after) \in Nat /\ n \in Nat /\ n \notin DOMAIN after
        /\ \A i \in DOMAIN after : i \in 1 .. n - 1
    BY <1>0, <1>2, <2>2, LogTyped
  <2>4. e \in Message
    BY <1>1, AttemptTyped
  <2>5. W!TypeOK'
    <3>1. Len(log') <= MaxDeliveries
      BY <1>0, <1>2, <1>10, <2>2, CountsTyped, LogTyped
    <3>2. QED
      BY <1>0, <1>2, <1>4, <1>5, <2>2, <3>1, Zenon DEF W!TypeOK
  <2>6. ScheduledRows'
    <3>1. e \in sent
      BY <1>0, <1>1 DEF ScheduledRows
    <3>2. QED
      BY <1>5, <1>6, <2>1, <2>2, <3>1 DEF ScheduledRows
  <2>7. BatchDue'
    <3>1. \A k \in DOMAIN Tail(retrier.todo) :
            /\ Tail(retrier.todo)[k] \in DOMAIN log'
            /\ log'[Tail(retrier.todo)[k]].retry = "due"
      <4>1. \A i \in DOMAIN log \ {h} : i \in DOMAIN log' /\ log'[i] = log[i]
        BY <1>2, <2>2, Zenon
      <4>2. QED
        BY <1>1, <4>1, Zenon
    <3>2. QED
      BY <1>1, <1>4, <3>1 DEF BatchDue
  <2>. HIDE DEF n, e
  <2>8. OneAtATime'
    <3>. SUFFICES ASSUME NEW d \in Message
                  PROVE  /\ IsFiniteSet(PendingIn(log', d))
                         /\ Cardinality(PendingIn(log', d)) <= 1 + errors'
      BY Zenon DEF OneAtATime
    <3>0. /\ IsFiniteSet(PendingIn(after, d)) /\ Cardinality(PendingIn(after, d)) \in Nat
          /\ Cardinality(PendingIn(after, d)) <= 1 + errors'
          /\ d = e => Cardinality(PendingIn(after, d)) <= errors'
      BY <1>3 DEF e
    <3>1. CASE d # e
      <4>1. PendingIn(log', d) = PendingIn(after, d)
        BY <2>1, <2>2, <3>1 DEF PendingIn
      <4>2. QED
        BY <3>0, <4>1
    <3>2. CASE d = e
      <4>1. PendingIn(log', d) = PendingIn(after, d) \cup {n}
        BY <2>1, <2>2, <3>2 DEF PendingIn
      <4>2. n \notin PendingIn(after, d)
        BY <2>3 DEF PendingIn
      <4>3. /\ IsFiniteSet(PendingIn(log', d))
            /\ Cardinality(PendingIn(log', d)) = Cardinality(PendingIn(after, d)) + 1
        BY <3>0, <4>1, <4>2, FS_AddElement
      <4>4. QED
        BY <1>2, <3>0, <3>2, <4>3
    <3>3. QED
      BY <3>1, <3>2
  <2>9. NotAfterAccepted'
    <3>. SUFFICES ASSUME errors' = 0, NEW i \in DOMAIN after \cup {n},
                         NEW j \in DOMAIN after \cup {n},
                         log'[i].event = log'[j].event, log'[i].success,
                         Underway(log'[j])
                  PROVE  i = j
      BY <2>2 DEF NotAfterAccepted
    <3>1. i \in DOMAIN log /\ log'[i] = after[i]
      BY <1>2, <2>1, <2>2
    <3>2. CASE j = n
      <4>1. log'[i].event = log[h].event
        BY <2>1, <2>2, <3>2 DEF e
      <4>2. log[i].success /\ log[i].event = log[h].event
        BY <1>2, <3>1, <4>1 DEF Follows
      <4>3. errors = 0
        BY <1>2
      <4>4. i = h
        BY <1>0, <1>1, <3>1, <4>2, <4>3, Zenon DEF NotAfterAccepted
      <4>5. QED
        BY <1>1, <4>2, <4>4
    <3>3. CASE j \in DOMAIN after
      <4>1. log'[j] = after[j] /\ j \in DOMAIN log
        BY <1>2, <2>2, <3>3
      <4>2. after[i].event = after[j].event /\ after[i].success /\ Underway(after[j])
        BY <3>1, <4>1
      <4>3. QED
        BY <1>7, <3>1, <4>1, <4>2, Zenon
    <3>4. QED
      BY <3>2, <3>3
  <2>10. W!AttemptsInOrder'
    <3>. SUFFICES ASSUME NEW j \in DOMAIN after \cup {n}, log'[j].attempt > 1
                  PROVE  \E i \in 1 .. j - 1 :
                           /\ log'[i].event = log'[j].event
                           /\ log'[i].attempt = log'[j].attempt - 1
                           /\ log'[i].state = "stored" /\ ~log'[i].success
                           /\ log'[i].retry = "never" \/ errors' > 0
      BY <2>2 DEF W!AttemptsInOrder
    <3>1. CASE j = n
      <4>1. log'[j] = r /\ log'[h] = after[h] /\ h \in 1 .. j - 1
        BY <1>1, <1>2, <2>2, <2>3, <3>1
      <4>2. log[h].attempt \in Nat
        BY <1>1, AttemptTyped, <1>0, CountsTyped
      <4>3. log'[h].event = log'[j].event /\ log'[h].attempt = log'[j].attempt - 1
        BY <1>2, <2>1, <4>1, <4>2 DEF e
      <4>4. QED
        BY <1>2, <4>1, <4>3
    <3>2. CASE j \in DOMAIN after
      <4>1. log'[j] = after[j] /\ j \in DOMAIN log
        BY <1>2, <2>2, <3>2
      <4>2. PICK i \in 1 .. j - 1 :
              /\ after[i].event = after[j].event
              /\ after[i].attempt = after[j].attempt - 1
              /\ after[i].state = "stored" /\ ~ after[i].success
              /\ after[i].retry = "never" \/ errors' > 0
        BY <1>8, <4>1
      <4>3. i \in DOMAIN after
        BY <2>2, <2>3, <3>2
      <4>4. log'[i] = after[i]
        BY <2>2, <4>3
      <4>5. QED
        BY <4>1, <4>2, <4>4
    <3>3. QED
      BY <3>1, <3>2
  <2>11. QED
    BY <2>5, <2>6, <2>7, <2>8, <2>9, <2>10, Zenon DEF WebhookInv
<1>11. QED
  <2>1. /\ retrier.verdict = "retry" => Len(log) < MaxDeliveries
        /\ log' = IF retrier.verdict = "retry"
                    THEN Append(after, W!Started(log[h].event, log[h].ep,
                                                log[h].attempt + 1))
                    ELSE after
    BY Zenon DEF W!Continue, h
  <2>2. CASE retrier.verdict = "retry"
    BY <1>10, <2>1, <2>2, Zenon
  <2>3. CASE retrier.verdict # "retry"
    BY <1>9, <2>1, <2>3
  <2>4. QED
    BY <2>2, <2>3

LEMMA ClearKeeps ==
  ASSUME WebhookInv, W!Clear
  PROVE  WebhookInv'
<1>. DEFINE h == Head(retrier.todo)
            after == [log EXCEPT ![h].retry = "never"]
<1>1. CASE W!ClearRetrySchedule
  <2>1. /\ retrier.verdict # "none" /\ W!Continue(after) /\ errors' = errors
        /\ UNCHANGED <<endpoints, sent, toggles, crashes>>
    BY <1>1 DEF W!ClearRetrySchedule
  <2>2. Cleared(after, h)
    BY <2>1 DEF Cleared
  <2>. HIDE DEF after
  <2>3. QED
    BY <2>1, <2>2, ContinueKeeps
<1>2. CASE W!ClearRetryScheduleFails
  <2>1. /\ retrier.verdict # "none" /\ W!Continue(log)
        /\ errors < MaxErrors /\ errors' = errors + 1
        /\ UNCHANGED <<endpoints, sent, toggles, crashes>>
    BY <1>2 DEF W!ClearRetryScheduleFails
  <2>2. Cleared(log, h)
    BY <2>1 DEF Cleared
  <2>3. QED
    BY <2>1, <2>2, ContinueKeeps
<1>3. QED
  BY <1>1, <1>2, Zenon DEF W!Clear

LEMMA InitWebhooks == W!Init => WebhookInv
<1>. SUFFICES ASSUME W!Init PROVE WebhookInv
  OBVIOUS
<1>0. /\ MaxErrors \in Nat /\ MaxDeliveries \in Nat /\ MaxToggles \in Nat
      /\ MaxCrashes \in Nat
  BY BackgroundAssumption, Zenon DEF W!WebhooksAssumption
<1>1. /\ endpoints = [ep \in Endpoint |-> "none"] /\ log = <<>> /\ sent = {}
      /\ retrier = [todo |-> <<>>, verdict |-> "none"]
      /\ toggles = 0 /\ errors = 0 /\ crashes = 0
  BY DEF W!Init, W!Idle
<1>2. W!TypeOK
  <2>1. retrier \in W!Worker
    <3>1. <<>> \in Seq(1 .. MaxDeliveries)
      BY EmptySeq
    <3>2. QED
      BY <1>1, <3>1 DEF W!Worker
  <2>2. log \in Seq(W!Attempt) /\ Len(log) = 0
    BY <1>1, EmptySeq
  <2>. HIDE DEF W!Attempt
  <2>3. QED
    BY <1>0, <1>1, <2>1, <2>2 DEF W!TypeOK
<1>3. DOMAIN log = {}
  BY <1>1
<1>4. ScheduledRows /\ BatchDue /\ NotAfterAccepted /\ W!AttemptsInOrder
  BY <1>1, <1>3 DEF ScheduledRows, BatchDue, NotAfterAccepted, W!AttemptsInOrder
<1>5. OneAtATime
  <2>1. \A e \in Message : PendingIn(log, e) = {}
    BY <1>3 DEF PendingIn
  <2>2. IsFiniteSet({}) /\ Cardinality({}) = 0
    BY FS_EmptySet
  <2>3. \A e \in Message :
          IsFiniteSet(PendingIn(log, e)) /\ Cardinality(PendingIn(log, e)) = 0
    BY <2>1, <2>2, Zenon
  <2>4. 0 <= 1 + errors
    BY <1>1
  <2>5. QED
    BY <2>3, <2>4, Zenon DEF OneAtATime
<1>6. QED
  BY <1>2, <1>4, <1>5, Zenon DEF WebhookInv

LEMMA NextWebhooks == WebhookInv /\ W!Next => WebhookInv'
<1>. SUFFICES ASSUME WebhookInv, W!Next PROVE WebhookInv'
  OBVIOUS
<1>1. CASE W!Registry
  BY <1>1, RegistryKeeps
<1>2. ASSUME NEW e \in Message, W!Dispatch(e) \/ W!DispatchFails(e)
      PROVE  WebhookInv'
  BY <1>2, DispatchKeeps, DispatchFailsKeeps
<1>3. ASSUME NEW i \in DOMAIN log, W!Answer(i) \/ W!Store(i) \/ W!ComeDue(i)
      PROVE  WebhookInv'
  BY <1>3, PostKeeps, CreateDeliveryKeeps, CreateDeliveryFailsKeeps, ComeDueKeeps
    DEF W!Answer, W!Store
<1>4. CASE W!Poll
  BY <1>4, PollKeeps, GetEndpointKeeps, ClearKeeps DEF W!Poll
<1>5. CASE W!Crash
  BY <1>5, CrashKeeps
<1>6. QED
  BY <1>1, <1>2, <1>3, <1>4, <1>5, Zenon DEF W!Next

\* The attempts for an event come one after another until one is accepted: one is
\* under way or scheduled, and one more for each statement that failed; each follows
\* a stored failure of the one before it (webhook/service.go:253, 311-326).
THEOREM AttemptsAreSound == AllSpec => []AttemptsSound
<1>. DEFINE Inv == part = "webhooks" => WebhookInv
            all == <<part, errors, webhookVars, vars, cleanupVars, groupVars, limitVars>>
<1>1. AllInit => Inv
  BY InitWebhooks DEF AllInit
<1>2. Inv /\ [AllNext]_all => Inv'
  <2>. SUFFICES ASSUME Inv, [AllNext]_all, part' = "webhooks" PROVE WebhookInv'
    OBVIOUS
  <2>1. CASE Webhooks
    <3>1. part = "webhooks" /\ W!Next
      BY <2>1 DEF Webhooks
    <3>2. QED
      BY <3>1, NextWebhooks
  <2>2. CASE UNCHANGED all
    <3>1. WebhookInv /\ UNCHANGED <<errors, webhookVars>>
      BY <2>2
    <3>2. QED
      BY <3>1, StillWebhooks
  <2>3. CASE ActivityLog \/ LogCleanup \/ SessionGroups \/ RateLimit
    BY <2>3 DEF ActivityLog, LogCleanup, SessionGroups, RateLimit
  <2>4. QED
    BY <2>1, <2>2, <2>3, Zenon DEF AllNext
<1>3. Inv => AttemptsSound
  BY WhatIsSound DEF AttemptsSound
<1>4. QED
  BY <1>1, <1>2, <1>3, PTL DEF AllSpec

=============================================================================
