---------------------------- MODULE Plerkle_proofs ----------------------------
(***************************************************************************)
(* Proofs about Plerkle for any configurations, notifications, buffer      *)
(* sizes and bounds.  They rest on one invariant: a message is in one      *)
(* place at a time (a task, the channel, a stream, the handler), and every *)
(* message that was ever offered stands for a notification of its own.     *)
(***************************************************************************)
EXTENDS Plerkle, SequenceTheorems, TLAPS

Stream == {"ACC", "SLT", "TXN", "BLK"}

\* What stream s may hold.
Entry(s) == {m \in Message : m.stream = s}

Group(s) == [group : BOOLEAN, entries : Seq(Entry(s)), read : Nat]

Typed ==
  /\ plugin # None =>
       /\ plugin[1].config \in Configs
       /\ plugin[1].transaction_selector = create_transaction_selector_from_config(plugin[1].config)
       /\ loads >= 1
  /\ tasks \subseteq Message
  /\ channel \in Seq(Message) /\ Len(channel) <= Capacity
  /\ messenger \in {"none", "connecting", "ready", "broken", "gone"}
  /\ DOMAIN redis = Stream
  /\ \A s \in Stream : redis[s] \in Group(s) /\ redis[s].read <= Len(redis[s].entries)
  /\ ingester \in {"starting", "serving", "down"}
  /\ inhand = None \/ \E m \in TransactionMessage : inhand = Some(m)
  /\ handled \subseteq TransactionMessage /\ offered \subseteq Message
  /\ loads \in 0..MaxLoads /\ faults \in 0..MaxFaults

\* A message is in one place at a time, and was offered.
Placed ==
  /\ IsInjective(channel)
  /\ tasks \cap ToSet(channel) = {}
  /\ \A s \in Stream :
       /\ IsInjective(redis[s].entries)
       /\ (tasks \cup ToSet(channel)) \cap ToSet(redis[s].entries) = {}
       /\ ToSet(redis[s].entries) \subseteq offered
  /\ ToSet(inhand) \cap (tasks \cup ToSet(channel) \cup Unread(redis["TXN"])) = {}
  /\ tasks \cup ToSet(channel) \cup ToSet(inhand) \subseteq offered

\* A message that was offered was notified of, at a load of the past or the present one.
Noticed ==
  /\ \A m \in offered : <<m.notice, m.load>> \in notified
  /\ \A p \in notified : p[2] \in 1..loads

\* There are no entries before there is a group, and a messenger that sends has
\* made all groups and set all buffer sizes.
Ready ==
  /\ messenger = "ready" => /\ \A s \in Stream : redis[s].group
                            /\ streams = [s \in Stream |-> Some(MAXLEN)]
  /\ \A s \in Stream : ~redis[s].group => redis[s].entries = <<>>

IInv == Typed /\ Placed /\ Noticed /\ Ready

-----------------------------------------------------------------------------
(* Sequences as sets. *)

\* The elements of a sequence.
LEMMA ToSetOf ==
  ASSUME NEW S, NEW s \in Seq(S)
  PROVE  ToSet(s) = {s[i] : i \in 1..Len(s)} /\ ToSet(s) \subseteq S
  <1>1. DOMAIN s = 1..Len(s) /\ \A i \in 1..Len(s) : s[i] \in S
    BY LenProperties, ElementOfSeq
  <1> QED
    BY <1>1 DEF ToSet

\* Sequences of no and of one element.
LEMMA ToSetSmall ==
  /\ ToSet(<<>>) = {}
  /\ \A x : ToSet(<<x>>) = {x}
  /\ IsInjective(<<>>)
  BY DEF ToSet, IsInjective

\* A sequence without repetition.
LEMMA InjectiveSeq ==
  ASSUME NEW S, NEW s \in Seq(S)
  PROVE  IsInjective(s) <=> \A i, j \in 1..Len(s) : s[i] = s[j] => i = j
  BY LenProperties DEF IsInjective

\* Appending adds an element, and repeats none that is new.
LEMMA ToSetAppend ==
  ASSUME NEW S, NEW s \in Seq(S), NEW x \in S
  PROVE  /\ ToSet(Append(s, x)) = ToSet(s) \cup {x}
         /\ IsInjective(s) /\ x \notin ToSet(s) => IsInjective(Append(s, x))
  <1> DEFINE t == Append(s, x)
  <1>1. /\ t \in Seq(S) /\ Len(t) = Len(s) + 1 /\ t[Len(s) + 1] = x /\ Len(s) \in Nat
        /\ \A i \in 1..Len(s) : t[i] = s[i]
    BY AppendProperties, LenProperties
  <1> HIDE DEF t
  <1>2. \A i \in 1..Len(t) : i \in 1..Len(s) \/ i = Len(s) + 1
    BY <1>1
  <1>3. Len(s) + 1 \in 1..Len(t) /\ \A i \in 1..Len(s) : i \in 1..Len(t)
    BY <1>1
  <1>4. ToSet(s) = {s[i] : i \in 1..Len(s)} /\ ToSet(t) = {t[i] : i \in 1..Len(t)}
    BY <1>1, ToSetOf
  <1>5. ToSet(t) = ToSet(s) \cup {x}
    BY <1>1, <1>2, <1>3, <1>4
  <1>6. ASSUME IsInjective(s), x \notin ToSet(s) PROVE IsInjective(t)
    <2>1. \A i, j \in 1..Len(s) : s[i] = s[j] => i = j
      BY <1>6, InjectiveSeq
    <2>2. \A i \in 1..Len(s) : s[i] # x
      BY <1>4, <1>6
    <2>3. \A i, j \in 1..Len(t) : t[i] = t[j] => i = j
      BY <1>1, <1>2, <2>1, <2>2
    <2> QED
      BY <1>1, <2>3, InjectiveSeq
  <1> QED
    BY <1>5, <1>6 DEF t

\* Taking the head away.
LEMMA ToSetTail ==
  ASSUME NEW S, NEW s \in Seq(S), s # <<>>
  PROVE  /\ ToSet(s) = {Head(s)} \cup ToSet(Tail(s))
         /\ Head(s) \in S /\ Tail(s) \in Seq(S) /\ Len(Tail(s)) = Len(s) - 1
         /\ IsInjective(s) => Head(s) \notin ToSet(Tail(s)) /\ IsInjective(Tail(s))
  <1> DEFINE t == Tail(s)
  <1>1. /\ t \in Seq(S) /\ Len(t) = Len(s) - 1 /\ Head(s) = s[1] /\ Head(s) \in S
        /\ Len(s) \in Nat \ {0}
        /\ \A i \in 1..Len(t) : t[i] = s[i + 1]
    BY HeadTailProperties, EmptySeq
  <1> HIDE DEF t
  <1>2. \A i \in 1..Len(s) : i = 1 \/ (i - 1 \in 1..Len(t) /\ (i - 1) + 1 = i)
    BY <1>1
  <1>3. 1 \in 1..Len(s) /\ \A i \in 1..Len(t) : i + 1 \in 1..Len(s) /\ i + 1 # 1
    BY <1>1
  <1>4. ToSet(s) = {s[i] : i \in 1..Len(s)} /\ ToSet(t) = {t[i] : i \in 1..Len(t)}
    BY <1>1, ToSetOf
  <1>5. ToSet(s) = {Head(s)} \cup ToSet(t)
    <2>1. ASSUME NEW i \in 1..Len(s) PROVE s[i] = Head(s) \/ s[i] \in ToSet(t)
      BY <1>1, <1>2, <1>4
    <2>2. ASSUME NEW i \in 1..Len(t) PROVE t[i] \in ToSet(s)
      BY <1>1, <1>3, <1>4
    <2>3. Head(s) \in ToSet(s)
      BY <1>1, <1>3, <1>4
    <2> QED
      BY <1>4, <2>1, <2>2, <2>3
  <1>6. ASSUME IsInjective(s) PROVE Head(s) \notin ToSet(t) /\ IsInjective(t)
    <2>1. \A i, j \in 1..Len(s) : s[i] = s[j] => i = j
      BY <1>6, InjectiveSeq
    <2>2. \A i, j \in 1..Len(t) : t[i] = t[j] => i = j
      BY <1>1, <1>3, <2>1
    <2>3. \A i \in 1..Len(t) : t[i] # Head(s)
      BY <1>1, <1>3, <2>1
    <2> QED
      BY <1>1, <1>4, <2>2, <2>3, InjectiveSeq
  <1> QED
    BY <1>1, <1>5, <1>6 DEF t

\* What is left of a sequence from a place on.
LEMMA ToSetSuffix ==
  ASSUME NEW S, NEW s \in Seq(S), NEW k \in 0..Len(s)
  PROVE  LET t == SubSeq(s, k + 1, Len(s))
         IN  /\ t \in Seq(S) /\ Len(t) = Len(s) - k
             /\ \A i \in 1..Len(t) : t[i] = s[k + i]
             /\ ToSet(t) = {s[i] : i \in k+1..Len(s)}
             /\ IsInjective(s) => IsInjective(t)
  <1> DEFINE t == SubSeq(s, k + 1, Len(s))
  <1>1. Len(s) \in Nat /\ \A i \in k+1..Len(s) : s[i] \in S
    BY LenProperties, ElementOfSeq
  <1>2. /\ t \in Seq(S) /\ Len(t) = IF k + 1 <= Len(s) THEN Len(s) - (k + 1) + 1 ELSE 0
        /\ \A i \in 1..Len(s) - (k + 1) + 1 : t[i] = s[(k + 1) + i - 1]
    BY <1>1, SubSeqProperties
  <1> HIDE DEF t
  <1>3. Len(t) = Len(s) - k
    BY <1>1, <1>2
  <1>4. \A i \in 1..Len(t) : t[i] = s[k + i] /\ k + i \in k+1..Len(s) /\ k + i \in 1..Len(s)
    BY <1>1, <1>2, <1>3
  <1>5. \A i \in k+1..Len(s) : i - k \in 1..Len(t) /\ k + (i - k) = i
    BY <1>1, <1>3
  <1>6. ToSet(t) = {t[i] : i \in 1..Len(t)}
    BY <1>2, ToSetOf
  <1>7. ToSet(t) = {s[i] : i \in k+1..Len(s)}
    <2>1. \A i \in 1..Len(t) : t[i] \in {s[j] : j \in k+1..Len(s)}
      BY <1>4
    <2>2. \A i \in k+1..Len(s) : s[i] \in {t[j] : j \in 1..Len(t)}
      BY <1>4, <1>5
    <2> QED
      BY <1>6, <2>1, <2>2
  <1>8. ASSUME IsInjective(s) PROVE IsInjective(t)
    <2>1. \A i, j \in 1..Len(s) : s[i] = s[j] => i = j
      BY <1>8, InjectiveSeq
    <2>2. ASSUME NEW i \in 1..Len(t), NEW j \in 1..Len(t), t[i] = t[j] PROVE i = j
      <3>1. k + i = k + j
        BY <1>4, <2>1, <2>2
      <3> QED
        BY <3>1
    <2> QED
      BY <1>2, <2>2, InjectiveSeq
  <1> QED
    BY <1>2, <1>3, <1>4, <1>7, <1>8 DEF t

-----------------------------------------------------------------------------
(* What is done to a stream. *)

\* The four streams that the plugin adds.
LEMMA StreamsAre == ToSet(STREAMS) = Stream /\ Len(STREAMS) = 4
  <1>1. STREAMS \in Seq(Stream) /\ Len(STREAMS) = 4
    BY DEF STREAMS, Stream
  <1>2. ToSet(STREAMS) = {STREAMS[i] : i \in 1..4}
    BY <1>1, ToSetOf
  <1>3. STREAMS[1] = "ACC" /\ STREAMS[2] = "SLT" /\ STREAMS[3] = "TXN" /\ STREAMS[4] = "BLK"
    BY DEF STREAMS
  <1>4. \A i \in 1..4 : i = 1 \/ i = 2 \/ i = 3 \/ i = 4
    OBVIOUS
  <1>5. 1 \in 1..4 /\ 2 \in 1..4 /\ 3 \in 1..4 /\ 4 \in 1..4
    OBVIOUS
  <1>6. \A x : x \in {STREAMS[i] : i \in 1..4} <=> x \in Stream
    BY <1>3, <1>4, <1>5 DEF Stream
  <1> QED
    BY <1>1, <1>2, <1>6

\* The entries of a stream that were not read.
LEMMA UnreadOf ==
  ASSUME NEW s, NEW r \in Group(s), r.read <= Len(r.entries)
  PROVE  /\ Unread(r) = {r.entries[i] : i \in r.read + 1 .. Len(r.entries)}
         /\ Unread(r) \subseteq ToSet(r.entries)
         /\ ToSet(r.entries) \subseteq Entry(s)
  <1>1. r.entries \in Seq(Entry(s)) /\ r.read \in 0..Len(r.entries) /\ Len(r.entries) \in Nat
    BY DEF Group
  <1>2. Unread(r) = {r.entries[i] : i \in r.read + 1 .. Len(r.entries)}
    BY <1>1, ToSetSuffix DEF Unread
  <1>3. ToSet(r.entries) = {r.entries[i] : i \in 1..Len(r.entries)} /\ ToSet(r.entries) \subseteq Entry(s)
    BY <1>1, ToSetOf
  <1>4. \A i \in r.read + 1 .. Len(r.entries) : i \in 1..Len(r.entries)
    BY <1>1
  <1> QED
    BY <1>2, <1>3, <1>4

\* A group that is made for an empty stream skips nothing.
LEMMA AddStream ==
  ASSUME NEW s, NEW r \in Group(s), r.read <= Len(r.entries), ~r.group => r.entries = <<>>
  PROVE  /\ add_stream(r) \in Group(s) /\ add_stream(r).group
         /\ add_stream(r).entries = r.entries /\ add_stream(r).read = r.read
  <1>1. CASE r.group
    BY <1>1 DEF add_stream
  <1>2. CASE ~r.group
    <2>1. r.entries = <<>> /\ Len(r.entries) = 0 /\ r.read = 0
      BY <1>2 DEF Group
    <2> QED
      BY <1>2, <2>1 DEF add_stream, Group
  <1> QED
    BY <1>1, <1>2

\* An entry is added, and old ones may be dropped: the new one stays, unread, and
\* only a stream at its buffer size loses unread entries.
LEMMA AddedAndTrimmed ==
  ASSUME NEW s, NEW r \in Group(s), r.read <= Len(r.entries), r.group, NEW m \in Entry(s),
         IsInjective(r.entries), m \notin ToSet(r.entries),
         NEW t \in Trimmed([r EXCEPT !.entries = Append(@, m)])
  PROVE  /\ t \in Group(s) /\ t.read <= Len(t.entries) /\ t.group
         /\ IsInjective(t.entries)
         /\ ToSet(t.entries) \subseteq ToSet(r.entries) \cup {m}
         /\ Unread(t) \subseteq Unread(r) \cup {m}
         /\ m \in Unread(t)
         /\ Len(r.entries) >= MAXLEN \/ Unread(t) = Unread(r) \cup {m}
  <1> DEFINE old == r.entries
             new == Append(old, m)
             q == [r EXCEPT !.entries = new]
  <1>1. old \in Seq(Entry(s)) /\ r.read \in Nat /\ Len(old) \in Nat /\ r.read <= Len(old)
    BY DEF Group
  <1>2. /\ new \in Seq(Entry(s)) /\ Len(new) = Len(old) + 1 /\ new[Len(old) + 1] = m
        /\ \A i \in 1..Len(old) : new[i] = old[i]
    BY <1>1, AppendProperties
  <1>3. ToSet(new) = ToSet(old) \cup {m} /\ IsInjective(new)
    BY <1>1, ToSetAppend
  <1>4. q \in Group(s) /\ q.entries = new /\ q.read = r.read /\ q.group
    BY <1>1, <1>2 DEF Group
  <1> HIDE DEF new
  <1>5. PICK k \in 0..Len(new) :
          /\ k = 0 \/ k <= Len(new) - MAXLEN
          /\ t = [q EXCEPT !.entries = SubSeq(@, k + 1, Len(@)), !.read = IF @ > k THEN @ - k ELSE 0]
    BY <1>4 DEF Trimmed, new
  <1> DEFINE rest == SubSeq(new, k + 1, Len(new))
             at == IF r.read > k THEN r.read - k ELSE 0
  <1>6. /\ rest \in Seq(Entry(s)) /\ Len(rest) = Len(new) - k /\ IsInjective(rest)
        /\ \A i \in 1..Len(rest) : rest[i] = new[k + i]
        /\ ToSet(rest) = {new[i] : i \in k+1..Len(new)}
    <2> HIDE DEF q, old, at
    <2>1. new \in Seq(Entry(s)) /\ IsInjective(new)
      BY <1>2, <1>3
    <2> QED
      BY <2>1, ToSetSuffix
  <1>7. k <= Len(old) /\ (k # 0 => Len(old) >= MAXLEN)
    BY <1>1, <1>2, <1>5, PipelineBounds
  <1>8. at \in Nat /\ at <= Len(rest)
    BY <1>1, <1>2, <1>6, <1>7
  <1>9. t.entries = rest /\ t.read = at /\ t.group /\ t \in Group(s)
    <2> HIDE DEF q
    <2>1. t = [q EXCEPT !.entries = rest, !.read = at]
      BY <1>4, <1>5
    <2> HIDE DEF rest, at
    <2> QED
      BY <1>4, <1>6, <1>8, <2>1 DEF Group
  <1> HIDE DEF rest, at, q, old
  <1>10. Unread(t) = {rest[i] : i \in at+1..Len(rest)}
    BY <1>8, <1>9, UnreadOf
  <1>11. Unread(r) = {old[i] : i \in r.read+1..Len(old)}
    BY UnreadOf DEF old
  <1>12. ToSet(rest) \subseteq ToSet(new)
    <2>1. ToSet(new) = {new[i] : i \in 1..Len(new)}
      BY <1>2, ToSetOf
    <2>2. \A i \in k+1..Len(new) : i \in 1..Len(new)
      BY <1>2, <1>5
    <2>3. \A i \in k+1..Len(new) : new[i] \in ToSet(new)
      BY <2>1, <2>2
    <2> QED
      BY <1>6, <2>3
  <1>13. m \in Unread(t)
    <2>1. Len(rest) \in at+1..Len(rest) /\ rest[Len(rest)] = new[k + Len(rest)]
          /\ k + Len(rest) = Len(old) + 1
      BY <1>1, <1>2, <1>5, <1>6, <1>7, <1>8 DEF at
    <2> QED
      BY <1>2, <1>10, <2>1
  <1>14. ASSUME NEW i \in at+1..Len(rest) PROVE rest[i] \in Unread(r) \cup {m}
    <2>1. rest[i] = new[k + i] /\ k + i \in r.read+1..Len(old)+1
      BY <1>1, <1>2, <1>5, <1>6, <1>7, <1>8 DEF at
    <2>2. CASE k + i = Len(old) + 1
      BY <1>2, <2>1, <2>2
    <2>3. CASE k + i # Len(old) + 1
      <3>1. k + i \in r.read+1..Len(old) /\ k + i \in 1..Len(old)
        BY <1>1, <2>1, <2>3
      <3> QED
        BY <1>2, <1>11, <2>1, <3>1
    <2> QED
      BY <2>2, <2>3
  <1>15. ASSUME k = 0, NEW i \in r.read+1..Len(old) PROVE old[i] \in Unread(t)
    <2>1. at = r.read /\ i \in 1..Len(old) /\ i \in 1..Len(rest) /\ i \in at+1..Len(rest) /\ k + i = i
      BY <1>1, <1>2, <1>6, <1>15 DEF at
    <2>2. rest[i] = old[i]
      BY <1>2, <1>6, <2>1
    <2> QED
      BY <1>10, <2>1, <2>2
  <1>16. Unread(t) \subseteq Unread(r) \cup {m}
    BY <1>10, <1>14
  <1>17. k = 0 => Unread(t) = Unread(r) \cup {m}
    BY <1>11, <1>13, <1>15, <1>16
  <1> QED
    BY <1>3, <1>6, <1>7, <1>8, <1>9, <1>12, <1>13, <1>16, <1>17 DEF old

\* The group is given the next entry.
LEMMA AdvanceOf ==
  ASSUME NEW s, NEW r \in Group(s), r.read < Len(r.entries), IsInjective(r.entries)
  PROVE  /\ Advance(r) \in Group(s) /\ Advance(r).read <= Len(r.entries)
         /\ Advance(r).entries = r.entries /\ Advance(r).group = r.group
         /\ r.entries[r.read + 1] \in Entry(s) /\ r.entries[r.read + 1] \in Unread(r)
         /\ Unread(Advance(r)) = Unread(r) \ {r.entries[r.read + 1]}
  <1> DEFINE old == r.entries
             a == r.read
             t == Advance(r)
  <1>1. old \in Seq(Entry(s)) /\ a \in Nat /\ Len(old) \in Nat /\ a + 1 \in 1..Len(old)
    BY DEF Group
  <1>2. t \in Group(s) /\ t.read = a + 1 /\ t.entries = old /\ t.group = r.group
    BY <1>1 DEF Advance, Group
  <1> HIDE DEF t
  <1>3. /\ Unread(r) = {old[i] : i \in a+1..Len(old)}
        /\ Unread(t) = {old[i] : i \in (a+1)+1..Len(old)}
    BY <1>1, <1>2, UnreadOf
  <1>4. \A i, j \in 1..Len(old) : old[i] = old[j] => i = j
    BY <1>1, InjectiveSeq
  <1> HIDE DEF old, a
  <1>5. \A i \in a+1..Len(old) : i \in 1..Len(old) /\ (i = a + 1 \/ i \in (a+1)+1..Len(old))
    BY <1>1
  <1>6. \A i \in (a+1)+1..Len(old) : i \in a+1..Len(old) /\ i # a + 1
    BY <1>1
  <1>7. Unread(t) = Unread(r) \ {old[a + 1]}
    <2>1. \A i \in (a+1)+1..Len(old) : old[i] \in Unread(r) /\ old[i] # old[a + 1]
      BY <1>1, <1>3, <1>4, <1>5, <1>6
    <2>2. \A i \in a+1..Len(old) : old[i] = old[a + 1] \/ old[i] \in Unread(t)
      BY <1>3, <1>5
    <2> QED
      BY <1>3, <2>1, <2>2
  <1>8. old[a + 1] \in Entry(s) /\ old[a + 1] \in Unread(r)
    <2>1. a + 1 \in a+1..Len(old)
      BY <1>1
    <2> QED
      BY <1>1, <1>3, <2>1, ElementOfSeq
  <1> QED
    BY <1>1, <1>2, <1>7, <1>8 DEF old, a, t

-----------------------------------------------------------------------------
(* The invariant. *)

\* What messages are made of.
LEMMA MessageFields ==
  /\ \A m \in Message : m.stream \in Stream /\ m.load \in 1..MaxLoads
  /\ \A m \in Message : m \in TransactionMessage <=> m.stream = "TXN"
  /\ TransactionMessage \subseteq Message
  BY DEF Message, TransactionMessage, MessageOf, SerializedData, Stream

\* Nothing has set out.
LEMMA InitIInv == Init => IInv
  <1> SUFFICES ASSUME Init PROVE IInv
    OBVIOUS
  <1>1. /\ plugin = None /\ tasks = {} /\ channel = <<>> /\ messenger = "none" /\ inhand = <<>>
        /\ redis = [s \in Stream |-> [group |-> FALSE, entries |-> <<>>, read |-> 0]]
        /\ ingester = "starting" /\ handled = {} /\ offered = {} /\ notified = {}
        /\ loads = 0 /\ faults = 0
    BY StreamsAre DEF Init, None
  <1>2. \A s \in Stream : redis[s].entries = <<>> /\ redis[s].read = 0 /\ redis[s] \in Group(s)
    BY <1>1 DEF Group
  <1>3. Typed
    <2>1. Len(<<>>) = 0 /\ channel \in Seq(Message)
      BY <1>1
    <2> QED
      BY <1>1, <1>2, <2>1, PipelineBounds DEF Typed, None
  <1>4. Placed
    BY <1>1, <1>2, ToSetSmall DEF Placed
  <1>5. Noticed /\ Ready
    BY <1>1, <1>2 DEF Noticed, Ready
  <1> QED
    BY <1>3, <1>4, <1>5 DEF IInv

\* Steps of the plugin and its validator that add no message.
LEMMA LoadIInv ==
  ASSUME IInv, on_load
  PROVE  IInv'
  <1>1. /\ plugin' # None
        /\ plugin'[1].config \in Configs
        /\ plugin'[1].transaction_selector = create_transaction_selector_from_config(plugin'[1].config)
    BY DEF on_load, None, Some
  <1>2. /\ loads \in 0..MaxLoads /\ loads < MaxLoads /\ loads' = loads + 1 /\ messenger' = "connecting"
        /\ UNCHANGED <<notified, tasks, channel, redis, ingester, inhand, handled, offered, faults>>
    BY DEF on_load, IInv, Typed, reading, ghosts
  <1>3. loads' \in 0..MaxLoads /\ loads' >= 1 /\ \A n \in 1..loads : n \in 1..loads'
    BY <1>2, PipelineBounds
  <1>4. Typed'
    BY <1>1, <1>2, <1>3 DEF IInv, Typed
  <1>5. Placed'
    BY <1>2 DEF IInv, Placed
  <1>6. Noticed'
    BY <1>2, <1>3 DEF IInv, Noticed
  <1>7. Ready'
    BY <1>2 DEF IInv, Ready
  <1> QED
    BY <1>4, <1>5, <1>6, <1>7 DEF IInv

\* Unloading drops tasks and channel.
LEMMA UnloadIInv ==
  ASSUME IInv, on_unload
  PROVE  IInv'
  <1>1. /\ plugin' = None /\ tasks' = {} /\ channel' = <<>> /\ messenger' = "none"
        /\ UNCHANGED <<notified, redis, ingester, inhand, handled, offered, loads, faults>>
    BY DEF on_unload, reading, ghosts
  <1>2. channel' \in Seq(Message) /\ Len(channel') <= Capacity
    BY <1>1, PipelineBounds
  <1>3. Typed'
    BY <1>1, <1>2 DEF IInv, Typed
  <1>4. Placed'
    BY <1>1, ToSetSmall DEF IInv, Placed
  <1>5. Noticed' /\ Ready'
    BY <1>1 DEF IInv, Noticed, Ready
  <1> QED
    BY <1>3, <1>4, <1>5 DEF IInv

\* A notification that is new stands for a message that was never offered.
LEMMA NewMessage ==
  ASSUME IInv, NEW notice, Notify(notice), NEW data \in Message, data.notice = notice, data.load = loads
  PROVE  /\ data \notin offered /\ data \notin tasks /\ data \notin ToSet(channel)
         /\ data \notin ToSet(inhand) /\ \A s \in Stream : data \notin ToSet(redis[s].entries)
  <1>1. data \notin offered
    BY DEF IInv, Noticed, Notify
  <1> QED
    BY <1>1 DEF IInv, Placed

\* A notification is one of a running plugin.
LEMMA NotifyIInv ==
  ASSUME IInv, NEW notice, Notify(notice)
  PROVE  loads \in 1..MaxLoads /\ \A p \in notified' : p[2] \in 1..loads
  <1>1. loads \in 1..MaxLoads
    BY PipelineBounds DEF Notify, IInv, Typed
  <1>2. \A p \in notified' : p \in notified \/ p = <<notice, loads>>
    BY DEF Notify
  <1> QED
    BY <1>1, <1>2, PipelineBounds DEF IInv, Noticed

\* A message that sets out is a new one, in one task.
LEMMA SpawnIInv ==
  ASSUME IInv, NEW stream, NEW builder, NEW notice, Notify(notice), Spawn(stream, builder, notice),
         SerializedData(stream, builder, notice, loads) \in Message
  PROVE  IInv'
  <1> DEFINE data == SerializedData(stream, builder, notice, loads)
  <1>1. data \in Message /\ data.notice = notice /\ data.load = loads
    BY DEF SerializedData
  <1>2. /\ tasks' = tasks \cup {data} /\ offered' = offered \cup {data}
        /\ notified' = notified \cup {<<data.notice, data.load>>}
        /\ UNCHANGED <<plugin, channel, messenger, streams, redis, ingester, inhand, handled, loads, faults>>
    BY <1>1 DEF Spawn, Notify, reading
  <1> HIDE DEF data
  <1>3. /\ data \notin offered /\ data \notin tasks /\ data \notin ToSet(channel)
        /\ data \notin ToSet(inhand) /\ \A s \in Stream : data \notin ToSet(redis[s].entries)
    BY <1>1, NewMessage
  <1>4. data \notin Unread(redis["TXN"]) \/ data \notin ToSet(inhand)
    BY <1>3
  <1>5. Typed'
    BY <1>1, <1>2 DEF IInv, Typed
  <1>6. Placed'
    BY <1>2, <1>3 DEF IInv, Placed
  <1>7. Noticed'
    BY <1>1, <1>2, NotifyIInv DEF IInv, Noticed
  <1>8. Ready'
    BY <1>2 DEF IInv, Ready
  <1> QED
    BY <1>5, <1>6, <1>7, <1>8 DEF IInv

\* A notification that is not selected moves nothing.
LEMMA IgnoreIInv ==
  ASSUME IInv, NEW notice, Notify(notice), Ignore
  PROVE  IInv'
  <1>1. /\ notified \subseteq notified'
        /\ UNCHANGED <<plugin, tasks, channel, messenger, streams, redis, ingester, inhand, handled,
                       offered, loads, faults>>
    BY DEF Ignore, Notify, sending, reading, ghosts
  <1>2. Noticed'
    BY <1>1, NotifyIInv DEF IInv, Noticed
  <1>3. Typed' /\ Ready'
    BY <1>1 DEF IInv, Typed, Ready
  <1>4. Placed'
    BY <1>1 DEF IInv, Placed
  <1> QED
    BY <1>2, <1>3, <1>4 DEF IInv

\* Every notification is written as a message of its stream.
LEMMA Serialized ==
  ASSUME IInv, plugin # None
  PROVE  /\ \A a \in AccountUpdates : SerializedData("ACC", serialize_account(a), a, loads) \in Message
         /\ \A u \in SlotUpdates : SerializedData("SLT", serialize_slot_status(u), u, loads) \in Message
         /\ \A b \in Blocks : SerializedData("BLK", serialize_block(b), b, loads) \in Message
         /\ \A tx \in Transactions :
              /\ SerializedData("TXN", serialize_transaction(tx), tx, loads) = MessageOf(tx, loads)
              /\ MessageOf(tx, loads) \in TransactionMessage
  <1>1. loads \in 1..MaxLoads
    BY PipelineBounds DEF IInv, Typed
  <1> QED
    BY <1>1 DEF Message, TransactionMessage, MessageOf

\* The four callbacks.
LEMMA NoticesIInv ==
  ASSUME IInv, update_account \/ update_slot_status \/ notify_transaction \/ notify_block_metadata
  PROVE  IInv'
  <1>1. ASSUME update_account PROVE IInv'
    <2>1. PICK account \in AccountUpdates :
            /\ Notify(account)
            /\ Spawn("ACC", serialize_account(account), account) \/ Ignore
      BY <1>1 DEF update_account
    <2>2. SerializedData("ACC", serialize_account(account), account, loads) \in Message
      BY <2>1, Serialized DEF Notify
    <2> QED
      BY <2>1, <2>2, SpawnIInv, IgnoreIInv
  <1>2. ASSUME update_slot_status PROVE IInv'
    <2>1. PICK update \in SlotUpdates :
            Notify(update) /\ Spawn("SLT", serialize_slot_status(update), update)
      BY <1>2 DEF update_slot_status
    <2>2. SerializedData("SLT", serialize_slot_status(update), update, loads) \in Message
      BY <2>1, Serialized DEF Notify
    <2> QED
      BY <2>1, <2>2, SpawnIInv
  <1>3. ASSUME notify_transaction PROVE IInv'
    <2>1. PICK tx \in Transactions :
            /\ Notify(tx)
            /\ Spawn("TXN", serialize_transaction(tx), tx) \/ Ignore
      BY <1>3 DEF notify_transaction
    <2>2. SerializedData("TXN", serialize_transaction(tx), tx, loads) \in Message
      BY <2>1, Serialized, MessageFields DEF Notify
    <2> QED
      BY <2>1, <2>2, SpawnIInv, IgnoreIInv
  <1>4. ASSUME notify_block_metadata PROVE IInv'
    <2>1. PICK block \in Blocks : Notify(block) /\ Spawn("BLK", serialize_block(block), block)
      BY <1>4 DEF notify_block_metadata
    <2>2. SerializedData("BLK", serialize_block(block), block, loads) \in Message
      BY <2>1, Serialized DEF Notify
    <2> QED
      BY <2>1, <2>2, SpawnIInv
  <1> QED
    BY <1>1, <1>2, <1>3, <1>4

\* Steps of the messenger.
LEMMA FaultType ==
  ASSUME IInv, NEW b \in BOOLEAN, Fault \/ FaultIf(b) \/ UNCHANGED faults
  PROVE  faults' \in 0..MaxFaults
  BY PipelineBounds DEF IInv, Typed, Fault, FaultIf

\* Groups are made, for streams without entries: nothing that is unread is skipped.
LEMMA ConnectedEffect ==
  ASSUME IInv, Connected
  PROVE  /\ DOMAIN redis' = Stream
         /\ \A s \in Stream :
              /\ redis'[s] \in Group(s)
              /\ redis'[s].entries = redis[s].entries /\ redis'[s].read = redis[s].read
              /\ redis[s].group => redis'[s].group
              /\ messenger' = "ready" => redis'[s].group
              /\ Unread(redis'[s]) = Unread(redis[s])
         /\ messenger' \in {"ready", "broken"} /\ streams' = [s \in Stream |-> Some(MAXLEN)]
         /\ faults' \in 0..MaxFaults
         /\ UNCHANGED <<plugin, notified, tasks, channel, ingester, inhand, handled, offered, loads>>
  <1>1. DOMAIN redis = Stream
    BY DEF IInv, Typed
  <1>2. PICK n \in 0..Len(STREAMS) :
          /\ redis' = [s \in Stream |-> IF s \in ToSet(SubSeq(STREAMS, 1, n)) THEN add_stream(redis[s])
                                        ELSE redis[s]]
          /\ messenger' = IF n = Len(STREAMS) THEN "ready" ELSE "broken"
          /\ FaultIf(n < Len(STREAMS))
    BY <1>1 DEF Connected
  <1>3. n = Len(STREAMS) => \A s \in Stream : s \in ToSet(SubSeq(STREAMS, 1, n))
    <2>1. STREAMS \in Seq(Stream)
      BY DEF STREAMS, Stream
    <2>2. SubSeq(STREAMS, 1, Len(STREAMS)) = STREAMS
      BY <2>1, SubSeqFull
    <2> QED
      BY <2>2, StreamsAre
  <1>4. ASSUME NEW s \in Stream
        PROVE  /\ redis'[s] \in Group(s)
               /\ redis'[s].entries = redis[s].entries /\ redis'[s].read = redis[s].read
               /\ redis[s].group => redis'[s].group
               /\ messenger' = "ready" => redis'[s].group
    <2>1. /\ redis[s] \in Group(s) /\ redis[s].read <= Len(redis[s].entries)
          /\ ~redis[s].group => redis[s].entries = <<>>
      BY DEF IInv, Typed, Ready
    <2>2. redis'[s] = IF s \in ToSet(SubSeq(STREAMS, 1, n)) THEN add_stream(redis[s]) ELSE redis[s]
      BY <1>2
    <2>3. messenger' = "ready" => s \in ToSet(SubSeq(STREAMS, 1, n))
      BY <1>2, <1>3
    <2>4. /\ add_stream(redis[s]) \in Group(s) /\ add_stream(redis[s]).group
          /\ add_stream(redis[s]).entries = redis[s].entries
          /\ add_stream(redis[s]).read = redis[s].read
      BY <2>1, AddStream
    <2> QED
      BY <2>1, <2>2, <2>3, <2>4
  <1>5. faults' \in 0..MaxFaults
    <2>1. (n < Len(STREAMS)) \in BOOLEAN
      OBVIOUS
    <2> QED
      BY <1>2, <2>1, FaultType
  <1>6. \A s \in Stream : Unread(redis'[s]) = Unread(redis[s])
    BY <1>4 DEF Unread
  <1> QED
    BY <1>2, <1>4, <1>5, <1>6, StreamsAre DEF Connected, reading, ghosts

\* The connection is made; then one lemma for each step on the way.
LEMMA ConnectedIInv ==
  ASSUME IInv, Connected
  PROVE  IInv'
  <1>1. Typed'
    BY ConnectedEffect DEF IInv, Typed
  <1>2. Placed'
    <2>1. "TXN" \in Stream
      BY DEF Stream
    <2> QED
      BY <2>1, ConnectedEffect DEF IInv, Placed
  <1>3. Noticed'
    BY ConnectedEffect DEF IInv, Noticed
  <1>4. Ready'
    BY ConnectedEffect DEF IInv, Ready
  <1> QED
    BY <1>1, <1>2, <1>3, <1>4 DEF IInv

\* A connection that fails takes the channel with it and leaves the rest alone.
LEMMA NotConnectedIInv ==
  ASSUME IInv, NotConnected
  PROVE  IInv'
  <1>1. /\ channel' = <<>> /\ messenger' = "gone"
        /\ UNCHANGED <<plugin, notified, tasks, redis, ingester, inhand, handled, offered, loads>>
    BY DEF NotConnected, reading, ghosts
  <1>2. channel' \in Seq(Message) /\ Len(channel') <= Capacity /\ faults' \in 0..MaxFaults
    <2>1. channel' \in Seq(Message) /\ Len(channel') <= Capacity
      BY <1>1, PipelineBounds
    <2> QED
      BY <2>1, FaultType DEF NotConnected
  <1>3. Typed'
    BY <1>1, <1>2 DEF IInv, Typed
  <1>4. Placed'
    BY <1>1, ToSetSmall DEF IInv, Placed
  <1>5. Noticed' /\ Ready'
    BY <1>1 DEF IInv, Noticed, Ready
  <1> QED
    BY <1>3, <1>4, <1>5 DEF IInv

\* A task puts its message into the channel, or drops it when the messenger is gone.
LEMMA SendIInv ==
  ASSUME IInv, Send
  PROVE  IInv'
  <1>1. PICK data \in tasks :
          /\ messenger # "gone" => Len(channel) < Capacity
          /\ tasks' = tasks \ {data}
          /\ channel' = IF messenger = "gone" THEN channel ELSE Append(channel, data)
    BY DEF Send
  <1>2. UNCHANGED <<plugin, notified, messenger, streams, redis, ingester, inhand, handled, offered, loads, faults>>
    BY DEF Send, reading, ghosts
  <1>3. data \in Message /\ channel \in Seq(Message) /\ Len(channel) <= Capacity
    BY DEF IInv, Typed
  <1>4. /\ channel' \in Seq(Message) /\ Len(channel') <= Capacity
        /\ ToSet(channel') \subseteq ToSet(channel) \cup {data}
        /\ IsInjective(channel')
    <2>1. IsInjective(channel) /\ data \notin ToSet(channel)
      BY DEF IInv, Placed
    <2>2. CASE messenger = "gone"
      BY <1>1, <1>3, <2>1, <2>2
    <2>3. CASE messenger # "gone"
      <3>1. /\ Append(channel, data) \in Seq(Message)
            /\ Len(Append(channel, data)) = Len(channel) + 1 /\ Len(channel) \in Nat
        BY <1>3
      <3>2. ToSet(Append(channel, data)) = ToSet(channel) \cup {data} /\ IsInjective(Append(channel, data))
        BY <1>3, <2>1, ToSetAppend
      <3>3. Len(channel) + 1 <= Capacity
        BY <1>1, <2>3, <3>1, PipelineBounds
      <3> QED
        BY <1>1, <2>3, <3>1, <3>2, <3>3
    <2> QED
      BY <2>2, <2>3
  <1>5. Typed'
    BY <1>1, <1>2, <1>4 DEF IInv, Typed
  <1>6. Placed'
    BY <1>1, <1>2, <1>4 DEF IInv, Placed
  <1>7. Noticed' /\ Ready'
    BY <1>2 DEF IInv, Noticed, Ready
  <1> QED
    BY <1>5, <1>6, <1>7 DEF IInv

\* The head of the channel is appended to its stream.
Appended ==
  LET data == Head(channel)
  IN  /\ messenger = "ready"
      /\ \E t \in Trimmed([redis[data.stream] EXCEPT !.entries = Append(@, data)]) :
           redis' = [redis EXCEPT ![data.stream] = t]

\* It is appended, or the connection is gone and nothing is.
LEMMA sendEffect ==
  ASSUME IInv, send
  PROVE  LET data == Head(channel)
         IN  /\ data \in Message /\ channel' = Tail(channel) /\ channel # <<>>
             /\ messenger' \in {"ready", "broken"} /\ faults' \in 0..MaxFaults
             /\ \/ redis' = redis /\ messenger' = "broken"
                \/ Appended
             /\ messenger' = "ready" => messenger = "ready"
             /\ UNCHANGED <<plugin, notified, tasks, streams, ingester, inhand, handled, offered, loads>>
  <1> DEFINE data == Head(channel)
             added == Trimmed([redis[data.stream] EXCEPT !.entries = Append(@, data)])
             configured == data.stream \in DOMAIN streams /\ streams[data.stream] # None
  <1>1. /\ channel' = Tail(channel) /\ channel # <<>> /\ messenger \in {"ready", "broken"}
        /\ UNCHANGED <<plugin, notified, tasks, streams, ingester, inhand, handled, offered, loads>>
    BY DEF send, reading, ghosts
  <1>2. \/ /\ configured /\ messenger = "ready"
           /\ \E r \in added, broken \in BOOLEAN :
                /\ redis' = [redis EXCEPT ![data.stream] = r]
                /\ messenger' = IF broken THEN "broken" ELSE "ready"
                /\ FaultIf(broken)
        \/ /\ configured /\ messenger = "ready"
           /\ messenger' = "broken" /\ Fault /\ UNCHANGED redis
        \/ /\ messenger = "broken" \/ ~configured
           /\ UNCHANGED <<redis, messenger, faults>>
    BY DEF send
  <1>3. data \in Message
    BY <1>1, ToSetTail DEF IInv, Typed
  <1>4. messenger = "ready" => configured
    <2>1. messenger = "ready" => streams = [s \in Stream |-> Some(MAXLEN)]
      BY DEF IInv, Ready
    <2>2. Some(MAXLEN) # None
      BY DEF Some, None
    <2> QED
      BY <1>3, <2>1, <2>2, MessageFields
  <1>5. faults' \in 0..MaxFaults
    BY <1>2, FaultType
  <1> HIDE DEF configured, added, data
  <1>6. \/ redis' = redis /\ messenger' = "broken"
        \/ messenger = "ready" /\ \E t \in added : redis' = [redis EXCEPT ![data.stream] = t]
    BY <1>1, <1>2, <1>4
  <1>7. messenger' \in {"ready", "broken"} /\ (messenger' = "ready" => messenger = "ready")
    BY <1>1, <1>2
  <1> QED
    BY <1>1, <1>3, <1>5, <1>6, <1>7 DEF Appended, added, data

\* The same as a change of one stream: the message leaves the channel for it.
LEMMA sendStream ==
  ASSUME IInv, send, Appended
  PROVE  LET data == Head(channel)
             old == redis[data.stream]
             new == redis'[data.stream]
         IN  /\ data.stream \in Stream /\ messenger = "ready"
             /\ redis' = [redis EXCEPT ![data.stream] = new]
             /\ new \in Group(data.stream) /\ new.read <= Len(new.entries) /\ new.group
             /\ IsInjective(new.entries)
             /\ ToSet(new.entries) \subseteq ToSet(old.entries) \cup {data}
             /\ Unread(new) \subseteq Unread(old) \cup {data}
             /\ data \in Unread(new)
             /\ Len(old.entries) >= MAXLEN \/ Unread(new) = Unread(old) \cup {data}
  <1> DEFINE data == Head(channel)
             old == redis[data.stream]
             new == redis'[data.stream]
  <1>1. /\ data \in Message /\ channel # <<>> /\ messenger = "ready"
        /\ \E t \in Trimmed([old EXCEPT !.entries = Append(@, data)]) :
             redis' = [redis EXCEPT ![data.stream] = t]
    BY sendEffect DEF Appended
  <1>2. data.stream \in Stream /\ data \in Entry(data.stream)
    BY <1>1, MessageFields DEF Entry
  <1>3. /\ old \in Group(data.stream) /\ old.read <= Len(old.entries) /\ old.group
        /\ IsInjective(old.entries) /\ DOMAIN redis = Stream
    BY <1>1, <1>2 DEF IInv, Typed, Placed, Ready
  <1>4. data \notin ToSet(old.entries)
    <2>1. data \in ToSet(channel)
      BY <1>1, ToSetTail DEF IInv, Typed
    <2> QED
      BY <1>2, <2>1 DEF IInv, Placed
  <1> HIDE DEF data, old
  <1>5. PICK t \in Trimmed([old EXCEPT !.entries = Append(@, data)]) :
          redis' = [redis EXCEPT ![data.stream] = t]
    BY <1>1
  <1>6. new = t /\ redis' = [redis EXCEPT ![data.stream] = new]
    BY <1>2, <1>3, <1>5
  <1>7. /\ t \in Group(data.stream) /\ t.read <= Len(t.entries) /\ t.group
        /\ IsInjective(t.entries)
        /\ ToSet(t.entries) \subseteq ToSet(old.entries) \cup {data}
        /\ Unread(t) \subseteq Unread(old) \cup {data}
        /\ data \in Unread(t)
        /\ Len(old.entries) >= MAXLEN \/ Unread(t) = Unread(old) \cup {data}
    <2> DEFINE stream == data.stream
    <2>1. old \in Group(stream) /\ data \in Entry(stream)
      BY <1>2, <1>3
    <2> HIDE DEF stream
    <2>2. t \in Group(stream) /\ t.read <= Len(t.entries) /\ t.group /\ IsInjective(t.entries)
      BY <1>3, <1>4, <2>1, AddedAndTrimmed
    <2>3. ToSet(t.entries) \subseteq ToSet(old.entries) \cup {data}
      BY <1>3, <1>4, <2>1, AddedAndTrimmed
    <2>4. Unread(t) \subseteq Unread(old) \cup {data}
      BY <1>3, <1>4, <2>1, AddedAndTrimmed
    <2>5. data \in Unread(t)
      BY <1>3, <1>4, <2>1, AddedAndTrimmed
    <2>6. Len(old.entries) >= MAXLEN \/ Unread(t) = Unread(old) \cup {data}
      BY <1>3, <1>4, <2>1, AddedAndTrimmed
    <2> QED
      BY <2>2, <2>3, <2>4, <2>5, <2>6 DEF stream
  <1> HIDE DEF new
  <1> QED
    BY <1>1, <1>2, <1>6, <1>7 DEF data, old, new

\* The messenger moves the first message of the channel to its stream, if it can.
LEMMA sendIInv ==
  ASSUME IInv, send
  PROVE  IInv'
  <1> DEFINE data == Head(channel)
             old == redis[data.stream]
             new == redis'[data.stream]
  <1>1. /\ data \in Message /\ channel' = Tail(channel) /\ channel # <<>>
        /\ messenger' \in {"ready", "broken"} /\ faults' \in 0..MaxFaults
        /\ messenger' = "ready" => messenger = "ready"
        /\ UNCHANGED <<plugin, notified, tasks, streams, ingester, inhand, handled, offered, loads>>
    BY sendEffect
  <1>2. /\ ToSet(channel) = {data} \cup ToSet(channel') /\ channel' \in Seq(Message)
        /\ data \notin ToSet(channel') /\ IsInjective(channel') /\ Len(channel') <= Capacity
    <2>1. channel \in Seq(Message) /\ Len(channel) <= Capacity /\ IsInjective(channel)
      BY DEF IInv, Typed, Placed
    <2>2. Len(Tail(channel)) = Len(channel) - 1 /\ Len(channel) \in Nat
      BY <1>1, <2>1, ToSetTail
    <2>3. Len(Tail(channel)) <= Capacity
      BY <2>1, <2>2, PipelineBounds
    <2> QED
      BY <1>1, <2>1, <2>3, ToSetTail
  <1>3. Noticed'
    BY <1>1 DEF IInv, Noticed
  <1>4. CASE redis' = redis
    <2>1. Typed'
      BY <1>1, <1>2, <1>4 DEF IInv, Typed
    <2>2. Placed'
      BY <1>1, <1>2, <1>4 DEF IInv, Placed
    <2>3. Ready'
      BY <1>1, <1>4 DEF IInv, Ready
    <2> QED
      BY <1>3, <2>1, <2>2, <2>3 DEF IInv
  <1>5. CASE Appended
    <2>1. /\ data.stream \in Stream
          /\ redis' = [redis EXCEPT ![data.stream] = new]
          /\ new \in Group(data.stream) /\ new.read <= Len(new.entries) /\ new.group
          /\ IsInjective(new.entries)
          /\ ToSet(new.entries) \subseteq ToSet(old.entries) \cup {data}
          /\ Unread(new) \subseteq Unread(old) \cup {data}
      BY <1>5, sendStream
    <2>2. DOMAIN redis = Stream
      BY DEF IInv, Typed
    <2> HIDE DEF data
    <2>3. DOMAIN redis' = Stream /\ \A s \in Stream : s # data.stream => redis'[s] = redis[s]
      BY <2>1, <2>2
    <2>4. Typed'
      <3>1. \A s \in Stream : redis'[s] \in Group(s) /\ redis'[s].read <= Len(redis'[s].entries)
        BY <2>1, <2>3 DEF IInv, Typed
      <3> QED
        BY <1>1, <1>2, <2>3, <3>1 DEF IInv, Typed
    <2>5. Ready'
      BY <1>1, <2>1, <2>3 DEF IInv, Ready
    <2>6. data \notin tasks /\ data \notin ToSet(inhand) /\ data \in offered
      BY <1>2 DEF IInv, Placed
    <2>7. ASSUME NEW s \in Stream
          PROVE  /\ IsInjective(redis'[s].entries)
                 /\ (tasks' \cup ToSet(channel')) \cap ToSet(redis'[s].entries) = {}
                 /\ ToSet(redis'[s].entries) \subseteq offered'
      <3>1. ToSet(redis'[s].entries) \subseteq ToSet(redis[s].entries) \cup {data}
        BY <2>1, <2>3
      <3>2. IsInjective(redis'[s].entries)
        BY <2>1, <2>3 DEF IInv, Placed
      <3> QED
        BY <1>1, <1>2, <2>6, <3>1, <3>2 DEF IInv, Placed
    <2>8. Unread(redis'["TXN"]) \subseteq Unread(redis["TXN"]) \cup {data}
      <3>1. "TXN" \in Stream
        BY DEF Stream
      <3> QED
        BY <2>1, <2>3, <3>1
    <2>9. Placed'
      BY <1>1, <1>2, <2>6, <2>7, <2>8 DEF IInv, Placed
    <2> QED
      BY <1>3, <2>4, <2>5, <2>9 DEF IInv
  <1> QED
    BY <1>4, <1>5, sendEffect

\* Steps of the ingester.
LEMMA InHand ==
  ASSUME IInv
  PROVE  /\ ToSet(inhand) \subseteq TransactionMessage
         /\ inhand # None => \E m \in TransactionMessage : inhand = <<m>> /\ inhand[1] = m
  BY ToSetSmall DEF IInv, Typed, None, Some

\* The ingester is given the next entry of its stream and has it in hand, or loses
\* the connection with or without it.
LEMMA recvEffect ==
  ASSUME IInv, recv
  PROVE  /\ inhand = <<>> /\ ingester' \in {"serving", "down"} /\ faults' \in 0..MaxFaults
         /\ UNCHANGED <<plugin, notified, tasks, channel, messenger, streams, handled, offered, loads>>
         /\ \/ redis' = redis /\ inhand' = inhand
            \/ \E m \in Unread(redis["TXN"]) :
                 /\ redis' = [redis EXCEPT !["TXN"] = Advance(redis["TXN"])]
                 /\ redis["TXN"].read < Len(redis["TXN"].entries)
                 /\ m \in TransactionMessage
                 /\ Unread(redis'["TXN"]) = Unread(redis["TXN"]) \ {m}
                 /\ \/ inhand' = <<m>>
                    \/ inhand' = <<>> /\ ingester' = "down"
  <1> DEFINE r == redis["TXN"]
             m == r.entries[r.read + 1]
             unread == r.group /\ r.read < Len(r.entries)
  <1>1. "TXN" \in Stream
    BY DEF Stream
  <1>2. DOMAIN redis = Stream /\ r \in Group("TXN") /\ IsInjective(r.entries)
    BY <1>1 DEF IInv, Typed, Placed
  <1>3. ASSUME r.read < Len(r.entries)
        PROVE  /\ m \in Entry("TXN") /\ m \in Unread(r)
               /\ Unread(Advance(r)) = Unread(r) \ {m}
    BY <1>2, <1>3, AdvanceOf
  <1>4. m \in Entry("TXN") => m \in TransactionMessage
    BY MessageFields DEF Entry
  <1>5. redis' = [redis EXCEPT !["TXN"] = Advance(r)] => redis'["TXN"] = Advance(r)
    BY <1>1, <1>2
  <1>6. faults' \in 0..MaxFaults
    BY FaultType DEF recv
  <1>7. /\ inhand = <<>> /\ ingester = "serving"
        /\ UNCHANGED <<plugin, notified, tasks, channel, messenger, streams, handled, offered, loads>>
    BY DEF recv, sending, ghosts, None
  <1>8. \/ /\ unread
           /\ redis' = [redis EXCEPT !["TXN"] = Advance(r)]
           /\ inhand' = <<m>> /\ ingester' = ingester
        \/ redis' = redis /\ inhand' = inhand /\ ingester' \in {ingester, "down"}
        \/ /\ ingester' = "down" /\ inhand' = inhand
           /\ unread /\ redis' = [redis EXCEPT !["TXN"] = Advance(r)]
    BY DEF recv, Some
  <1> HIDE DEF m
  <1> QED
    BY <1>3, <1>4, <1>5, <1>6, <1>7, <1>8

\* The ingester reads the next entry of the transactions' stream, or fails to.
LEMMA recvIInv ==
  ASSUME IInv, recv
  PROVE  IInv'
  <1>1. /\ inhand = <<>> /\ ingester' \in {"serving", "down"} /\ faults' \in 0..MaxFaults
        /\ UNCHANGED <<plugin, notified, tasks, channel, messenger, streams, handled, offered, loads>>
    BY recvEffect
  <1>2. Noticed'
    BY <1>1 DEF IInv, Noticed
  <1>3. CASE redis' = redis /\ inhand' = inhand
    <2>1. Typed' /\ Ready'
      BY <1>1, <1>3 DEF IInv, Typed, Ready
    <2>2. Placed'
      BY <1>1, <1>3 DEF IInv, Placed
    <2> QED
      BY <1>2, <2>1, <2>2 DEF IInv
  <1>4. ASSUME NEW m \in Unread(redis["TXN"]),
               redis' = [redis EXCEPT !["TXN"] = Advance(redis["TXN"])],
               redis["TXN"].read < Len(redis["TXN"].entries),
               m \in TransactionMessage,
               Unread(redis'["TXN"]) = Unread(redis["TXN"]) \ {m},
               inhand' = <<m>> \/ inhand' = <<>>
        PROVE  IInv'
    <2> DEFINE r == redis["TXN"]
    <2>1. "TXN" \in Stream
      BY DEF Stream
    <2>2. /\ DOMAIN redis = Stream /\ r \in Group("TXN") /\ IsInjective(r.entries)
          /\ r.read <= Len(r.entries)
      BY <2>1 DEF IInv, Typed, Placed
    <2>3. /\ Advance(r) \in Group("TXN") /\ Advance(r).read <= Len(r.entries)
          /\ Advance(r).entries = r.entries /\ Advance(r).group = r.group
      BY <1>4, <2>2, AdvanceOf
    <2>4. m \in ToSet(r.entries)
      BY <2>2, UnreadOf
    <2> HIDE DEF r
    <2>5. /\ DOMAIN redis' = Stream /\ redis'["TXN"] = Advance(r)
          /\ \A s \in Stream : s # "TXN" => redis'[s] = redis[s]
      BY <1>4, <2>1, <2>2 DEF r
    <2>6. \A s \in Stream : redis'[s].entries = redis[s].entries /\ redis'[s].group = redis[s].group
      BY <2>3, <2>5 DEF r
    <2>7. \A s \in Stream : redis'[s] \in Group(s) /\ redis'[s].read <= Len(redis'[s].entries)
      BY <2>3, <2>5 DEF IInv, Typed, r
    <2>8. ToSet(inhand') \subseteq {m} /\ (inhand' = None \/ inhand' = Some(m))
      BY <1>4, ToSetSmall DEF None, Some
    <2>9. Typed'
      BY <1>1, <1>4, <2>5, <2>7, <2>8 DEF IInv, Typed
    <2>10. Ready'
      BY <1>1, <2>6 DEF IInv, Ready
    <2>11. m \notin tasks /\ m \notin ToSet(channel) /\ m \in offered
      BY <2>1, <2>4 DEF IInv, Placed, r
    <2>12. Placed'
      BY <1>1, <1>4, <2>6, <2>8, <2>11 DEF IInv, Placed
    <2> QED
      BY <1>2, <2>9, <2>10, <2>12 DEF IInv
  <1> QED
    BY <1>3, <1>4, recvEffect

\* What the ingester does with what it has read, and restarting, touch nothing else.
LEMMA IngesterIInv ==
  ASSUME IInv, Start \/ handle_transaction \/ Restart
  PROVE  IInv'
  <1>1. /\ UNCHANGED <<plugin, notified, tasks, channel, messenger, streams, redis, offered, loads>>
        /\ ingester' \in {"starting", "serving", "down"} /\ faults' \in 0..MaxFaults
    <2>1. ASSUME Start PROVE ingester' \in {"serving", "down"} /\ faults' \in 0..MaxFaults
      <3>1. PICK ok \in BOOLEAN : ingester' = (IF ok THEN "serving" ELSE "down") /\ FaultIf(~ok)
        BY <2>1 DEF Start
      <3>2. (~ok) \in BOOLEAN
        OBVIOUS
      <3> QED
        BY <3>1, <3>2, FaultType
    <2>2. ASSUME handle_transaction PROVE ingester' \in {ingester, "down"} /\ faults' = faults
      BY <2>2 DEF handle_transaction
    <2>3. ASSUME Restart PROVE ingester' = "starting" /\ faults' \in 0..MaxFaults
      BY <2>3, FaultType DEF Restart
    <2>4. ingester \in {"starting", "serving", "down"} /\ faults \in 0..MaxFaults
      BY DEF IInv, Typed
    <2> QED
      BY <2>1, <2>2, <2>3, <2>4 DEF Start, handle_transaction, Restart, sending, ghosts
  <1>2. inhand' = inhand \/ inhand' = None
    BY DEF Start, handle_transaction, Restart
  <1>3. handled' \subseteq TransactionMessage
    <2>1. handled \subseteq TransactionMessage
      BY DEF IInv, Typed
    <2>2. ASSUME handle_transaction PROVE handled' \subseteq TransactionMessage
      <3>1. inhand[1] \in TransactionMessage
        BY <2>2, InHand DEF handle_transaction
      <3>2. handled' = handled \/ handled' = handled \cup {inhand[1]}
        BY <2>2 DEF handle_transaction
      <3> QED
        BY <2>1, <3>1, <3>2
    <2> QED
      BY <2>1, <2>2 DEF Start, Restart, ghosts
  <1>4. ToSet(inhand') \subseteq ToSet(inhand)
    BY <1>2, ToSetSmall DEF None
  <1>5. Typed'
    BY <1>1, <1>2, <1>3 DEF IInv, Typed
  <1>6. Placed'
    BY <1>1, <1>4 DEF IInv, Placed
  <1>7. Noticed' /\ Ready'
    BY <1>1 DEF IInv, Noticed, Ready
  <1> QED
    BY <1>5, <1>6, <1>7 DEF IInv

\* Every step keeps the invariant.
LEMMA NextIInv == IInv /\ [Next]_vars => IInv'
  <1> SUFFICES ASSUME IInv, [Next]_vars PROVE IInv'
    OBVIOUS
  <1>1. CASE UNCHANGED vars
    BY <1>1 DEF vars, sending, reading, ghosts, IInv, Typed, Placed, Noticed, Ready
  <1> QED
    BY <1>1, LoadIInv, UnloadIInv, NoticesIInv, ConnectedIInv, NotConnectedIInv, SendIInv, sendIInv,
       recvIInv, IngesterIInv DEF Next

\* Whatever the validator notifies of and whatever fails: the channel never holds
\* more than its capacity, the streams hold messages of their own kind, and the group
\* never points behind the end of its stream.
THEOREM TypeCorrect == Spec => []TypeOK
  <1>1. IInv => TypeOK
    <2> SUFFICES ASSUME IInv PROVE TypeOK
      OBVIOUS
    <2>1. ToSet(channel) \subseteq Message
      BY ToSetOf DEF IInv, Typed
    <2>2. ASSUME NEW s \in Stream
          PROVE  ToSet(redis[s].entries) \subseteq Message /\ redis[s].read \in 0..Len(redis[s].entries)
      <3>1. redis[s] \in Group(s) /\ redis[s].read <= Len(redis[s].entries)
        BY DEF IInv, Typed
      <3>2. ToSet(redis[s].entries) \subseteq Message
        BY <3>1, UnreadOf DEF Entry
      <3>3. redis[s].read \in Nat /\ Len(redis[s].entries) \in Nat
        BY <3>1 DEF Group
      <3> QED
        BY <3>1, <3>2, <3>3
    <2> QED
      BY <2>1, <2>2, InHand DEF IInv, Typed, TypeOK
  <1> QED
    BY <1>1, InitIInv, NextIInv, PTL DEF Spec

-----------------------------------------------------------------------------
(* What is offered is wanted. *)

\* The selector that is made from a configuration selects only what it asks for.
LEMMA SelectedIsWanted ==
  ASSUME NEW config, NEW tx, ~tx.is_vote, ~tx.is_err,
         is_transaction_selected(create_transaction_selector_from_config(config), tx.is_vote, tx.account_keys)
  PROVE  Wanted(config, tx)
  <1> DEFINE selector == create_transaction_selector_from_config(config)
             mentions == config.transaction_selector[1]
             all == mentions \cap {"*", "all"} # {}
             votes == all \/ "all_votes" \in mentions
  <1>1. config.transaction_selector # None
    <2> SUFFICES ASSUME config.transaction_selector = None
                 PROVE  FALSE
      OBVIOUS
    <2>1. /\ selector.mentioned_addresses = {} /\ selector.select_all_transactions = FALSE
          /\ selector.select_all_vote_transactions = FALSE
      BY DEF create_transaction_selector_from_config
    <2>2. ~transaction_notifications_enabled(selector)
      BY <2>1 DEF transaction_notifications_enabled
    <2> QED
      BY <2>2 DEF is_transaction_selected
  <1>2. /\ selector.mentioned_addresses = IF votes THEN {} ELSE mentions
        /\ selector.select_all_transactions = all
    BY <1>1 DEF create_transaction_selector_from_config, TransactionSelector
  <1>3. all \/ ToSet(tx.account_keys) \cap selector.mentioned_addresses # {}
    BY <1>2 DEF is_transaction_selected
  <1>4. all \/ ToSet(tx.account_keys) \cap mentions # {}
    BY <1>2, <1>3
  <1> QED
    BY <1>1, <1>4 DEF Wanted

\* A notification of a transaction makes a message only if it is wanted.
LEMMA TransactionNotice ==
  ASSUME IInv, notify_transaction
  PROVE  \E tx \in Transactions :
           /\ Notify(tx)
           /\ Ignore \/ (tx \in WantedNow /\ Spawn("TXN", serialize_transaction(tx), tx))
  <1> DEFINE selector == plugin[1].transaction_selector
  <1>1. PICK tx \in Transactions :
          /\ Notify(tx)
          /\ IF /\ ~tx.is_vote /\ ~tx.is_err
                /\ is_transaction_selected(selector, tx.is_vote, tx.account_keys)
             THEN Spawn("TXN", serialize_transaction(tx), tx)
             ELSE Ignore
    BY DEF notify_transaction
  <1>2. plugin # None /\ selector = create_transaction_selector_from_config(plugin[1].config)
    BY <1>1 DEF Notify, IInv, Typed
  <1>3. CASE ~tx.is_vote /\ ~tx.is_err /\ is_transaction_selected(selector, tx.is_vote, tx.account_keys)
    <2>1. tx \in WantedNow
      BY <1>2, <1>3, SelectedIsWanted DEF WantedNow
    <2> QED
      BY <1>1, <1>3, <2>1
  <1>4. CASE ~(~tx.is_vote /\ ~tx.is_err /\ is_transaction_selected(selector, tx.is_vote, tx.account_keys))
    BY <1>1, <1>4
  <1> QED
    BY <1>3, <1>4

-----------------------------------------------------------------------------
(* What is on its way. *)

\* Where messages in transit are.
LEMMA TransitIs ==
  ASSUME IInv
  PROVE  \A m : m \in InTransit <=>
           \/ m \in tasks \/ m \in ToSet(channel) \/ m \in ToSet(inhand)
           \/ \E s \in Stream : m \in Unread(redis[s])
  BY DEF InTransit, UnreadEntries, IInv, Typed

\* The same after a step.
LEMMA TransitWillBe ==
  ASSUME IInv'
  PROVE  \A m : m \in InTransit' <=>
           \/ m \in tasks' \/ m \in ToSet(channel') \/ m \in ToSet(inhand')
           \/ \E s \in Stream : m \in Unread(redis'[s])
  BY DEF InTransit, UnreadEntries, Unread, IInv, Typed

\* An unread entry is a message of its stream.
LEMMA UnreadStream ==
  ASSUME IInv, NEW s \in Stream, NEW m \in Unread(redis[s])
  PROVE  m \in Message /\ m.stream = s
  <1>1. redis[s] \in Group(s) /\ redis[s].read <= Len(redis[s].entries)
    BY DEF IInv, Typed
  <1> QED
    BY <1>1, UnreadOf DEF Entry

\* Nothing sets out but by a notification, and what is lost has a cause.
Shrinks == InTransit' \subseteq InTransit /\ LossCaused

\* Steps that leave tasks, channel, streams and handler alone; then one lemma for
\* each of the others.
LEMMA NothingMoves ==
  ASSUME IInv, IInv', UNCHANGED <<tasks, channel, redis, inhand>>
  PROVE  Shrinks
  <1>1. InTransit' = InTransit
    BY DEF InTransit, UnreadEntries, Unread
  <1> QED
    BY <1>1 DEF Shrinks, LossCaused

\* What tasks and channel lose, they lose to a messenger that is gone or breaks.
LEMMA SenderShrinks ==
  ASSUME IInv, IInv', UNCHANGED <<redis, inhand>>, tasks' \subseteq tasks,
         ToSet(channel') \subseteq tasks \cup ToSet(channel),
         messenger = "gone" \/ messenger' \in {"none", "gone", "broken"}
  PROVE  Shrinks
  <1>1. \A m : m \in InTransit <=>
           \/ m \in tasks \/ m \in ToSet(channel) \/ m \in ToSet(inhand)
           \/ \E s \in Stream : m \in Unread(redis[s])
    BY TransitIs
  <1>2. \A m : m \in InTransit' <=>
           \/ m \in tasks' \/ m \in ToSet(channel') \/ m \in ToSet(inhand)
           \/ \E s \in Stream : m \in Unread(redis[s])
    BY TransitWillBe
  <1>3. InTransit' \subseteq InTransit
    BY <1>1, <1>2
  <1>4. ASSUME NEW m \in InTransit \ InTransit' PROVE m \in tasks \cup ToSet(channel)
    BY <1>1, <1>2
  <1> QED
    BY <1>3, <1>4 DEF Shrinks, LossCaused

\* Connecting loses nothing.
LEMMA ConnectedShrinks ==
  ASSUME IInv, IInv', Connected
  PROVE  Shrinks
  <1>1. \A m : m \in InTransit <=> m \in InTransit'
    BY TransitIs, TransitWillBe, ConnectedEffect
  <1> QED
    BY <1>1 DEF Shrinks, LossCaused

\* Only a messenger that is gone costs a task its message.
LEMMA SendShrinks ==
  ASSUME IInv, IInv', Send
  PROVE  Shrinks
  <1>1. PICK data \in tasks :
          /\ tasks' = tasks \ {data}
          /\ channel' = IF messenger = "gone" THEN channel ELSE Append(channel, data)
    BY DEF Send
  <1>2. UNCHANGED <<messenger, redis, inhand>>
    BY DEF Send, reading
  <1>3. CASE messenger = "gone"
    BY <1>1, <1>2, <1>3, SenderShrinks
  <1>4. CASE messenger # "gone"
    <2>1. ToSet(channel') = ToSet(channel) \cup {data}
      BY <1>1, <1>4, ToSetAppend DEF IInv, Typed
    <2>2. \A m : m \in InTransit <=> m \in InTransit'
      BY <1>1, <1>2, <2>1, TransitIs, TransitWillBe
    <2> QED
      BY <2>2 DEF Shrinks, LossCaused
  <1> QED
    BY <1>3, <1>4

\* Sending costs the message when it breaks, and the oldest entries of a full stream.
LEMMA sendShrinks ==
  ASSUME IInv, IInv', send
  PROVE  Shrinks
  <1> DEFINE data == Head(channel)
             old == redis[data.stream]
             new == redis'[data.stream]
  <1>1. channel' = Tail(channel) /\ channel # <<>> /\ UNCHANGED <<tasks, inhand>>
    BY sendEffect
  <1>2. ToSet(channel) = {data} \cup ToSet(channel')
    BY <1>1, ToSetTail DEF IInv, Typed
  <1>3. CASE redis' = redis /\ messenger' = "broken"
    BY <1>1, <1>2, <1>3, SenderShrinks
  <1>4. CASE Appended
    <2>1. /\ data.stream \in Stream /\ messenger = "ready"
          /\ redis' = [redis EXCEPT ![data.stream] = new]
          /\ Unread(new) \subseteq Unread(old) \cup {data}
          /\ data \in Unread(new)
          /\ Len(old.entries) >= MAXLEN \/ Unread(new) = Unread(old) \cup {data}
      BY <1>4, sendStream
    <2>2. DOMAIN redis = Stream
      BY DEF IInv, Typed
    <2> HIDE DEF data
    <2>3. \A s \in Stream : s # data.stream => redis'[s] = redis[s]
      BY <2>1, <2>2
    <2> HIDE DEF old, new
    <2>4. \A s \in Stream : IF s = data.stream THEN redis[s] = old /\ redis'[s] = new ELSE redis'[s] = redis[s]
      BY <2>3 DEF old, new
    <2>5. ASSUME NEW m \in InTransit' PROVE m \in InTransit
      <3>1. \/ m \in tasks \/ m \in ToSet(channel) \/ m \in ToSet(inhand)
            \/ \E s \in Stream : m \in Unread(redis[s])
        BY <1>1, <1>2, <2>1, <2>4, TransitWillBe
      <3> QED
        BY <3>1, TransitIs
    <2>6. ASSUME NEW m \in InTransit \ InTransit'
          PROVE  m \in Unread(redis[m.stream]) /\ Len(redis[m.stream].entries) >= MAXLEN
      <3>1. /\ m \notin tasks /\ m \notin ToSet(channel') /\ m \notin ToSet(inhand)
            /\ \A s \in Stream : m \notin Unread(redis'[s])
        BY <1>1, TransitWillBe
      <3>2. m # data
        BY <2>1, <2>4, <3>1
      <3>3. PICK s \in Stream : m \in Unread(redis[s])
        BY <1>2, <3>1, <3>2, TransitIs
      <3>4. s = data.stream
        BY <2>4, <3>1, <3>3
      <3>5. m.stream = s
        BY <3>3, UnreadStream
      <3>6. m \in Unread(old) /\ m \notin Unread(new)
        BY <2>1, <2>4, <3>1, <3>3, <3>4
      <3>7. Len(old.entries) >= MAXLEN
        BY <2>1, <3>6
      <3> QED
        BY <2>4, <3>3, <3>4, <3>5, <3>7
    <2> QED
      BY <2>1, <2>5, <2>6 DEF Shrinks, LossCaused
  <1> QED
    BY <1>3, <1>4, sendEffect

\* Reading costs the entry only if the ingester goes down with it.
LEMMA recvShrinks ==
  ASSUME IInv, IInv', recv
  PROVE  Shrinks
  <1>1. inhand = <<>> /\ UNCHANGED <<tasks, channel>>
    BY recvEffect
  <1>2. CASE redis' = redis /\ inhand' = inhand
    BY <1>1, <1>2, NothingMoves
  <1>3. ASSUME NEW m \in Unread(redis["TXN"]),
               redis' = [redis EXCEPT !["TXN"] = Advance(redis["TXN"])],
               Unread(redis'["TXN"]) = Unread(redis["TXN"]) \ {m},
               inhand' = <<m>> \/ (inhand' = <<>> /\ ingester' = "down")
        PROVE  Shrinks
    <2>1. "TXN" \in Stream /\ DOMAIN redis = Stream
      BY DEF IInv, Typed, Stream
    <2>2. \A s \in Stream : s # "TXN" => redis'[s] = redis[s]
      BY <1>3, <2>1
    <2>3. ToSet(inhand') \subseteq {m}
      BY <1>3, ToSetSmall
    <2>4. InTransit' \subseteq InTransit
      BY <1>1, <1>3, <2>1, <2>2, <2>3, TransitIs, TransitWillBe
    <2>5. ASSUME NEW x \in InTransit \ InTransit'
          PROVE  x \in Unread(redis[x.stream]) /\ ingester' = "down"
      <3>1. /\ x \notin tasks /\ x \notin ToSet(channel) /\ x \notin ToSet(inhand')
            /\ \A s \in Stream : x \notin Unread(redis'[s])
        BY <1>1, TransitWillBe
      <3>2. x \notin ToSet(inhand)
        BY <1>1, ToSetSmall
      <3>3. PICK s \in Stream : x \in Unread(redis[s])
        BY <3>1, <3>2, TransitIs
      <3>4. s = "TXN" /\ x = m
        BY <1>3, <2>2, <3>1, <3>3
      <3>5. x.stream = "TXN"
        BY <3>3, <3>4, UnreadStream
      <3>6. inhand' # <<m>>
        BY <3>1, <3>4, ToSetSmall
      <3> QED
        BY <1>3, <3>3, <3>4, <3>5, <3>6
    <2> QED
      BY <2>4, <2>5 DEF Shrinks, LossCaused
  <1> QED
    BY <1>2, <1>3, recvEffect

\* The message in hand is handled, or lost with the ingester.
LEMMA IngesterShrinks ==
  ASSUME IInv, IInv', Start \/ handle_transaction \/ Restart
  PROVE  Shrinks
  <1>1. UNCHANGED <<tasks, channel, redis>>
    BY DEF Start, handle_transaction, Restart, sending
  <1>2. CASE inhand' = inhand
    BY <1>1, <1>2, NothingMoves
  <1>3. CASE inhand' # inhand
    <2>1. inhand' = <<>> /\ ToSet(inhand') = {}
      BY <1>3, ToSetSmall DEF Start, handle_transaction, Restart, None
    <2>2. InTransit' \subseteq InTransit
      BY <1>1, <2>1, TransitIs, TransitWillBe
    <2>3. ASSUME NEW m \in InTransit \ InTransit', m \notin handled'
          PROVE  m \in ToSet(inhand) /\ ingester' # "serving"
      <3>1. m \in ToSet(inhand)
        BY <1>1, <2>1, TransitIs, TransitWillBe
      <3>2. PICK x \in TransactionMessage : inhand = <<x>> /\ inhand[1] = x
        BY <1>3, <2>1, InHand DEF None
      <3>3. m = inhand[1]
        BY <3>1, <3>2, ToSetSmall
      <3>4. handle_transaction => ingester' = "down"
        BY <2>3, <3>3 DEF handle_transaction
      <3>5. Restart => ingester' = "starting"
        BY DEF Restart
      <3>6. ~Start
        BY <1>3 DEF Start
      <3> QED
        BY <3>1, <3>4, <3>5, <3>6
    <2> QED
      BY <2>2, <2>3 DEF Shrinks, LossCaused
  <1> QED
    BY <1>2, <1>3

\* What a notification adds.
LEMMA SpawnTransit ==
  ASSUME IInv, IInv', NEW stream, NEW builder, NEW notice, Spawn(stream, builder, notice)
  PROVE  InTransit' = InTransit \cup {SerializedData(stream, builder, notice, loads)}
  <1> DEFINE data == SerializedData(stream, builder, notice, loads)
  <1>1. tasks' = tasks \cup {data} /\ UNCHANGED <<channel, redis, inhand>>
    BY DEF Spawn, reading
  <1> HIDE DEF data
  <1>2. InTransit' = InTransit \cup {data}
    BY <1>1, TransitIs, TransitWillBe
  <1> QED
    BY <1>2 DEF data

\* Everything but a notification.
LEMMA OtherStepsShrink ==
  ASSUME IInv, IInv',
         \/ on_load \/ on_unload \/ Connected \/ NotConnected \/ Send \/ send
         \/ Start \/ recv \/ handle_transaction \/ Restart
  PROVE  Shrinks
  <1>1. ASSUME on_load PROVE Shrinks
    BY <1>1, NothingMoves DEF on_load, reading
  <1>2. ASSUME on_unload PROVE Shrinks
    BY <1>2, ToSetSmall, SenderShrinks DEF on_unload, reading
  <1>3. ASSUME NotConnected PROVE Shrinks
    BY <1>3, ToSetSmall, SenderShrinks DEF NotConnected, reading
  <1> QED
    BY <1>1, <1>2, <1>3, ConnectedShrinks, SendShrinks, sendShrinks, recvShrinks, IngesterShrinks

\* Every step loses messages for a reason, or none.
LEMMA StepLosses ==
  ASSUME IInv, IInv', Next
  PROVE  LossCaused
  <1>1. ASSUME update_account \/ update_slot_status \/ notify_transaction \/ notify_block_metadata
        PROVE  InTransit \subseteq InTransit'
    <2>1. Ignore \/ \E stream, builder, notice : Spawn(stream, builder, notice)
      BY <1>1 DEF update_account, update_slot_status, notify_transaction, notify_block_metadata
    <2>2. CASE Ignore
      BY <2>2 DEF Ignore, InTransit, UnreadEntries, Unread, sending, reading
    <2> QED
      BY <2>1, <2>2, SpawnTransit
  <1>2. ASSUME update_account \/ update_slot_status \/ notify_transaction \/ notify_block_metadata
        PROVE  LossCaused
    BY <1>1, <1>2 DEF LossCaused
  <1> QED
    BY <1>2, OtherStepsShrink DEF Shrinks, Next

\* Whatever the buffer sizes and wherever a connection or a process fails, a message
\* that disappears has one of the four causes; in particular on_load and the groups it
\* creates never skip an entry.
THEOREM LossesAreCaused == Spec => LossesHaveCause
  <1>1. IInv /\ IInv' /\ [Next]_vars => [LossCaused]_vars
    BY StepLosses
  <1> QED
    BY <1>1, InitIInv, NextIInv, PTL DEF Spec, LossesHaveCause

-----------------------------------------------------------------------------
(* The abstract delivery. *)

\* What is wanted are messages of transactions.
LEMMA WantedMessages ==
  ASSUME IInv'
  PROVE  {MessageOf(tx, loads') : tx \in WantedNow'} \subseteq TransactionMessage
  <1>1. plugin' # None => loads' \in 1..MaxLoads
    BY PipelineBounds DEF IInv, Typed
  <1>2. WantedNow' \subseteq Transactions /\ (plugin' = None => WantedNow' = {})
    BY DEF WantedNow
  <1> QED
    BY <1>1, <1>2 DEF TransactionMessage

\* A step that offers nothing and ends nothing is a loss of what it drops.
LEMMA LossStep ==
  ASSUME IInv', InTransit' \subseteq InTransit \cup (Message \ TransactionMessage),
         offered' \cap TransactionMessage = offered \cap TransactionMessage, handled' = handled
  PROVE  Promise!Next
  <1> DEFINE t == InTransit \cap TransactionMessage
             u == InTransit' \cap TransactionMessage
             lost == t \ u
  <1>1. lost \in SUBSET t /\ u = t \ lost
    OBVIOUS
  <1>2. {MessageOf(tx, loads') : tx \in WantedNow'} \in SUBSET TransactionMessage
    BY WantedMessages
  <1>3. Promise!Lose(lost)
    BY <1>1, <1>2 DEF Promise!Lose
  <1> QED
    BY <1>1, <1>3 DEF Promise!Next

\* A transaction that is handed to a task.
LEMMA OfferStep ==
  ASSUME IInv, IInv', notify_transaction
  PROVE  Promise!Next
  <1>1. PICK tx \in Transactions :
          /\ Notify(tx)
          /\ Ignore \/ (tx \in WantedNow /\ Spawn("TXN", serialize_transaction(tx), tx))
    BY TransactionNotice
  <1>2. CASE Ignore
    <2>1. InTransit' = InTransit /\ offered' = offered /\ handled' = handled
      BY <1>1, <1>2 DEF Ignore, InTransit, UnreadEntries, Unread, sending, reading, ghosts
    <2> QED
      BY <2>1, LossStep
  <1>3. CASE tx \in WantedNow /\ Spawn("TXN", serialize_transaction(tx), tx)
    <2> DEFINE m == MessageOf(tx, loads)
    <2>1. m \in TransactionMessage /\ m \in Message /\ m.notice = tx /\ m.load = loads
      BY <1>1, Serialized, MessageFields DEF Notify, MessageOf, SerializedData
    <2>2. Spawn("TXN", serialize_transaction(tx), tx) /\ m = SerializedData("TXN", serialize_transaction(tx), tx, loads)
      BY <1>1, <1>3 DEF MessageOf
    <2>3. m \notin offered
      BY <1>1, <2>1, NewMessage
    <2>4. m \in {MessageOf(x, loads) : x \in WantedNow}
      BY <1>3
    <2> HIDE DEF m
    <2>5. InTransit' = InTransit \cup {m} /\ offered' = offered \cup {m} /\ UNCHANGED <<plugin, loads, handled>>
      BY <2>2, SpawnTransit DEF Spawn
    <2>6. UNCHANGED {MessageOf(x, loads) : x \in WantedNow}
      BY <2>5 DEF WantedNow
    <2>7. Promise!Offer(m)
      BY <2>1, <2>3, <2>4, <2>5, <2>6 DEF Promise!Offer
    <2> QED
      BY <2>1, <2>7 DEF Promise!Next
  <1> QED
    BY <1>1, <1>2, <1>3

\* A handler that ends: the message in hand was nowhere else.
LEMMA HandleStep ==
  ASSUME IInv, IInv', handle_transaction
  PROVE  Promise!Next
  <1>1. PICK m \in TransactionMessage : inhand = <<m>> /\ inhand[1] = m
    BY InHand DEF handle_transaction
  <1>2. inhand' = <<>> /\ UNCHANGED <<plugin, loads, tasks, channel, redis, offered>>
    BY DEF handle_transaction, sending, None
  <1>3. CASE handled' = handled
    <2>1. InTransit' \subseteq InTransit
      BY IngesterShrinks DEF Shrinks
    <2> QED
      BY <1>2, <1>3, <2>1, LossStep
  <1>4. CASE handled' = handled \cup {m}
    <2>1. ToSet(inhand) = {m} /\ ToSet(inhand') = {}
      BY <1>1, <1>2, ToSetSmall
    <2>2. m \notin tasks /\ m \notin ToSet(channel) /\ m \notin Unread(redis["TXN"])
      BY <2>1 DEF IInv, Placed
    <2>3. \A s \in Stream : m \notin Unread(redis[s])
      <3> SUFFICES ASSUME NEW s \in Stream, m \in Unread(redis[s]) PROVE FALSE
        OBVIOUS
      <3>1. m.stream = s
        BY UnreadStream
      <3>2. s = "TXN"
        BY <1>1, <3>1, MessageFields
      <3> QED
        BY <2>2, <3>2
    <2>4. InTransit' = InTransit \ {m} /\ m \in InTransit
      BY <1>2, <2>1, <2>2, <2>3, TransitIs, TransitWillBe
    <2>5. UNCHANGED {MessageOf(x, loads) : x \in WantedNow}
      BY <1>2 DEF WantedNow
    <2>6. Promise!Handle(m)
      BY <1>1, <1>2, <1>4, <2>4, <2>5 DEF Promise!Handle
    <2> QED
      BY <2>6 DEF Promise!Next
  <1> QED
    BY <1>1, <1>3, <1>4 DEF handle_transaction

\* Every step is one of Delivery.
LEMMA StepDelivers ==
  ASSUME IInv, IInv', [Next]_vars
  PROVE  [Promise!Next]_Promise!vars
  <1>1. CASE UNCHANGED vars
    BY <1>1 DEF vars, sending, reading, ghosts, Promise!vars, InTransit, UnreadEntries, Unread, WantedNow
  <1>2. ASSUME update_account \/ update_slot_status \/ notify_block_metadata PROVE Promise!Next
    <2>0. PICK stream \in {"ACC", "SLT", "BLK"} :
            \E builder, notice :
              /\ Notify(notice)
              /\ \/ Ignore
                 \/ /\ Spawn(stream, builder, notice)
                    /\ SerializedData(stream, builder, notice, loads) \in Message
      BY <1>2, Serialized DEF update_account, update_slot_status, notify_block_metadata, Notify
    <2>1. PICK builder, notice :
            /\ Notify(notice)
            /\ \/ Ignore
               \/ /\ Spawn(stream, builder, notice)
                  /\ SerializedData(stream, builder, notice, loads) \in Message
      BY <2>0
    <2>2. CASE Ignore
      <3>1. InTransit' = InTransit /\ offered' = offered /\ handled' = handled
        BY <2>2 DEF Ignore, InTransit, UnreadEntries, Unread, sending, reading, ghosts
      <3> QED
        BY <3>1, LossStep
    <2>3. CASE Spawn(stream, builder, notice) /\ SerializedData(stream, builder, notice, loads) \in Message
      <3> DEFINE data == SerializedData(stream, builder, notice, loads)
      <3>1. data \in Message \ TransactionMessage
        BY <2>3, MessageFields DEF SerializedData
      <3>2. InTransit' = InTransit \cup {data} /\ offered' = offered \cup {data} /\ handled' = handled
        BY <2>3, SpawnTransit DEF Spawn
      <3> HIDE DEF data
      <3>3. offered' \cap TransactionMessage = offered \cap TransactionMessage
        BY <3>1, <3>2
      <3> QED
        BY <3>1, <3>2, <3>3, LossStep
    <2> QED
      BY <2>1, <2>2, <2>3
  <1>3. ASSUME \/ on_load \/ on_unload \/ Connected \/ NotConnected \/ Send \/ send
               \/ Start \/ recv \/ Restart
        PROVE  Promise!Next
    <2>1. InTransit' \subseteq InTransit
      BY <1>3, OtherStepsShrink DEF Shrinks
    <2>2. handled' = handled /\ offered' = offered
      BY <1>3 DEF on_load, on_unload, Connected, NotConnected, Send, send, Start, recv, Restart, ghosts
    <2> QED
      BY <2>1, <2>2, LossStep
  <1> QED
    BY <1>1, <1>2, <1>3, OfferStep, HandleStep DEF Next

\* The plugin, the streams and the ingester implement the abstract delivery for any
\* notifications, buffer sizes and faults: only what is wanted sets out, each message
\* is handled at most once, and what is lost does not return.
THEOREM DeliveryIsImplemented == Spec => ImplementsDelivery
  <1>1. Init => Promise!Init
    <2> SUFFICES ASSUME Init PROVE Promise!Init
      OBVIOUS
    <2>1. plugin = None /\ tasks = {} /\ channel = <<>> /\ inhand = <<>> /\ handled = {} /\ offered = {}
      BY DEF Init, None
    <2>2. \A s \in DOMAIN redis : Unread(redis[s]) = {}
      <3>1. ASSUME NEW s \in Stream PROVE Unread(redis[s]) = {}
        <4>1. redis[s].entries = <<>> /\ redis[s].read = 0
          BY StreamsAre DEF Init
        <4>2. SubSeq(<<>>, 0 + 1, Len(<<>>)) = <<>>
          BY SubSeqEmpty
        <4> QED
          BY <4>1, <4>2, ToSetSmall DEF Unread
      <3> QED
        BY <3>1, StreamsAre DEF Init
    <2>3. InTransit = {}
      BY <2>1, <2>2, ToSetSmall DEF InTransit, UnreadEntries
    <2>4. WantedNow = {}
      BY <2>1 DEF WantedNow
    <2> QED
      BY <2>1, <2>3, <2>4 DEF Promise!Init
  <1>2. IInv /\ IInv' /\ [Next]_vars => [Promise!Next]_Promise!vars
    BY StepDelivers
  <1> QED
    BY <1>1, <1>2, InitIInv, NextIInv, PTL DEF Spec, ImplementsDelivery, Promise!Spec
=============================================================================
