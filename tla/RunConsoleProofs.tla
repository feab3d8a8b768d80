-------------------------- MODULE RunConsoleProofs --------------------------
(***************************************************************************)
(* For any number of runs, writes, kept and replayed events, clicks and    *)
(* broken connections: a stream hands over the events of a run in order,   *)
(* once and without a gap, and a view never loses the refresh an event     *)
(* asked for.                                                              *)
(***************************************************************************)
EXTENDS RunConsole, FiniteSetTheorems, SequenceTheorems, TLAPS

-----------------------------------------------------------------------------
(* The inductive invariant. *)

\* The list of a run: its own events, in the order they were written.
LogOK(r) ==
  LET events == runs[r].events
  IN  /\ events \in Seq(Event)
      /\ Len(events) <= KeepEvents
      /\ \A i \in 1..Len(events) : events[i].run = r /\ events[i].at <= clock
      /\ \A i, j \in 1..Len(events) :
           i < j => events[i].at < events[j].at /\ events[i].seq < events[j].seq

\* Who is in the ledger was submitted.
LedgerOK ==
  /\ clock \in 0..MaxWrites /\ due \in 0..clock /\ told \in 0..clock
  /\ changed \in [RunIds -> 0..clock]
  /\ reused \subseteq RunIds
  /\ DOMAIN runs \subseteq RunIds
  /\ runs \in [DOMAIN runs -> [born : 1..MaxWrites, events : Seq(Event)]]
  /\ \A r \in DOMAIN runs : changed[r] > 0 /\ LogOK(r)

Source == [open : BOOLEAN, about : RunIds \cup {All, Off}, since : Nat,
           seen : [RunIds -> Nat \cup {None}], sent : Seq(Event), read : Nat]

InOrder(frames) ==
  \A i, j \in 1..Len(frames) :
    i < j /\ frames[i].run = frames[j].run => frames[i].at < frames[j].at

\* What a subscription knows of a run in the ledger: an event it has not seen
\* is newer than the frames, one that was told it has seen, and what it has
\* seen since it was connected was sent.
SeenOK(r) ==
  LET events == runs[r].events
      seen == source.seen[r]
  IN  /\ \A i \in 1..Len(events) :
           /\ events[i].seq > seen =>
                \A k \in 1..Len(source.sent) :
                  source.sent[k].run = r => source.sent[k].at < events[i].at
           /\ events[i].at <= told => events[i].seq <= seen
      /\ r \notin reused =>
           /\ seen <= LastSeq(events)
           /\ Concerns(source.about, r) =>
                \A i \in 1..Len(events) :
                  source.since < events[i].at /\ events[i].seq <= seen =>
                    \E k \in 1..Len(source.sent) : source.sent[k] = events[i]

SourceOK ==
  /\ source \in Source
  /\ source.read <= Len(source.sent)
  /\ \A k \in 1..Len(source.sent) : source.sent[k].at <= clock
  /\ IF source.open
     THEN /\ source.since <= clock
          /\ InOrder(source.sent)
          /\ \A r \in DOMAIN runs : SeenOK(r)
          /\ \A r \in RunIds : changed[r] = 0 => source.seen[r] = None
     ELSE source = Closed

StreamInv == LedgerOK /\ SourceOK /\ path \in RunIds \cup {All, Off}

-----------------------------------------------------------------------------
(* Lists of events. *)

LEMMA NoneIs == None \in Int /\ None < 0
BY DEF None

LEMMA LastSeqIs ==
  ASSUME NEW s \in Seq(Event)
  PROVE  /\ LastSeq(s) \in Nat \cup {None}
         /\ s # <<>> => Len(s) \in 1..Len(s) /\ LastSeq(s) = s[Len(s)].seq
         /\ s = <<>> => LastSeq(s) = None
<1>1. CASE s = <<>>
  BY <1>1 DEF LastSeq
<1>2. CASE s # <<>>
  <2>1. Len(s) \in 1..Len(s)
    BY <1>2
  <2>2. s[Len(s)] \in Event
    BY <2>1
  <2>3. s[Len(s)].seq \in Nat
    BY <2>2 DEF Event
  <2> QED BY <1>2, <2>1, <2>3 DEF LastSeq, Last
<1> QED BY <1>1, <1>2

\* An ordered list ends with its highest number.
LEMMA LastSeqIsHighest ==
  ASSUME NEW s \in Seq(Event),
         \A i, j \in 1..Len(s) : i < j => s[i].seq < s[j].seq
  PROVE  \A i \in 1..Len(s) : s[i].seq <= LastSeq(s)
<1> SUFFICES ASSUME NEW i \in 1..Len(s)
             PROVE  s[i].seq <= s[Len(s)].seq
  BY LastSeqIs
<1>1. s[i] \in Event /\ Len(s) \in 1..Len(s) /\ s[Len(s)] \in Event
  OBVIOUS
<1>2. s[i].seq \in Nat /\ s[Len(s)].seq \in Nat
  BY <1>1 DEF Event
<1>3. CASE i = Len(s)
  BY <1>2, <1>3
<1>4. CASE i < Len(s)
  BY <1>1, <1>2, <1>4
<1> QED BY <1>3, <1>4

\* Cutting a list to its newest entries.
LEMMA NewestIs ==
  ASSUME NEW s \in Seq(Event), s # <<>>
  PROVE  LET t == Newest(KeepEvents, s)
         IN  /\ t \in Seq(Event) /\ Len(t) \in 1..KeepEvents
             /\ \E d \in Nat : /\ Len(s) = Len(t) + d
                               /\ \A i \in 1..Len(t) : t[i] = s[i + d]
<1> USE StreamAssumption
<1> DEFINE m == IF Len(s) > KeepEvents THEN Len(s) - KeepEvents + 1 ELSE 1
           t == Newest(KeepEvents, s)
<1>1. Len(s) \in Nat \ {0} /\ m \in 1..Len(s) /\ m \in Int
  OBVIOUS
<1>2. t = SubSeq(s, m, Len(s))
  BY DEF Newest
<1>3. \A i \in m..Len(s) : s[i] \in Event
  BY <1>1
<1> HIDE DEF m, t
<1>4. /\ t \in Seq(Event) /\ Len(t) = Len(s) - m + 1
      /\ \A i \in 1..Len(s) - m + 1 : t[i] = s[m + i - 1]
  BY <1>1, <1>2, <1>3, SubSeqProperties
<1>5. Len(t) \in 1..KeepEvents
  BY <1>1, <1>4 DEF m
<1>6. m - 1 \in Nat /\ Len(s) = Len(t) + (m - 1)
  BY <1>1, <1>4
<1>7. \A i \in 1..Len(t) : t[i] = s[i + (m - 1)]
  BY <1>1, <1>4
<1> QED BY <1>4, <1>5, <1>6, <1>7 DEF t

\* The set of a list.
LEMMA SetOfList ==
  ASSUME NEW S, NEW s \in Seq(S)
  PROVE  /\ IsFiniteSet(ToSet(s))
         /\ \A e : e \in ToSet(s) <=> \E i \in 1..Len(s) : s[i] = e
<1>1. s \in [1..Len(s) -> S] /\ Len(s) \in Nat /\ DOMAIN s = 1..Len(s)
  OBVIOUS
<1>2. \A e : e \in ToSet(s) <=> \E i \in 1..Len(s) : s[i] = e
  BY <1>1 DEF ToSet
<1>3. s \in Surjection(1..Len(s), ToSet(s))
  BY <1>1, <1>2 DEF Surjection
<1>4. IsFiniteSet(1..Len(s))
  BY <1>1, FS_Interval
<1> QED BY <1>2, <1>3, <1>4, FS_Surjection

LEMMA EventsOfIs ==
  ASSUME LedgerOK, NEW r \in RunIds
  PROVE  /\ EventsOf(r) \in Seq(Event)
         /\ IsFiniteSet(ToSet(EventsOf(r)))
         /\ \A e \in ToSet(EventsOf(r)) :
              /\ e \in Event /\ e.run = r /\ e.at <= clock
              /\ r \in DOMAIN runs
              /\ \E i \in 1..Len(runs[r].events) : runs[r].events[i] = e
<1>1. CASE r \in DOMAIN runs
  <2>1. EventsOf(r) = runs[r].events /\ LogOK(r)
    BY <1>1 DEF EventsOf, LedgerOK
  <2> QED BY <1>1, <2>1, SetOfList DEF LogOK
<1>2. CASE r \notin DOMAIN runs
  <2>1. EventsOf(r) = <<>> /\ ToSet(EventsOf(r)) = {}
    BY <1>2 DEF EventsOf, ToSet
  <2> QED BY <2>1, FS_EmptySet
<1> QED BY <1>1, <1>2

LEMMA EventsAboutIs ==
  ASSUME LedgerOK, NEW about
  PROVE  /\ IsFiniteSet(EventsAbout(about))
         /\ \A e : e \in EventsAbout(about) <=>
              \E r \in RunIds : Concerns(about, r) /\ e \in ToSet(EventsOf(r))
<1> DEFINE Ids == {n \in RunIds : Concerns(about, n)}
           lists == [r \in Ids |-> ToSet(EventsOf(r))]
           Sets == {ToSet(EventsOf(r)) : r \in Ids}
<1>1. IsFiniteSet(RunIds)
  BY StreamAssumption, FS_Interval DEF RunIds
<1>2. IsFiniteSet(Ids)
  BY <1>1, FS_Subset
<1>3. lists \in Surjection(Ids, Sets)
  BY DEF Surjection
<1>4. IsFiniteSet(Sets)
  BY <1>2, <1>3, FS_Surjection
<1>5. \A T \in Sets : IsFiniteSet(T)
  BY EventsOfIs
<1>6. EventsAbout(about) = UNION Sets
  BY DEF EventsAbout
<1>7. IsFiniteSet(EventsAbout(about))
  BY <1>4, <1>5, <1>6, FS_UNION
<1> QED BY <1>7 DEF EventsAbout

-----------------------------------------------------------------------------
(* The ledger. *)

\* appendEvent: the new event is the newest and has the highest number.
LEMMA AppendedIs ==
  ASSUME LedgerOK, NEW r \in DOMAIN runs, clock < MaxWrites
  PROVE  LET s == runs[r].events
             t == Appended(r)
         IN  /\ t \in Seq(Event) /\ Len(t) \in 1..KeepEvents
             /\ LastSeq(t) = LastSeq(s) + 1
             /\ t[Len(t)].run = r /\ t[Len(t)].at = clock + 1
             /\ t[Len(t)].seq = LastSeq(s) + 1
             /\ \A i \in 1..Len(t) :
                  i # Len(t) => \E j \in 1..Len(s) : t[i] = s[j]
             /\ \A i, j \in 1..Len(t) :
                  i < j => t[i].at < t[j].at /\ t[i].seq < t[j].seq
<1> DEFINE s == runs[r].events
           e == [run |-> r, born |-> runs[r].born, seq |-> NextSeq(s),
                 at |-> clock + 1]
           t == Appended(r)
<1>1. /\ r \in RunIds /\ clock \in Nat /\ clock + 1 \in 1..MaxWrites
      /\ s \in Seq(Event) /\ runs[r].born \in 1..MaxWrites
  BY StreamAssumption DEF LedgerOK, LogOK
<1>2. LogOK(r)
  BY DEF LedgerOK
<1>3. LastSeq(s) \in Nat \cup {None} /\ LastSeq(s) + 1 \in Nat
  BY <1>1, LastSeqIs, NoneIs DEF None
<1>4. e \in Event /\ e.seq = LastSeq(s) + 1 /\ e.at = clock + 1 /\ e.run = r
  BY <1>1, <1>3 DEF Event, NextSeq
<1>5. \A i \in 1..Len(s) : s[i].seq < e.seq /\ s[i].at < e.at
  <2> SUFFICES ASSUME NEW i \in 1..Len(s)
               PROVE  s[i].seq < e.seq /\ s[i].at < e.at
    OBVIOUS
  <2>1. s[i] \in Event
    BY <1>1
  <2>2. s[i].seq \in Nat /\ s[i].at \in Nat
    BY <2>1, StreamAssumption DEF Event
  <2>3. s[i].seq <= LastSeq(s)
    BY <1>1, <1>2, LastSeqIsHighest DEF LogOK
  <2>4. s[i].at <= clock
    BY <1>2 DEF LogOK
  <2>5. e.seq \in Nat
    BY <1>4 DEF Event
  <2> HIDE DEF e
  <2> QED BY <1>1, <1>3, <1>4, <2>2, <2>3, <2>4, <2>5, NoneIs
<1>6. t = Newest(KeepEvents, Append(s, e))
  BY DEF Appended
<1> HIDE DEF e, t
<1>7. /\ Append(s, e) \in Seq(Event) /\ Len(Append(s, e)) = Len(s) + 1
      /\ Append(s, e) # <<>> /\ Append(s, e)[Len(s) + 1] = e
      /\ \A i \in 1..Len(s) : Append(s, e)[i] = s[i]
  BY <1>1, <1>4
<1>8. PICK d \in Nat : /\ Len(s) + 1 = Len(t) + d
                       /\ \A i \in 1..Len(t) : t[i] = Append(s, e)[i + d]
  BY <1>6, <1>7, NewestIs
<1>9. t \in Seq(Event) /\ Len(t) \in 1..KeepEvents
  BY <1>6, <1>7, NewestIs
<1>10. Len(t) \in 1..Len(t) /\ t[Len(t)] = e
  BY <1>7, <1>8, <1>9, StreamAssumption
<1>11. \A i \in 1..Len(t) : i # Len(t) => i + d \in 1..Len(s) /\ t[i] = s[i + d]
  BY <1>1, <1>7, <1>8, <1>9, StreamAssumption
<1>12. \A i, j \in 1..Len(t) :
         i < j => t[i].at < t[j].at /\ t[i].seq < t[j].seq
  <2> SUFFICES ASSUME NEW i \in 1..Len(t), NEW j \in 1..Len(t), i < j
               PROVE  t[i].at < t[j].at /\ t[i].seq < t[j].seq
    OBVIOUS
  <2>1. i # Len(t) /\ i + d \in 1..Len(s) /\ t[i] = s[i + d]
    BY <1>9, <1>11, StreamAssumption
  <2>2. CASE j = Len(t)
    BY <1>5, <1>10, <2>1, <2>2
  <2>3. CASE j # Len(t)
    BY <1>2, <1>8, <1>11, <2>1, <2>3 DEF LogOK
  <2> QED BY <2>2, <2>3
<1>13. LastSeq(t) = t[Len(t)].seq
  BY <1>9, LastSeqIs
<1> QED BY <1>4, <1>9, <1>10, <1>11, <1>12, <1>13 DEF t, s

LEMMA SubmitIs ==
  ASSUME LedgerOK, Submit
  PROVE  \E r \in RunIds :
           /\ clock < MaxWrites /\ clock' = clock + 1
           /\ changed' = [changed EXCEPT ![r] = clock + 1]
           /\ DOMAIN runs' = DOMAIN runs \cup {r}
           /\ runs' = [n \in DOMAIN runs \cup {r} |->
                         IF n = r THEN [born |-> clock + 1, events |-> <<>>]
                         ELSE runs[n]]
           /\ reused' = IF changed[r] > 0 THEN reused \cup {r} ELSE reused
           /\ due' = due + 1 /\ UNCHANGED <<told, source>>
BY DEF Submit, Written

\* Time and other runs do nothing to a list.
LEMMA LogStays ==
  ASSUME clock \in Nat, clock' \in {clock, clock + 1},
         NEW n, LogOK(n), runs'[n] = runs[n]
  PROVE  LogOK(n)'
<1> DEFINE s == runs[n].events
<1>1. s \in Seq(Event) /\ runs'[n].events = s
  BY DEF LogOK
<1>2. \A i \in 1..Len(s) : s[i].run = n /\ s[i].at <= clock'
  <2> TAKE i \in 1..Len(s)
  <2>1. s[i] \in Event
    BY <1>1
  <2>2. s[i].at \in Nat
    BY <2>1, StreamAssumption DEF Event
  <2>3. s[i].run = n /\ s[i].at <= clock
    BY DEF LogOK
  <2> HIDE DEF s
  <2> QED BY <2>2, <2>3
<1> QED BY <1>1, <1>2 DEF LogOK

LEMMA LedgerStep ==
  ASSUME LedgerOK, Next \/ UNCHANGED vars
  PROVE  LedgerOK'
<1> USE StreamAssumption DEF LedgerOK
<1>1. CASE Submit
  <2>1. PICK r \in RunIds :
           /\ clock < MaxWrites /\ clock' = clock + 1
           /\ changed' = [changed EXCEPT ![r] = clock + 1]
           /\ DOMAIN runs' = DOMAIN runs \cup {r}
           /\ runs' = [n \in DOMAIN runs \cup {r} |->
                         IF n = r THEN [born |-> clock + 1, events |-> <<>>]
                         ELSE runs[n]]
           /\ reused' = IF changed[r] > 0 THEN reused \cup {r} ELSE reused
           /\ due' = due + 1 /\ UNCHANGED <<told, source>>
    BY <1>1, SubmitIs
  <2>2. /\ clock' \in 0..MaxWrites /\ due' \in 0..clock' /\ told' \in 0..clock'
        /\ changed' \in [RunIds -> 0..clock'] /\ reused' \subseteq RunIds
        /\ DOMAIN runs' \subseteq RunIds
    BY <2>1
  <2>3. runs' \in [DOMAIN runs' -> [born : 1..MaxWrites, events : Seq(Event)]]
    <3>1. [born |-> clock + 1, events |-> <<>>]
            \in [born : 1..MaxWrites, events : Seq(Event)]
      BY <2>1
    <3> QED BY <2>1, <3>1
  <2>4. \A n \in DOMAIN runs' : changed'[n] > 0 /\ LogOK(n)'
    <3> TAKE n \in DOMAIN runs'
    <3>1. CASE n = r
      <4>1. runs'[n].events = <<>> /\ changed'[n] > 0
        BY <2>1, <3>1
      <4> QED BY <4>1 DEF LogOK
    <3>2. CASE n # r
      <4>1. /\ n \in DOMAIN runs /\ runs'[n] = runs[n]
            /\ changed'[n] = changed[n]
        BY <2>1, <3>2
      <4>2. LogOK(n) /\ changed[n] > 0 /\ clock \in Nat
        BY <4>1
      <4> QED BY <2>1, <4>1, <4>2, LogStays
    <3> QED BY <3>1, <3>2
  <2> QED BY <2>2, <2>3, <2>4
<1>2. ASSUME NEW r \in DOMAIN runs, Delete(r)
      PROVE  LedgerOK'
  <2>1. /\ clock < MaxWrites /\ clock' = clock + 1
        /\ changed' = [changed EXCEPT ![r] = clock + 1]
        /\ runs' = [n \in DOMAIN runs \ {r} |-> runs[n]]
        /\ due' = due + 1 /\ UNCHANGED <<told, reused>>
    BY <1>2 DEF Delete, Written
  <2>2. /\ clock' \in 0..MaxWrites /\ due' \in 0..clock' /\ told' \in 0..clock'
        /\ changed' \in [RunIds -> 0..clock'] /\ reused' \subseteq RunIds
        /\ runs' \in [DOMAIN runs' -> [born : 1..MaxWrites, events : Seq(Event)]]
    BY <2>1
  <2>3. \A n \in DOMAIN runs' : /\ n \in DOMAIN runs /\ runs'[n] = runs[n]
                                /\ changed'[n] = changed[n]
    BY <2>1
  <2>4. \A n \in DOMAIN runs' : LogOK(n)' /\ changed'[n] > 0
    <3> TAKE n \in DOMAIN runs'
    <3>1. LogOK(n) /\ changed[n] > 0 /\ clock \in Nat
      BY <2>3
    <3> QED BY <2>1, <2>3, <3>1, LogStays
  <2>5. DOMAIN runs' \subseteq RunIds
    BY <2>1
  <2> QED BY <2>2, <2>4, <2>5
<1>3. ASSUME NEW r \in DOMAIN runs, NEW event \in BOOLEAN,
             NEW notifies \in BOOLEAN, Write(r, event, notifies)
      PROVE  LedgerOK'
  <2>1. /\ r \in RunIds /\ clock < MaxWrites /\ clock' = clock + 1
        /\ changed' = [changed EXCEPT ![r] = clock + 1]
        /\ due' = due + 1 \/ due' = due
        /\ UNCHANGED <<told, reused>>
    BY <1>3 DEF Write, Written
  <2>2. /\ clock' \in 0..MaxWrites /\ due' \in 0..clock' /\ told' \in 0..clock'
        /\ changed' \in [RunIds -> 0..clock'] /\ reused' \subseteq RunIds
    BY <2>1
  <2>3. CASE ~event
    <3>1. runs' = runs
      BY <1>3, <2>3 DEF Write
    <3>2. \A n \in DOMAIN runs : LogOK(n)' /\ changed'[n] > 0
      BY <2>1, <3>1, LogStays
    <3> QED BY <2>1, <2>2, <3>1, <3>2
  <2>4. CASE event
    <3> DEFINE t == Appended(r)
    <3>1. runs' = [runs EXCEPT ![r].events = t]
      BY <1>3, <2>4 DEF Write
    <3>2. /\ t \in Seq(Event) /\ Len(t) \in 1..KeepEvents
          /\ t[Len(t)].run = r /\ t[Len(t)].at = clock + 1
          /\ \A i \in 1..Len(t) :
               i # Len(t) => \E j \in 1..Len(runs[r].events) :
                               t[i] = runs[r].events[j]
          /\ \A i, j \in 1..Len(t) :
               i < j => t[i].at < t[j].at /\ t[i].seq < t[j].seq
      BY <2>1, AppendedIs
    <3> HIDE DEF t
    <3>3. /\ DOMAIN runs' = DOMAIN runs
          /\ runs'[r].events = t
          /\ \A n \in DOMAIN runs : n # r => runs'[n] = runs[n]
          /\ runs' \in [DOMAIN runs -> [born : 1..MaxWrites, events : Seq(Event)]]
      BY <3>1, <3>2
    <3>4. \A i \in 1..Len(t) : t[i].run = r /\ t[i].at <= clock'
      <4> TAKE i \in 1..Len(t)
      <4>1. CASE i = Len(t)
        BY <2>1, <3>2, <4>1
      <4>2. CASE i # Len(t)
        <5>1. PICK j \in 1..Len(runs[r].events) : t[i] = runs[r].events[j]
          BY <3>2, <4>2
        <5>2. runs[r].events[j].run = r /\ runs[r].events[j].at <= clock
          BY DEF LogOK
        <5>3. t[i] \in Event
          BY <3>2
        <5>4. t[i].at \in Nat
          BY <5>3 DEF Event
        <5> QED BY <2>1, <5>1, <5>2, <5>4
      <4> QED BY <4>1, <4>2
    <3>5. LogOK(r)'
      BY <3>2, <3>3, <3>4 DEF LogOK
    <3>6. \A n \in DOMAIN runs : n # r => LogOK(n)'
      BY <2>1, <3>3, LogStays
    <3> QED BY <2>1, <2>2, <3>3, <3>5, <3>6, SMTT(20)
  <2> QED BY <2>3, <2>4
<1>4. CASE Notify
  <2>1. /\ UNCHANGED <<runs, changed, clock, reused>>
        /\ due > 0 /\ due' = due - 1 /\ told' = clock
    BY <1>4 DEF Notify
  <2>2. due' \in 0..clock
    BY <2>1
  <2> QED BY <2>1, <2>2 DEF LogOK
<1>5. CASE UNCHANGED <<ledger, due>>
  BY <1>5 DEF ledger, LogOK
<1>6. Next \/ UNCHANGED vars =>
        \/ LedgerNext \/ Notify \/ UNCHANGED <<ledger, due>>
  BY DEF Next, vars, eventVars, ReadFrame, Confirm, Tick, Serve, Arrive,
         ArriveLate, RequestFails, Reconnect, Connect, StreamBreaks, OpenRun,
         CloseRun, ShowRun
<1> QED BY <1>1, <1>2, <1>3, <1>4, <1>5, <1>6 DEF LedgerNext

-----------------------------------------------------------------------------
(* The stream. *)

\* A finite enumeration is a sequence.
LEMMA EnumerationIs ==
  ASSUME NEW S, S \subseteq Event, NEW n \in Nat, NEW s \in [1..n -> S]
  PROVE  s \in Seq(Event) /\ Len(s) = n /\ DOMAIN s = 1..Len(s)
OBVIOUS

LEMMA EventsAreTyped ==
  ASSUME LedgerOK, NEW about
  PROVE  /\ EventsAbout(about) \subseteq Event
         /\ Cardinality(EventsAbout(about)) \in Nat
<1>1. EventsAbout(about) \subseteq Event
  BY EventsAboutIs, EventsOfIs
<1> QED BY <1>1, EventsAboutIs, FS_CardinalityType

\* What a notification hands over: every event the subscription has not seen
\* of the runs it is about, and nothing else, in the order of each run.
LEMMA EmissionIs ==
  ASSUME LedgerOK, source \in Source, NEW frames \in Emissions(Unseen)
  PROVE  /\ frames \in Seq(Event)
         /\ \A k \in 1..Len(frames) :
              \E r \in DOMAIN runs :
                /\ frames[k].run = r /\ frames[k].seq > source.seen[r]
                /\ frames[k].at <= clock
                /\ \E i \in 1..Len(runs[r].events) :
                     runs[r].events[i] = frames[k]
         /\ \A r \in DOMAIN runs : Concerns(source.about, r) =>
              \A i \in 1..Len(runs[r].events) :
                runs[r].events[i].seq > source.seen[r] =>
                  \E k \in 1..Len(frames) : frames[k] = runs[r].events[i]
         /\ InOrder(frames)
<1> DEFINE E == EventsAbout(source.about)
<1>1. E \subseteq Event /\ IsFiniteSet(E)
  BY EventsAreTyped, EventsAboutIs
<1>2. Unseen \subseteq E
  BY DEF Unseen
<1>3. Cardinality(Unseen) \in Nat /\ Unseen \subseteq Event
  BY <1>1, <1>2, FS_Subset, FS_CardinalityType
<1>4. frames \in [1..Cardinality(Unseen) -> Unseen] /\ ToSet(frames) = Unseen
  BY DEF Emissions
<1>5. frames \in Seq(Event) /\ DOMAIN frames = 1..Len(frames)
  BY <1>3, <1>4, EnumerationIs
<1>6. \A k \in 1..Len(frames) : frames[k] \in Unseen
  BY <1>4, <1>5
<1>7. \A k \in 1..Len(frames) :
        \E r \in DOMAIN runs :
          /\ frames[k].run = r /\ frames[k].seq > source.seen[r]
          /\ frames[k].at <= clock
          /\ \E i \in 1..Len(runs[r].events) : runs[r].events[i] = frames[k]
  <2> TAKE k \in 1..Len(frames)
  <2>1. frames[k] \in E /\ frames[k].seq > source.seen[frames[k].run]
    BY <1>6 DEF Unseen
  <2>2. PICK r \in RunIds : frames[k] \in ToSet(EventsOf(r))
    BY <2>1, EventsAboutIs
  <2> QED BY <2>1, <2>2, EventsOfIs
<1>8. ASSUME NEW r \in DOMAIN runs, Concerns(source.about, r),
             NEW i \in 1..Len(runs[r].events),
             runs[r].events[i].seq > source.seen[r]
      PROVE  \E k \in 1..Len(frames) : frames[k] = runs[r].events[i]
  <2>1. r \in RunIds /\ EventsOf(r) = runs[r].events /\ LogOK(r)
    BY DEF EventsOf, LedgerOK
  <2>2. runs[r].events[i] \in ToSet(EventsOf(r)) /\ runs[r].events[i].run = r
    BY <2>1, SetOfList DEF LogOK
  <2>3. runs[r].events[i] \in Unseen
    BY <1>8, <2>1, <2>2, EventsAboutIs DEF Unseen
  <2> QED BY <1>4, <1>5, <2>3, SetOfList
<1>9. InOrder(frames)
  <2> SUFFICES ASSUME NEW i \in 1..Len(frames), NEW j \in 1..Len(frames),
                      i < j, frames[i].run = frames[j].run
               PROVE  frames[i].at < frames[j].at
    BY DEF InOrder
  <2>1. InTurn(frames[i], frames[j])
    BY <1>5 DEF Emissions
  <2>2. frames[i] \in Event
    BY <1>5
  <2>3. frames[i].run \in Int
    BY <2>2, StreamAssumption DEF Event, RunIds
  <2> QED BY <2>1, <2>3 DEF InTurn
<1> QED BY <1>5, <1>7, <1>8, <1>9

LEMMA ReplayIs ==
  ASSUME LedgerOK, NEW about, NEW frames \in Replays(about)
  PROVE  /\ frames \in Seq(Event) /\ InOrder(frames)
         /\ \A k \in 1..Len(frames) : frames[k].at <= clock
<1> DEFINE E == EventsAbout(about)
           c == Cardinality(E)
           n == IF c > ReplayEvents THEN ReplayEvents ELSE c
<1>1. E \subseteq Event /\ c \in Nat
  BY EventsAreTyped
<1>2. n \in Nat
  BY <1>1, StreamAssumption
<1>3. /\ frames \in [1..n -> E]
      /\ \A i, j \in DOMAIN frames : i < j => frames[i].at < frames[j].at
  BY DEF Replays
<1> HIDE DEF n, c
<1>4. frames \in Seq(Event) /\ DOMAIN frames = 1..Len(frames)
  BY <1>1, <1>2, <1>3, EnumerationIs
<1>5. \A k \in 1..Len(frames) : frames[k] \in E
  BY <1>3, <1>4
<1>6. \A k \in 1..Len(frames) : frames[k].at <= clock
  BY <1>5, EventsAboutIs, EventsOfIs
<1> QED BY <1>3, <1>4, <1>6 DEF InOrder

\* A write of another run, a deletion or a frame that is read leave what a
\* subscription knows of a run.
LEMMA SeenStays ==
  ASSUME NEW r, SeenOK(r), runs'[r] = runs[r], UNCHANGED told,
         reused \subseteq reused',
         source'.sent = source.sent, source'.seen = source.seen,
         source'.since = source.since, source'.about = source.about
  PROVE  SeenOK(r)'
BY DEF SeenOK

\* Frames do not come from the future, and stay so.
LEMMA SentTimes ==
  ASSUME SourceOK, clock \in Nat
  PROVE  \A k \in 1..Len(source.sent) :
           /\ source.sent[k].at \in Nat
           /\ source.sent[k].at <= clock /\ source.sent[k].at <= clock + 1
<1> SUFFICES ASSUME NEW k \in 1..Len(source.sent)
             PROVE  source.sent[k].at \in Nat /\ source.sent[k].at <= clock
  BY SMT
<1>1. source.sent \in Seq(Event)
  BY DEF SourceOK, Source
<1>2. source.sent[k] \in Event
  BY <1>1
<1> QED BY <1>2, StreamAssumption DEF SourceOK, Event

LEMMA SubmitKeepsStream ==
  ASSUME StreamInv, Submit
  PROVE  SourceOK'
<1> USE StreamAssumption
<1>1. PICK r \in RunIds :
         /\ clock < MaxWrites /\ clock' = clock + 1
         /\ changed' = [changed EXCEPT ![r] = clock + 1]
         /\ DOMAIN runs' = DOMAIN runs \cup {r}
         /\ runs' = [n \in DOMAIN runs \cup {r} |->
                       IF n = r THEN [born |-> clock + 1, events |-> <<>>]
                       ELSE runs[n]]
         /\ reused' = IF changed[r] > 0 THEN reused \cup {r} ELSE reused
         /\ due' = due + 1 /\ UNCHANGED <<told, source>>
  BY SubmitIs DEF StreamInv
<1>2. SourceOK /\ clock \in Nat /\ changed \in [RunIds -> 0..clock]
  BY DEF StreamInv, LedgerOK
<1>3. ASSUME source.open, NEW n \in DOMAIN runs'
      PROVE  SeenOK(n)'
  <2>1. CASE n = r
    <3>1. runs'[r].events = <<>>
      BY <1>1
    <3>2. r \notin reused' => source.seen[r] = None
      BY <1>1, <1>2, <1>3 DEF SourceOK
    <3>3. None <= None
      BY NoneIs
    <3> QED BY <1>1, <2>1, <3>1, <3>2, <3>3 DEF SeenOK, LastSeq
  <2>2. CASE n # r
    <3>1. n \in DOMAIN runs /\ runs'[n] = runs[n] /\ reused \subseteq reused'
      BY <1>1, <1>3, <2>2
    <3>2. SeenOK(n)
      BY <1>2, <1>3, <3>1 DEF SourceOK
    <3> QED BY <1>1, <3>1, <3>2, SeenStays
  <2> QED BY <2>1, <2>2
<1>4. \A n \in RunIds : changed'[n] = 0 => changed[n] = 0
  BY <1>1, <1>2
<1>5. \A k \in 1..Len(source.sent) : source.sent[k].at <= clock'
  BY <1>1, <1>2, SentTimes
<1>6. source.open => source.since <= clock'
  BY <1>1, <1>2 DEF SourceOK, Source
<1> QED BY <1>1, <1>2, <1>3, <1>4, <1>5, <1>6 DEF SourceOK, InOrder

LEMMA DeleteKeepsStream ==
  ASSUME StreamInv, NEW r \in DOMAIN runs, Delete(r)
  PROVE  SourceOK'
<1>1. /\ r \in RunIds /\ clock' = clock + 1
      /\ changed' = [changed EXCEPT ![r] = clock + 1]
      /\ runs' = [n \in DOMAIN runs \ {r} |-> runs[n]]
      /\ UNCHANGED <<told, reused, source>>
  BY DEF Delete, Written, StreamInv, LedgerOK
<1>2. SourceOK /\ clock \in Nat /\ changed \in [RunIds -> 0..clock]
  BY StreamAssumption DEF StreamInv, LedgerOK
<1>3. ASSUME source.open, NEW n \in DOMAIN runs'
      PROVE  SeenOK(n)'
  <2>1. n \in DOMAIN runs /\ runs'[n] = runs[n]
    BY <1>1, <1>3
  <2>2. SeenOK(n)
    BY <1>2, <1>3, <2>1 DEF SourceOK
  <2> QED BY <1>1, <2>1, <2>2, SeenStays
<1>4. \A n \in RunIds : changed'[n] = 0 => changed[n] = 0
  BY <1>1, <1>2
<1>5. \A k \in 1..Len(source.sent) : source.sent[k].at <= clock'
  BY <1>1, <1>2, SentTimes
<1>6. source.open => source.since <= clock'
  BY <1>1, <1>2 DEF SourceOK, Source
<1> QED BY <1>1, <1>2, <1>3, <1>4, <1>5, <1>6 DEF SourceOK, InOrder

LEMMA WriteKeepsStream ==
  ASSUME StreamInv, NEW r \in DOMAIN runs, NEW event \in BOOLEAN,
         NEW notifies \in BOOLEAN, Write(r, event, notifies)
  PROVE  SourceOK'
<1>1. /\ r \in RunIds /\ clock < MaxWrites /\ clock' = clock + 1
      /\ changed' = [changed EXCEPT ![r] = clock + 1]
      /\ runs' = IF event THEN [runs EXCEPT ![r].events = Appended(r)] ELSE runs
      /\ UNCHANGED <<told, reused, source>>
  BY DEF Write, Written, StreamInv, LedgerOK
<1>2. /\ SourceOK /\ LedgerOK /\ clock \in Nat /\ told <= clock /\ told \in Nat
      /\ changed \in [RunIds -> 0..clock]
  BY StreamAssumption DEF StreamInv, LedgerOK
<1>3. DOMAIN runs' = DOMAIN runs
  BY <1>1
<1>4. \A k \in 1..Len(source.sent) : source.sent[k].at \in Nat
                                     /\ source.sent[k].at <= clock
  BY <1>2, SentTimes
<1>5. ASSUME source.open, event
      PROVE  SeenOK(r)'
  <2> DEFINE s == runs[r].events
             t == Appended(r)
             seen == source.seen[r]
  <2>1. /\ t \in Seq(Event) /\ Len(t) \in 1..KeepEvents
        /\ LastSeq(t) = LastSeq(s) + 1
        /\ t[Len(t)].at = clock + 1 /\ t[Len(t)].seq = LastSeq(s) + 1
        /\ \A i \in 1..Len(t) : i # Len(t) => \E j \in 1..Len(s) : t[i] = s[j]
    BY <1>1, <1>2, AppendedIs
  <2>2. runs'[r].events = t
    BY <1>1, <1>2, <1>5 DEF LedgerOK
  <2>3. SeenOK(r)
    BY <1>2, <1>5 DEF SourceOK
  <2>4. LastSeq(s) \in Int /\ seen \in Int
    BY <1>1, <1>2, LastSeqIs, NoneIs DEF LedgerOK, SourceOK, Source
  <2> HIDE DEF t
  <2>5. ASSUME NEW i \in 1..Len(t)
        PROVE  /\ t[i].seq > seen =>
                    \A k \in 1..Len(source.sent) :
                      source.sent[k].run = r => source.sent[k].at < t[i].at
               /\ t[i].at <= told => t[i].seq <= seen
    <3>1. CASE i = Len(t)
      BY <1>2, <1>4, <2>1, <3>1
    <3>2. CASE i # Len(t)
      <4>1. PICK j \in 1..Len(s) : t[i] = s[j]
        BY <2>1, <3>2
      <4> QED BY <2>3, <4>1 DEF SeenOK
    <3> QED BY <3>1, <3>2
  <2>6. ASSUME r \notin reused
        PROVE  /\ seen <= LastSeq(t)
               /\ Concerns(source.about, r) =>
                    \A i \in 1..Len(t) :
                      source.since < t[i].at /\ t[i].seq <= seen =>
                        \E k \in 1..Len(source.sent) : source.sent[k] = t[i]
    <3>1. seen <= LastSeq(s)
      BY <2>3, <2>6 DEF SeenOK
    <3>2. seen <= LastSeq(t)
      BY <2>1, <2>4, <3>1
    <3>3. ASSUME Concerns(source.about, r), NEW i \in 1..Len(t),
                 source.since < t[i].at, t[i].seq <= seen
          PROVE  \E k \in 1..Len(source.sent) : source.sent[k] = t[i]
      <4>1. i # Len(t)
        BY <2>1, <2>4, <3>1, <3>3
      <4>2. PICK j \in 1..Len(s) : t[i] = s[j]
        BY <2>1, <4>1
      <4> QED BY <2>3, <2>6, <3>3, <4>2 DEF SeenOK
    <3> QED BY <3>2, <3>3
  <2> QED BY <1>1, <2>2, <2>5, <2>6 DEF SeenOK
<1>6. ASSUME source.open, NEW n \in DOMAIN runs, ~(n = r /\ event)
      PROVE  SeenOK(n)'
  <2>1. runs'[n] = runs[n]
    BY <1>1, <1>6
  <2>2. SeenOK(n)
    BY <1>2, <1>6 DEF SourceOK
  <2> QED BY <1>1, <2>1, <2>2, SeenStays
<1>7. \A n \in RunIds : changed'[n] = 0 => changed[n] = 0
  BY <1>1, <1>2
<1>8. \A k \in 1..Len(source.sent) : source.sent[k].at <= clock'
  BY <1>1, <1>2, <1>4
<1>9. source.open => source.since <= clock'
  BY <1>1, <1>2 DEF SourceOK, Source
<1> QED BY <1>1, <1>2, <1>3, <1>5, <1>6, <1>7, <1>8, <1>9
        DEF SourceOK, InOrder

LEMMA NotifyKeepsStream ==
  ASSUME StreamInv, Notify
  PROVE  SourceOK'
<1>1. /\ SourceOK /\ LedgerOK /\ source \in Source /\ clock \in Nat
      /\ told' = clock /\ UNCHANGED <<runs, changed, clock, reused>>
  <2>1. SourceOK /\ LedgerOK
    BY DEF StreamInv
  <2>2. source \in Source
    BY <2>1 DEF SourceOK
  <2>3. clock \in Nat
    BY <2>1, StreamAssumption DEF LedgerOK
  <2> QED BY <2>1, <2>2, <2>3 DEF Notify
<1>2. CASE ~source.open
  BY <1>1, <1>2 DEF Notify, SourceOK, Closed
<1>3. CASE source.open
  <2>1. PICK frames \in Emissions(Unseen) :
          source' = [source EXCEPT !.sent = @ \o frames, !.seen = SeenAfter]
    BY <1>3 DEF Notify
  <2> DEFINE old == source.sent
             new == old \o frames
  <2>2. /\ frames \in Seq(Event)
        /\ \A k \in 1..Len(frames) :
             \E r \in DOMAIN runs :
               /\ frames[k].run = r /\ frames[k].seq > source.seen[r]
               /\ frames[k].at <= clock
               /\ \E i \in 1..Len(runs[r].events) :
                    runs[r].events[i] = frames[k]
        /\ \A r \in DOMAIN runs : Concerns(source.about, r) =>
             \A i \in 1..Len(runs[r].events) :
               runs[r].events[i].seq > source.seen[r] =>
                 \E k \in 1..Len(frames) : frames[k] = runs[r].events[i]
        /\ InOrder(frames)
    BY <1>1, EmissionIs
  <2>3. old \in Seq(Event)
    BY <1>1 DEF Source
  <2>4. /\ new \in Seq(Event) /\ Len(new) = Len(old) + Len(frames)
        /\ \A k \in 1..Len(old) : new[k] = old[k]
        /\ \A k \in 1..Len(frames) : new[Len(old) + k] = frames[k]
        /\ \A k \in 1..Len(new) : \/ k \in 1..Len(old)
                                  \/ /\ k - Len(old) \in 1..Len(frames)
                                     /\ new[k] = frames[k - Len(old)]
    BY <2>2, <2>3
  <2>5. \A r \in RunIds :
          /\ LastSeq(EventsOf(r)) \in Nat \cup {None}
          /\ source.seen[r] \in Nat \cup {None}
    BY <1>1, EventsOfIs, LastSeqIs DEF Source
  <2>6. /\ SeenAfter \in [RunIds -> Nat \cup {None}]
        /\ \A r \in RunIds : /\ SeenAfter[r] >= source.seen[r]
                             /\ SeenAfter[r] >= LastSeq(EventsOf(r))
                             /\ SeenAfter[r] \in {source.seen[r],
                                                  LastSeq(EventsOf(r))}
    BY <2>5, NoneIs DEF SeenAfter
  <2>7. /\ source'.sent = new /\ source'.seen = SeenAfter /\ source' \in Source
        /\ source'.open /\ source'.since = source.since
        /\ source'.read = source.read /\ source'.about = source.about
    BY <1>1, <1>3, <2>1, <2>4, <2>6 DEF Source
  <2>8. ASSUME NEW r \in DOMAIN runs, NEW i \in 1..Len(runs[r].events)
        PROVE  runs[r].events[i].seq <= SeenAfter[r]
    <3>1. LogOK(r) /\ r \in RunIds /\ EventsOf(r) = runs[r].events
      BY <1>1 DEF LedgerOK, EventsOf
    <3>2. runs[r].events[i].seq <= LastSeq(runs[r].events)
      BY <3>1, LastSeqIsHighest DEF LogOK
    <3>3. runs[r].events[i] \in Event
      BY <3>1 DEF LogOK
    <3>4. runs[r].events[i].seq \in Nat
      BY <3>3 DEF Event
    <3>5. SeenAfter[r] \in Int /\ LastSeq(runs[r].events) \in Int
      BY <2>5, <2>6, <3>1, NoneIs
    <3>6. LastSeq(runs[r].events) <= SeenAfter[r]
      BY <2>6, <3>1, <3>5
    <3> QED BY <3>2, <3>4, <3>5, <3>6
  <2> HIDE DEF new, old
  <2>9. \A k \in 1..Len(new) : new[k].at <= clock
    BY <1>1, <2>2, <2>4 DEF SourceOK, old
  <2>10. source'.read <= Len(new)
    BY <1>1, <2>2, <2>3, <2>4, <2>7 DEF SourceOK, Source, old
  <2>11. InOrder(new)
    <3> SUFFICES ASSUME NEW i \in 1..Len(new), NEW j \in 1..Len(new),
                        i < j, new[i].run = new[j].run
                 PROVE  new[i].at < new[j].at
      BY DEF InOrder
    <3>1. CASE j \in 1..Len(old)
      <4>1. i \in 1..Len(old)
        BY <2>3, <3>1
      <4> QED BY <1>1, <1>3, <2>4, <3>1, <4>1 DEF SourceOK, InOrder, old
    <3>2. CASE j \notin 1..Len(old) /\ i \in 1..Len(old)
      <4>1. j - Len(old) \in 1..Len(frames) /\ new[j] = frames[j - Len(old)]
        BY <2>4, <3>2
      <4> DEFINE f == frames[j - Len(old)]
      <4>0. \E r \in DOMAIN runs :
              /\ f.run = r /\ f.seq > source.seen[r]
              /\ \E e \in 1..Len(runs[r].events) : runs[r].events[e] = f
        BY <2>2, <4>1
      <4>2. PICK r \in DOMAIN runs :
              /\ new[j].run = r /\ new[j].seq > source.seen[r]
              /\ \E e \in 1..Len(runs[r].events) : runs[r].events[e] = new[j]
        <5> HIDE DEF f
        <5>1. new[j] = f
          BY <4>1 DEF f
        <5> QED BY <4>0, <5>1
      <4>3. SeenOK(r)
        BY <1>1, <1>3 DEF SourceOK
      <4>4. PICK e \in 1..Len(runs[r].events) : runs[r].events[e] = new[j]
        BY <4>2
      <4>5. new[i] = old[i] /\ old[i].run = r
        BY <2>4, <3>2, <4>2
      <4>6. \A k \in 1..Len(old) : old[k].run = r => old[k].at < new[j].at
        BY <4>2, <4>3, <4>4 DEF SeenOK, old
      <4> QED BY <3>2, <4>5, <4>6
    <3>3. CASE j \notin 1..Len(old) /\ i \notin 1..Len(old)
      <4>1. /\ j - Len(old) \in 1..Len(frames) /\ new[j] = frames[j - Len(old)]
            /\ i - Len(old) \in 1..Len(frames) /\ new[i] = frames[i - Len(old)]
        BY <2>4, <3>3
      <4>2. i - Len(old) < j - Len(old)
        BY <2>3
      <4> QED BY <2>2, <4>1, <4>2 DEF InOrder
    <3> QED BY <3>1, <3>2, <3>3
  <2>12. ASSUME NEW r \in DOMAIN runs
         PROVE  SeenOK(r)'
    <3> DEFINE s == runs[r].events
    <3>1. /\ r \in RunIds /\ SeenOK(r) /\ EventsOf(r) = s
          /\ s \in Seq(Event)
      BY <1>1, <1>3 DEF LedgerOK, LogOK, SourceOK, EventsOf
    <3>2. ASSUME NEW i \in 1..Len(s)
          PROVE  ~(s[i].seq > SeenAfter[r]) /\ s[i].seq <= SeenAfter[r]
      <4>1. s[i] \in Event
        BY <3>1
      <4>2. s[i].seq \in Nat /\ SeenAfter[r] \in Int
        BY <2>6, <3>1, <4>1, NoneIs DEF Event
      <4> QED BY <2>8, <4>2
    <3>3. ASSUME r \notin reused
          PROVE  SeenAfter[r] <= LastSeq(s)
      BY <2>5, <2>6, <3>1, <3>3, NoneIs DEF SeenOK
    <3>4. ASSUME r \notin reused, Concerns(source.about, r),
                 NEW i \in 1..Len(s), source.since < s[i].at
          PROVE  \E k \in 1..Len(new) : new[k] = s[i]
      <4>1. s[i] \in Event /\ source.seen[r] \in Int
        BY <2>5, <3>1, NoneIs
      <4>2. s[i].seq \in Nat
        BY <4>1 DEF Event
      <4>3. CASE s[i].seq <= source.seen[r]
        <5>1. PICK k \in 1..Len(old) : old[k] = s[i]
          BY <3>1, <3>4, <4>3 DEF SeenOK, old
        <5>2. k \in 1..Len(new)
          BY <2>2, <2>3, <2>4
        <5> QED BY <2>4, <5>1, <5>2
      <4>4. CASE s[i].seq > source.seen[r]
        <5>1. PICK k \in 1..Len(frames) : frames[k] = s[i]
          BY <2>2, <3>4, <4>4
        <5>2. Len(old) + k \in 1..Len(new)
          BY <2>2, <2>3, <2>4
        <5> QED BY <2>4, <5>1, <5>2
      <4> QED BY <4>1, <4>2, <4>3, <4>4
    <3> QED BY <1>1, <2>7, <3>2, <3>3, <3>4 DEF SeenOK
  <2>13. \A r \in RunIds : changed[r] = 0 => SeenAfter[r] = None
    <3> SUFFICES ASSUME NEW r \in RunIds, changed[r] = 0
                 PROVE  SeenAfter[r] = None
      OBVIOUS
    <3>1. EventsOf(r) = <<>>
      BY <1>1 DEF LedgerOK, EventsOf
    <3> QED BY <1>1, <1>3, <2>6, <3>1 DEF SourceOK, LastSeq
  <2>14. source.since <= clock
    BY <1>1, <1>3 DEF SourceOK
  <2> QED
    BY <1>1, <2>7, <2>9, <2>10, <2>11, <2>12, <2>13, <2>14 DEF SourceOK
<1> QED BY <1>2, <1>3

LEMMA ConnectKeepsStream ==
  ASSUME StreamInv, NEW about \in RunIds \cup {All, Off}, Connect(about)
  PROVE  SourceOK'
<1>1. LedgerOK /\ clock \in Nat /\ told <= clock /\ told \in Nat
  BY StreamAssumption DEF StreamInv, LedgerOK
<1>2. PICK frames \in Replays(about) :
        source' = [open |-> TRUE, about |-> about, since |-> clock,
                   seen |-> SeenAtStart, sent |-> frames, read |-> 0]
  BY DEF Connect
<1>3. UNCHANGED <<runs, changed, clock, told, reused>>
  BY DEF Connect, ledger
<1>4. /\ frames \in Seq(Event) /\ InOrder(frames)
      /\ \A k \in 1..Len(frames) : frames[k].at <= clock
  BY <1>1, ReplayIs
<1>5. /\ SeenAtStart \in [RunIds -> Nat \cup {None}]
      /\ \A r \in RunIds : SeenAtStart[r] = LastSeq(EventsOf(r))
  BY <1>1, EventsOfIs, LastSeqIs DEF SeenAtStart
<1>6. source' \in Source
  BY <1>1, <1>2, <1>4, <1>5 DEF Source
<1>7. ASSUME NEW r \in DOMAIN runs
      PROVE  SeenOK(r)'
  <2> DEFINE s == runs[r].events
  <2>1. /\ r \in RunIds /\ LogOK(r) /\ EventsOf(r) = s /\ s \in Seq(Event)
    BY <1>1 DEF LedgerOK, LogOK, EventsOf
  <2>2. LastSeq(s) \in Int /\ source'.seen[r] = LastSeq(s)
    BY <1>2, <1>5, <2>1, LastSeqIs, NoneIs
  <2>3. ASSUME NEW i \in 1..Len(s)
        PROVE  /\ s[i].seq <= LastSeq(s) /\ ~(s[i].seq > LastSeq(s))
               /\ ~(clock < s[i].at)
    <3>1. s[i] \in Event
      BY <2>1
    <3>2. s[i].seq \in Nat /\ s[i].at \in Nat
      BY <3>1, StreamAssumption DEF Event
    <3>3. s[i].seq <= LastSeq(s) /\ s[i].at <= clock
      BY <2>1, LastSeqIsHighest DEF LogOK
    <3> QED BY <1>1, <2>2, <3>2, <3>3
  <2> QED BY <1>2, <1>3, <2>2, <2>3 DEF SeenOK
<1>8. \A r \in RunIds : changed[r] = 0 => SeenAtStart[r] = None
  <2> SUFFICES ASSUME NEW r \in RunIds, changed[r] = 0
               PROVE  SeenAtStart[r] = None
    OBVIOUS
  <2>1. EventsOf(r) = <<>>
    BY <1>1 DEF LedgerOK, EventsOf
  <2> QED BY <1>5, <2>1 DEF LastSeq
<1> QED BY <1>1, <1>2, <1>3, <1>4, <1>6, <1>7, <1>8 DEF SourceOK

\* A frame is read, or the connection ends, or nothing happens to either side.
LEMMA OthersKeepStream ==
  ASSUME StreamInv, UNCHANGED ledger,
         \/ UNCHANGED source
         \/ source' = Closed
         \/ /\ source.open /\ source.read < Len(source.sent)
            /\ source' = [source EXCEPT !.read = @ + 1]
  PROVE  SourceOK'
<1>1. /\ SourceOK /\ source \in Source
      /\ UNCHANGED <<runs, changed, clock, told, reused>>
  BY DEF StreamInv, SourceOK, ledger
<1>2. CASE UNCHANGED source
  BY <1>1, <1>2 DEF SourceOK, SeenOK, LastSeq, InOrder
<1>3. CASE source' = Closed
  <2>1. Closed \in Source
    BY DEF Closed, Source
  <2>2. Len(Closed.sent) = 0 /\ Closed.read = 0 /\ ~Closed.open
    BY DEF Closed
  <2> QED BY <1>3, <2>1, <2>2 DEF SourceOK
<1>4. CASE /\ source.open /\ source.read < Len(source.sent)
           /\ source' = [source EXCEPT !.read = @ + 1]
  <2>1. /\ source' \in Source /\ source'.open
        /\ source'.sent = source.sent /\ source'.seen = source.seen
        /\ source'.since = source.since /\ source'.about = source.about
        /\ source'.read = source.read + 1
    BY <1>1, <1>4 DEF Source
  <2>2. source.sent \in Seq(Event) /\ source.read \in Nat
    BY <1>1 DEF Source
  <2>3. source'.read <= Len(source.sent)
    BY <1>4, <2>1, <2>2
  <2>4. \A r \in DOMAIN runs : SeenOK(r)'
    BY <1>1, <1>4, <2>1, SeenStays DEF SourceOK
  <2> QED BY <1>1, <1>4, <2>1, <2>3, <2>4 DEF SourceOK, InOrder
<1> QED BY <1>2, <1>3, <1>4

LEMMA StreamStep == StreamInv /\ [Next]_vars => StreamInv'
<1> SUFFICES ASSUME StreamInv, [Next]_vars PROVE StreamInv'
  OBVIOUS
<1>1. LedgerOK'
  BY LedgerStep DEF StreamInv
<1>2. path' \in RunIds \cup {All, Off}
  BY DEF StreamInv, Next, Quietly, view, vars, ReadFrame, Bump, Confirm, Tick,
         Serve, Arrive, ArriveLate, RequestFails, Reconnect, StreamBreaks,
         OpenRun, CloseRun, ShowRun
<1> SUFFICES SourceOK'
  BY <1>1, <1>2 DEF StreamInv
<1>3. CASE LedgerNext
  BY <1>3, SubmitKeepsStream, DeleteKeepsStream, WriteKeepsStream
     DEF LedgerNext
<1>4. CASE Notify
  BY <1>4, NotifyKeepsStream
<1>5. ASSUME NEW p \in RunIds \cup {All, Off}, Connect(p)
      PROVE  SourceOK'
  BY <1>5, ConnectKeepsStream
<1>6. CASE Reconnect
  BY <1>5, <1>6 DEF Reconnect, StreamInv
<1>7. CASE ReadFrame \/ Confirm \/ Tick \/ Serve \/ Arrive \/ ArriveLate
           \/ RequestFails \/ StreamBreaks \/ OpenRun \/ CloseRun
           \/ UNCHANGED vars
  <2>1. /\ UNCHANGED ledger
        /\ \/ UNCHANGED source
           \/ source' = Closed
           \/ /\ source.open /\ source.read < Len(source.sent)
              /\ source' = [source EXCEPT !.read = @ + 1]
    BY <1>7 DEF ReadFrame, Confirm, Tick, Serve, Arrive, ArriveLate,
         RequestFails, StreamBreaks, OpenRun, CloseRun, ShowRun, vars, eventVars
  <2> QED BY <2>1, OthersKeepStream
<1> QED
  BY <1>3, <1>4, <1>6, <1>7 DEF Next

LEMMA StreamInit == Init => StreamInv
<1> SUFFICES ASSUME Init PROVE StreamInv
  OBVIOUS
<1> USE StreamAssumption DEF Init, EventInit
<1>1. LedgerOK
  BY DEF LedgerOK
<1>2. Closed \in Source
  BY DEF Closed, Source
<1>3. Len(Closed.sent) = 0 /\ Closed.read = 0 /\ ~Closed.open
  BY DEF Closed
<1>4. SourceOK
  BY <1>2, <1>3 DEF SourceOK
<1> QED BY <1>1, <1>4 DEF StreamInv

LEMMA StreamInvariant == Spec => []StreamInv
BY StreamInit, StreamStep, PTL DEF Spec

LEMMA StreamFaith == StreamInv => StreamIsFaithful
<1> SUFFICES ASSUME StreamInv, source.open PROVE StreamIsFaithful
  BY DEF StreamIsFaithful
<1>1. /\ InOrder(source.sent) /\ \A r \in DOMAIN runs : SeenOK(r) /\ LogOK(r)
      /\ source.sent \in Seq(Event)
  BY DEF StreamInv, SourceOK, LedgerOK, Source
<1>2. ASSUME NEW r \in DOMAIN runs \ reused, Concerns(source.about, r),
             NEW e \in ToSet(runs[r].events), source.since < e.at, e.at <= told
      PROVE  e \in ToSet(source.sent)
  <2>1. PICK i \in 1..Len(runs[r].events) : runs[r].events[i] = e
    BY <1>1, SetOfList DEF LogOK
  <2>2. e.seq <= source.seen[r]
    BY <1>1, <1>2, <2>1 DEF SeenOK
  <2>3. \E k \in 1..Len(source.sent) : source.sent[k] = e
    BY <1>1, <1>2, <2>1, <2>2 DEF SeenOK
  <2> QED BY <1>1, <2>3, SetOfList
<1> QED BY <1>1, <1>2 DEF StreamIsFaithful, InOrder

\* However many runs are written, deleted and submitted, and whichever writes
\* notify: the frames of a run come in the order of its events, once, and a
\* notification leaves none behind that its stream is about, between the
\* replay of handleEvents and the end of the connection.
THEOREM StreamsAreFaithful == Spec => []StreamIsFaithful
BY StreamInvariant, StreamFaith, PTL

-----------------------------------------------------------------------------
(* The view. *)

\* A picture taken at a time shows every event that was handled.
Covers(time) == \A k \in 1..source.read : source.sent[k].at <= time

ViewOK ==
  /\ shown \in Answer /\ fetch \in Request /\ late \in Request
  /\ source.open => path # Off
  /\ late.state # "none" => ~late.live
  /\ fetch.state # "none" => fetch.path = path
  /\ shown.kind = "answer" => shown.path = path
  /\ fetch.state = "answered" => Covers(fetch.asOf)
  /\ fetch.state = "none" /\ shown.kind = "answer" => Covers(shown.asOf)

\* The ledger and its notifications leave the frames that were handled.
LEMMA HandledStay ==
  ASSUME StreamInv, LedgerNext \/ Notify
  PROVE  /\ source'.open = source.open /\ source'.read = source.read
         /\ \A k \in 1..source.read : source'.sent[k] = source.sent[k]
<1>1. CASE LedgerNext
  BY <1>1 DEF LedgerNext, Submit, Delete, Write, Written
<1>2. CASE Notify
  <2>1. source \in Source /\ LedgerOK /\ source.read <= Len(source.sent)
    BY DEF StreamInv, SourceOK
  <2>2. CASE ~source.open
    BY <1>2, <2>2 DEF Notify
  <2>3. CASE source.open
    <3>1. PICK frames \in Emissions(Unseen) :
            source' = [source EXCEPT !.sent = @ \o frames, !.seen = SeenAfter]
      BY <1>2, <2>3 DEF Notify
    <3>2. frames \in Seq(Event)
      BY <2>1, EmissionIs
    <3>3. /\ source'.open = source.open /\ source'.read = source.read
          /\ source'.sent = source.sent \o frames
          /\ source.sent \in Seq(Event) /\ source.read \in Nat
      BY <2>1, <3>1 DEF Source
    <3>4. \A k \in 1..Len(source.sent) : source'.sent[k] = source.sent[k]
      BY <3>2, <3>3
    <3> QED BY <2>1, <3>3, <3>4
  <2> QED BY <2>2, <2>3
<1> QED BY <1>1, <1>2

LEMMA Requests ==
  /\ NoRequest \in Request /\ NoRequest.state = "none"
  /\ \A p \in RunIds \cup {All, Off} :
       Asked(p) \in Request /\ Asked(p).state = "asked" /\ Asked(p).path = p
  /\ \A q : /\ Abandoned(q) \in Request /\ Abandoned(q).state = "answered"
            /\ ~Abandoned(q).live
  /\ Empty \in Answer /\ Empty.kind = "empty"
  /\ Null \in Answer /\ Null.kind = "null"
<1>1. 0 \in 0..MaxWrites
  BY StreamAssumption
<1>2. NoRequest \in Request /\ NoRequest.state = "none"
  BY <1>1 DEF NoRequest, Request
<1>3. Empty \in Answer /\ Empty.kind = "empty"
  BY <1>1 DEF Empty, Answer
<1>4. Null \in Answer /\ Null.kind = "null"
  BY <1>3 DEF Null, Answer
<1>5. \A q : /\ Abandoned(q) \in Request /\ Abandoned(q).state = "answered"
            /\ ~Abandoned(q).live
  BY <1>2 DEF Abandoned, Request
<1>6. \A p \in RunIds \cup {All, Off} :
        Asked(p) \in Request /\ Asked(p).state = "asked" /\ Asked(p).path = p
  BY <1>2 DEF Asked, Request
<1> QED BY <1>2, <1>3, <1>4, <1>5, <1>6

LEMMA RefetchIs ==
  ASSUME ViewOK, NEW p \in RunIds \cup {All, Off}, Refetch(p)
  PROVE  /\ fetch' \in Request /\ late' \in Request
         /\ late'.state # "none" => ~late'.live
         /\ IF p = Off THEN fetch'.state = "none"
            ELSE fetch'.state = "asked" /\ fetch'.path = p
BY Requests DEF ViewOK, Refetch

\* A view that does not change, beside frames that stay.
LEMMA ViewStays ==
  ASSUME ViewOK, UNCHANGED view, source'.open => source.open,
         source'.read = source.read,
         \A k \in 1..source.read : source'.sent[k] = source.sent[k]
  PROVE  ViewOK'
BY DEF ViewOK, view, Covers

LEMMA ViewStep == StreamInv /\ ViewOK /\ [Next]_vars => ViewOK'
<1> SUFFICES ASSUME StreamInv, ViewOK, [Next]_vars PROVE ViewOK'
  OBVIOUS
<1>1. /\ clock \in 0..MaxWrites /\ source.read \in Nat
      /\ Covers(clock) /\ path \in RunIds \cup {All, Off}
      /\ ~source.open => source.read = 0
  <2>1. SourceOK /\ LedgerOK
    BY DEF StreamInv
  <2>2. source.read \in Nat /\ source.read <= Len(source.sent)
    BY <2>1 DEF SourceOK, Source
  <2>3. source.sent \in Seq(Event)
    BY <2>1 DEF SourceOK, Source
  <2>4. Covers(clock)
    BY <2>1, <2>2, <2>3 DEF SourceOK, Covers
  <2> QED BY <2>1, <2>2, <2>4 DEF StreamInv, LedgerOK, SourceOK, Closed
<1>2. CASE (LedgerNext \/ Notify) /\ Quietly
  BY <1>2, HandledStay, ViewStays DEF Quietly
<1>3. CASE ReadFrame
  <2>1. path # Off /\ Refetch(path) /\ UNCHANGED <<path, shown>>
    BY <1>3 DEF ReadFrame, Bump, ViewOK
  <2>2. source'.open => source.open
    BY <1>3 DEF ReadFrame
  <2> QED BY <1>1, <2>1, <2>2, RefetchIs DEF ViewOK
<1>4. CASE Confirm
  <2>1. Refetch(path) /\ UNCHANGED <<path, shown, source>>
    BY <1>4 DEF Confirm, Bump, eventVars
  <2>2. path = Off => source.read = 0
    BY <1>1 DEF ViewOK
  <2> QED BY <1>1, <2>1, <2>2, RefetchIs DEF ViewOK, Covers
<1>5. CASE Tick
  <2>1. /\ fetch' = Asked(path)
        /\ UNCHANGED <<source, path, shown, late>>
    BY <1>5 DEF Tick, eventVars
  <2> QED BY <1>1, <2>1, Requests DEF ViewOK
<1>6. CASE Serve
  <2>1. /\ fetch' = Answered(fetch) /\ fetch.state = "asked"
        /\ UNCHANGED <<source, path, shown, late>>
    BY <1>6 DEF Serve, eventVars
  <2>2. /\ fetch' \in Request /\ fetch'.state = "answered"
        /\ fetch'.asOf = clock /\ fetch'.path = fetch.path
    BY <1>1, <2>1 DEF Answered, ViewOK, Request
  <2> QED BY <1>1, <2>1, <2>2 DEF ViewOK, Covers
<1>7. CASE Arrive
  <2>1. /\ fetch.state = "answered" /\ fetch' = NoRequest
        /\ shown' = [kind |-> "answer", path |-> fetch.path, asOf |-> fetch.asOf]
        /\ UNCHANGED <<source, path, late>>
    BY <1>7 DEF Arrive, Shows, Finished, eventVars
  <2>2. shown' \in Answer
    BY <2>1 DEF ViewOK, Request, Answer
  <2> QED BY <2>1, <2>2, Requests DEF ViewOK, Covers
<1>8. CASE ArriveLate
  <2>1. /\ late.state # "none" /\ late' = NoRequest /\ UNCHANGED shown
        /\ UNCHANGED <<source, path, fetch>>
    BY <1>8 DEF ArriveLate, ViewOK, eventVars
  <2> QED BY <2>1, Requests DEF ViewOK, Covers
<1>9. CASE RequestFails
  <2>1. /\ fetch' = NoRequest /\ shown' = Null
        /\ UNCHANGED <<source, path, late>>
    BY <1>9 DEF RequestFails, Finished, eventVars
  <2> QED BY <2>1, Requests DEF ViewOK
<1>10. CASE Reconnect
  <2>1. path # Off /\ source'.read = 0 /\ UNCHANGED view
    BY <1>10 DEF Reconnect, Connect
  <2> QED BY <2>1 DEF ViewOK, Covers, view
<1>11. CASE StreamBreaks
  <2>1. source' = Closed /\ UNCHANGED view
    BY <1>11 DEF StreamBreaks
  <2>2. ~Closed.open /\ Closed.read = 0
    BY DEF Closed
  <2> QED BY <2>1, <2>2 DEF ViewOK, Covers, view
<1>12. ASSUME NEW p \in RunIds \cup {Off}, ShowRun(p)
       PROVE  ViewOK'
  <2>1. /\ path' = p /\ shown' = Empty
        /\ source' = IF p = path THEN source ELSE Closed
        /\ IF p = path /\ ~bumped THEN UNCHANGED <<fetch, late>>
           ELSE Refetch(p)
    BY <1>12 DEF ShowRun
  <2>2. source'.open => p # Off
    BY <2>1 DEF ViewOK, Closed
  <2>3. CASE p = path /\ ~bumped
    BY <2>1, <2>2, <2>3, Requests DEF ViewOK, Covers
  <2>4. CASE ~(p = path /\ ~bumped)
    <3>1. /\ fetch' \in Request /\ late' \in Request
          /\ late'.state # "none" => ~late'.live
          /\ IF p = Off THEN fetch'.state = "none"
             ELSE fetch'.state = "asked" /\ fetch'.path = p
      BY <2>1, <2>4, RefetchIs
    <3> QED BY <2>1, <2>2, <3>1, Requests DEF ViewOK
  <2> QED BY <2>3, <2>4
<1>13. CASE OpenRun \/ CloseRun
  BY <1>12, <1>13 DEF OpenRun, CloseRun
<1>14. CASE UNCHANGED vars
  BY <1>14 DEF ViewOK, Covers, vars, eventVars, view
<1> QED
  BY <1>2, <1>3, <1>4, <1>5, <1>6, <1>7, <1>8, <1>9, <1>10, <1>11, <1>13, <1>14
     DEF Next

\* Whatever is in flight when a run is written, a drawer is switched, a request
\* fails or a connection breaks: a view shows what it was opened for, and each
\* event it was sent is on the screen or in a request that will show it.
THEOREM RefreshesAreKept == Spec => []NoRefreshLost
<1>1. Init => ViewOK
  <2> SUFFICES ASSUME Init PROVE ViewOK
    OBVIOUS
  <2>1. /\ shown = Empty /\ late = NoRequest /\ source = Closed
        /\ \/ fetch = Asked(All) /\ path = All
           \/ fetch = NoRequest /\ path = Off
    BY DEF Init, EventInit
  <2>2. ~Closed.open
    BY DEF Closed
  <2> QED BY <2>1, <2>2, Requests DEF ViewOK
<1>2. ViewOK => NoRefreshLost
  <2> SUFFICES ASSUME ViewOK, NEW k \in 1..source.read
               PROVE  LET at == source.sent[k].at
                      IN  \/ shown.kind \in {"empty", "null"}
                          \/ shown.kind = "answer" /\ shown.asOf >= at
                          \/ fetch.state = "asked"
                          \/ fetch.state = "answered" /\ fetch.asOf >= at
    BY DEF NoRefreshLost, ViewOK
  <2> QED BY DEF ViewOK, Covers, Answer, Request
<1> QED
  BY <1>1, <1>2, StreamInvariant, ViewStep, PTL DEF Spec

=============================================================================
