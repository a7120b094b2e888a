------------------------- MODULE EventPipelineProofs -------------------------
(***************************************************************************)
(* Events reach Kafka and take effect in order, and none is skipped, for    *)
(* any number of aggregates, partitions, publishers and consumers, and      *)
(* however often calls fail, leases lapse, processes crash, the group       *)
(* rebalances and dead letters are replayed.                                *)
(***************************************************************************)
EXTENDS EventPipeline, TLAPS

-----------------------------------------------------------------------------
(* The invariant *)

Events == Aggregates \X (1..MaxSequence)
Places == Partitions \X (Nat \ {0})
Jobs == [agg : Aggregates, seq : 1..MaxSequence, stage : {"claimed", "sent", "failed"}]
Commands == [of : Places, stage : {"requested", "sent"}]
AtMostOne(S) == {s \in Seq(S) : Len(s) <= 1}

\* What is in Kafka: the places of the records, and the events with their partitions.
Recorded == UNION {{<<p, i>> : i \in 1..Len(log[p])} : p \in Partitions}
Kafka == {<<d[1], log[d[1]][d[2]]>> : d \in Recorded}

\* The events with a row in the outbox, and those whose row is marked published.
Existing == {e \in Events : e[2] \in DOMAIN outbox[e[1]]}
Published == {e \in Existing : outbox[e[1]][e[2]].state = "published"}

\* Records with a later record of the same event in the partition; records the
\* group may pass over; records with nothing before them that it may not.
Repeated == {d \in Recorded : \E j \in d[2] + 1 .. Len(log[d[1]]) : log[d[1]][j] = log[d[1]][d[2]]}
Settled == {d \in Recorded : log[d[1]][d[2]] \in Applied \/ d \in DOMAIN dead \/ d \in Repeated}
Ready == {d \in Recorded : \A i \in 1 .. d[2] - 1 : <<d[1], i>> \in Settled}

ProducerTypes ==
    /\ outbox \in [Aggregates -> Seq(Rows)]
    /\ \A a \in Aggregates : Len(outbox[a]) <= MaxSequence
    /\ publisher \in [Publishers -> AtMostOne(Jobs)]

GroupTypes ==
    /\ committed \in [Partitions -> Nat] /\ position \in [Partitions -> Nat]
    /\ \A p \in Partitions : committed[p] <= Len(log[p]) /\ position[p] <= Len(log[p])
    /\ owner \in [Partitions -> Consumers] /\ member \in [Consumers -> BOOLEAN]
    /\ hand \in [Consumers -> AtMostOne(Taken)]
    /\ DOMAIN deferred = Consumers
    /\ \A c \in Consumers : DOMAIN deferred[c] \subseteq Partitions

DeadTypes ==
    /\ \A d \in DOMAIN dead : d \in Recorded /\ dead[d] \in {"available", "requested", "replayed"}
    /\ refused \in {scene.poisoned, {}} /\ replays \in 0..scene.replays
    /\ replay \in AtMostOne(Commands)

\* The publication barrier: no event of a sequence is in Kafka before an older one.
KafkaInv ==
    \A k \in Kafka : Sequenced(k[2][1]) => \A n \in 1 .. k[2][2] :
        \E q \in Partitions : <<q, <<k[2][1], n>>>> \in Kafka

RowsInv == \A e \in Published : <<outbox[e[1]][e[2]].part, e>> \in Kafka

\* What a publisher works on was claimable, and stays so; what it was told to be
\* written is in Kafka.
InTurn == {e \in Existing : Sequenced(e[1]) => \A older \in 1 .. e[2] - 1 : <<e[1], older>> \in Published}

JobsInv ==
    \A w \in Publishers : publisher[w] # <<>> =>
        LET e == <<publisher[w][1].agg, publisher[w][1].seq>>
        IN e \in InTurn /\ (publisher[w][1].stage = "sent" => <<outbox[e[1]][e[2]].part, e>> \in Kafka)

CommittedInv == \A p \in Partitions : \A i \in 1..committed[p] : <<p, i>> \in Settled

\* Consumer c is handling the record d, or has put it off.
Holds(c, d) == hand[c] # <<>> /\ Record(c) = d
Keeps(c, d) == d[1] \in DOMAIN deferred[c] /\ deferred[c][d[1]] = d[2]

\* What its owner fetched of a partition is settled, in hand or put off.
PositionInv ==
    \A p \in Partitions : \A i \in 1..position[p] :
        <<p, i>> \in Settled \/ Holds(owner[p], <<p, i>>) \/ Keeps(owner[p], <<p, i>>)

\* A record is handled when all before it are settled. One that was put off stays
\* put off until it is committed; a fresh one is not of a paused partition.
HandInv ==
    \A c \in Consumers : hand[c] # <<>> =>
        /\ Record(c) \in Ready
        /\ hand[c][1].stage = "handled" => Record(c) \in Settled
        /\ hand[c][1].late => Keeps(c, Record(c))
        /\ ~hand[c][1].late => hand[c][1].part \notin DOMAIN deferred[c]

DeferredInv == \A c \in Consumers : \A p \in DOMAIN deferred[c] : <<p, deferred[c][p]>> \in Ready

InboxInv == Applied \subseteq Events /\ \A e \in Applied : inbox[e] \in Recorded

\* A replayed record is there again; the command under way keeps its row from
\* being deleted.
ReplayInv ==
    /\ \A d \in DOMAIN dead : dead[d] = "replayed" => d \in Repeated
    /\ replay # <<>> => /\ replay[1].of \in DOMAIN dead /\ dead[replay[1].of] = "requested"
                        /\ replay[1].stage = "sent" => replay[1].of \in Repeated

BaseTypes == scene \in Scenes /\ log \in [Partitions -> Seq(Events)] /\ faults \in 0..scene.faults
ProducerInv == ProducerTypes /\ KafkaInv /\ RowsInv /\ JobsInv
GroupInv == GroupTypes /\ CommittedInv /\ PositionInv /\ HandInv /\ DeferredInv
DeadInv == DeadTypes /\ ReplayInv /\ DeadLettersAreSpent

PipelineInv == BaseTypes /\ ProducerInv /\ GroupInv /\ InboxInv /\ DeadInv /\ AppliedInOrder

-----------------------------------------------------------------------------
(* The operators *)

LEMMA SceneTypes ==
    ASSUME scene \in Scenes
    PROVE  /\ MaxSequence \in Nat /\ scene.faults \in Nat /\ scene.replays \in Nat
           /\ scene.group \subseteq Consumers
           /\ scene.receiver \in {"access", "provisioning", "notification", "subscription"}
           /\ \A a \in Aggregates : scene.producer[a] \in {"billing", "subscription", "access", "provisioning"}
BY PipelineAssumption

\* A process does one thing at a time: its state is a sequence of at most one.
LEMMA Nothing == \A S : <<>> \in AtMostOne(S)
BY DEF AtMostOne

LEMMA OneThing ==
    ASSUME NEW S, NEW x \in S
    PROVE  <<x>> \in AtMostOne(S) /\ <<x>> # <<>> /\ <<x>>[1] = x
BY DEF AtMostOne

LEMMA TheThing ==
    ASSUME NEW S, NEW s \in AtMostOne(S), s # <<>>
    PROVE  s[1] \in S /\ Len(s) = 1
<1>1. s \in Seq(S) /\ Len(s) \in Nat /\ Len(s) <= 1 BY DEF AtMostOne
<1>2. Len(s) # 0 BY <1>1
<1>3. \A k \in Nat : (k <= 1 /\ k # 0) => k = 1 OBVIOUS
<1>4. Len(s) = 1 BY <1>1, <1>2, <1>3, Zenon
<1>. QED BY <1>1, <1>4

LEMMA ChangedThing ==
    ASSUME NEW S, NEW s \in AtMostOne(S), s # <<>>, NEW x \in S, NEW t, t = [s EXCEPT ![1] = x]
    PROVE  t \in AtMostOne(S) /\ t # <<>> /\ t[1] = x
BY DEF AtMostOne

LEMMA JobTypes ==
    ASSUME NEW j \in Jobs
    PROVE  /\ j.agg \in Aggregates /\ j.seq \in 1..MaxSequence /\ j.stage \in {"claimed", "sent", "failed"}
           /\ <<j.agg, j.seq>> \in Events
BY DEF Jobs, Events

LEMMA NewJob ==
    ASSUME NEW a \in Aggregates, NEW n \in 1..MaxSequence, NEW j, j = [agg |-> a, seq |-> n, stage |-> "claimed"]
    PROVE  j \in Jobs /\ j.agg = a /\ j.seq = n /\ j.stage = "claimed"
BY DEF Jobs

LEMMA StagedJob ==
    ASSUME NEW j \in Jobs, NEW stage \in {"sent", "failed"}, NEW k, k = [j EXCEPT !.stage = stage]
    PROVE  k \in Jobs /\ k.agg = j.agg /\ k.seq = j.seq /\ k.stage = stage
BY DEF Jobs

LEMMA TakenTypes ==
    ASSUME NEW r \in Taken
    PROVE  r.part \in Partitions /\ r.at \in Nat \ {0} /\ r.late \in BOOLEAN /\ r.stage \in {"fetched", "handled"}
BY DEF Taken

LEMMA FetchedTypes ==
    ASSUME NEW p \in Partitions, NEW i \in Nat \ {0}, NEW late \in BOOLEAN,
           NEW r, r = [part |-> p, at |-> i, late |-> late, stage |-> "fetched"]
    PROVE  r \in Taken /\ r.part = p /\ r.at = i /\ r.late = late /\ r.stage = "fetched"
BY DEF Taken

LEMMA HandledTypes ==
    ASSUME NEW r \in Taken, NEW t, t = [r EXCEPT !.stage = "handled"]
    PROVE  t \in Taken /\ t.part = r.part /\ t.at = r.at /\ t.late = r.late /\ t.stage = "handled"
BY DEF Taken

LEMMA CommandTypes ==
    /\ \A m \in Commands : m.of \in Places /\ m.stage \in {"requested", "sent"}
    /\ \A d \in Places, stage \in {"requested", "sent"} : [of |-> d, stage |-> stage] \in Commands
BY DEF Commands

LEMMA SentCommand ==
    ASSUME NEW m \in Commands, NEW k, k = [m EXCEPT !.stage = "sent"]
    PROVE  k \in Commands /\ k.of = m.of /\ k.stage = "sent"
BY DEF Commands

LEMMA RowTypes ==
    ASSUME NEW row \in Rows, NEW state \in {"pending", "processing", "published"},
           NEW new, new = [row EXCEPT !.state = state]
    PROVE  row.part \in Partitions /\ new \in Rows /\ new.part = row.part /\ new.state = state
BY DEF Rows

LEMMA NewRow ==
    ASSUME NEW p \in Partitions, NEW row, row = [part |-> p, state |-> "pending"]
    PROVE  row \in Rows /\ row.state = "pending"
BY DEF Rows

LEMMA Appending ==
    ASSUME NEW S, NEW s \in Seq(S), NEW x \in S, NEW t, t = Append(s, x)
    PROVE  /\ t \in Seq(S) /\ Len(t) = Len(s) + 1 /\ Len(s) \in Nat
           /\ t[Len(s) + 1] = x /\ \A i \in 1..Len(s) : t[i] = s[i]
OBVIOUS

\* The places of the records.
LEMMA RecordedPlaces ==
    \A d : d \in Recorded <=> (d = <<d[1], d[2]>> /\ d[1] \in Partitions /\ d[2] \in 1..Len(log[d[1]]))
BY DEF Recorded

LEMMA RecordedPairs ==
    \A p, i : <<p, i>> \in Recorded <=> (p \in Partitions /\ i \in 1..Len(log[p]))
BY DEF Recorded

-----------------------------------------------------------------------------
(* Kafka only grows *)

LogGrows ==
    /\ log' \in [Partitions -> Seq(Events)]
    /\ \A p \in Partitions : Len(log[p]) <= Len(log'[p]) /\ \A i \in 1..Len(log[p]) : log'[p][i] = log[p][i]

LEMMA LogStays ==
    ASSUME BaseTypes, UNCHANGED log
    PROVE  LogGrows /\ Recorded' = Recorded /\ Kafka' = Kafka /\ Repeated' = Repeated
BY DEF BaseTypes, LogGrows, Recorded, Kafka, Repeated

\* One record is appended to p.
LEMMA LogAppended ==
    ASSUME BaseTypes, NEW p \in Partitions, NEW e \in Events, log' = [log EXCEPT ![p] = Append(@, e)]
    PROVE  /\ LogGrows /\ Kafka' = Kafka \cup {<<p, e>>}
           /\ Len(log'[p]) = Len(log[p]) + 1 /\ log'[p][Len(log[p]) + 1] = e
<1>. DEFINE new == Append(log[p], e)
<1>0. log \in [Partitions -> Seq(Events)] BY DEF BaseTypes
<1>1. /\ new \in Seq(Events) /\ Len(new) = Len(log[p]) + 1 /\ Len(log[p]) \in Nat
      /\ new[Len(log[p]) + 1] = e /\ \A i \in 1..Len(log[p]) : new[i] = log[p][i]
  BY <1>0, Appending
<1>2. log' = [log EXCEPT ![p] = new] OBVIOUS
<1>. HIDE DEF new
<1>3. log' \in [Partitions -> Seq(Events)] /\ log'[p] = new /\ \A q \in Partitions \ {p} : log'[q] = log[q]
  BY <1>0, <1>1, <1>2
<1>4. \A q \in Partitions : Len(log[q]) \in Nat BY <1>0
<1>5. LogGrows BY <1>1, <1>3, <1>4 DEF LogGrows
<1>6. ASSUME NEW q \in Partitions, NEW i \in 1..Len(log'[q])
      PROVE  <<q, log'[q][i]>> \in Kafka \cup {<<p, e>>}
  <2>1. CASE q = p /\ i = Len(log[p]) + 1 BY <2>1, <1>1, <1>3
  <2>2. CASE ~(q = p /\ i = Len(log[p]) + 1)
    <3>1. i \in 1..Len(log[q]) /\ log'[q][i] = log[q][i] BY <2>2, <1>1, <1>3, <1>4
    <3>2. <<q, i>> \in Recorded BY <3>1, RecordedPairs
    <3>. QED BY <3>1, <3>2 DEF Kafka
  <2>. QED BY <2>1, <2>2
<1>7. Kafka' \subseteq Kafka \cup {<<p, e>>} BY <1>6 DEF Kafka, Recorded
<1>8. ASSUME NEW d \in Recorded PROVE d \in Recorded' /\ log'[d[1]][d[2]] = log[d[1]][d[2]]
  <2>1. d = <<d[1], d[2]>> /\ d[1] \in Partitions /\ d[2] \in 1..Len(log[d[1]]) BY RecordedPlaces
  <2>2. d[2] \in 1..Len(log'[d[1]]) /\ log'[d[1]][d[2]] = log[d[1]][d[2]] BY <2>1, <1>4, <1>5, <1>3 DEF LogGrows
  <2>. QED BY <2>1, <2>2 DEF Recorded
<1>9. Kafka \subseteq Kafka' BY <1>8, Zenon DEF Kafka
<1>10. <<p, Len(log[p]) + 1>> \in Recorded' BY <1>1, <1>3 DEF Recorded
<1>11. <<p, e>> \in Kafka' BY <1>1, <1>3, <1>10 DEF Kafka
<1>. QED BY <1>1, <1>3, <1>5, <1>7, <1>9, <1>11, Zenon

\* What a step may do to what is recorded: a dead letter goes only if its record
\* is there again.
Forward ==
    /\ LogGrows /\ scene' = scene
    /\ Applied \subseteq Applied' /\ \A e \in Applied : inbox'[e] = inbox[e]
    /\ DOMAIN dead \subseteq DOMAIN dead' \cup Repeated

LEMMA RecordedGrows ==
    ASSUME BaseTypes, LogGrows
    PROVE  /\ Recorded \subseteq Recorded' /\ \A d \in Recorded : log'[d[1]][d[2]] = log[d[1]][d[2]]
           /\ Repeated \subseteq Repeated'
<1>0. \A p \in Partitions : Len(log[p]) \in Nat /\ Len(log'[p]) \in Nat BY DEF BaseTypes, LogGrows
<1>1. ASSUME NEW d \in Recorded PROVE d \in Recorded' /\ log'[d[1]][d[2]] = log[d[1]][d[2]]
  <2>1. d = <<d[1], d[2]>> /\ d[1] \in Partitions /\ d[2] \in 1..Len(log[d[1]]) BY RecordedPlaces
  <2>2. d[2] \in 1..Len(log'[d[1]]) /\ log'[d[1]][d[2]] = log[d[1]][d[2]] BY <2>1, <1>0 DEF LogGrows
  <2>. QED BY <2>1, <2>2 DEF Recorded
<1>2. ASSUME NEW d \in Repeated PROVE d \in Repeated'
  <2>1. d \in Recorded BY DEF Repeated
  <2>2. d[1] \in Partitions /\ d[2] \in 1..Len(log[d[1]]) BY <2>1, RecordedPlaces
  <2>3. PICK j \in d[2] + 1 .. Len(log[d[1]]) : log[d[1]][j] = log[d[1]][d[2]] BY DEF Repeated
  <2>4. j \in 1..Len(log[d[1]]) /\ j \in d[2] + 1 .. Len(log'[d[1]]) BY <2>2, <1>0 DEF LogGrows
  <2>5. log'[d[1]][j] = log'[d[1]][d[2]] BY <2>2, <2>3, <2>4 DEF LogGrows
  <2>. QED BY <2>1, <2>4, <2>5, <1>1 DEF Repeated
<1>. QED BY <1>1, <1>2

LEMMA SettledGrows ==
    ASSUME BaseTypes, Forward
    PROVE  Settled \subseteq Settled' /\ Ready \subseteq Ready'
<1>0. /\ Recorded \subseteq Recorded' /\ \A d \in Recorded : log'[d[1]][d[2]] = log[d[1]][d[2]]
      /\ Repeated \subseteq Repeated'
  BY RecordedGrows DEF Forward
<1>1. ASSUME NEW d \in Settled PROVE d \in Settled'
  <2>1. d \in Recorded /\ (log[d[1]][d[2]] \in Applied \/ d \in DOMAIN dead \/ d \in Repeated) BY DEF Settled
  <2>2. d \in Recorded' /\ (log'[d[1]][d[2]] \in Applied' \/ d \in DOMAIN dead' \/ d \in Repeated')
    BY <2>1, <1>0 DEF Forward
  <2>. QED BY <2>2 DEF Settled
<1>2. Ready \subseteq Ready' BY <1>0, <1>1 DEF Ready
<1>. QED BY <1>1, <1>2

-----------------------------------------------------------------------------
(* The producer *)

\* Rows are added, keep their partition, and remain published.
RowsGrow ==
    /\ outbox' \in [Aggregates -> Seq(Rows)]
    /\ \A a \in Aggregates : Len(outbox'[a]) <= MaxSequence
    /\ \A e \in Existing : e \in Existing' /\ outbox'[e[1]][e[2]].part = outbox[e[1]][e[2]].part
    /\ Published \subseteq Published'

LEMMA RowsStay ==
    ASSUME ProducerTypes, UNCHANGED outbox
    PROVE  RowsGrow /\ Published' = Published
BY DEF ProducerTypes, RowsGrow, Existing, Published

LEMMA EmitRows ==
    ASSUME BaseTypes, ProducerTypes, NEW a \in Aggregates, NEW p \in Partitions, Emit(a, p)
    PROVE  RowsGrow /\ Published' = Published
<1>. DEFINE row == [part |-> p, state |-> "pending"]
            new == Append(outbox[a], row)
<1>0. outbox \in [Aggregates -> Seq(Rows)] /\ \A b \in Aggregates : Len(outbox[b]) <= MaxSequence
  BY DEF ProducerTypes
<1>1. row \in Rows /\ row.state = "pending" BY NewRow
<1>. HIDE DEF row
<1>2. /\ new \in Seq(Rows) /\ Len(new) = Len(outbox[a]) + 1 /\ Len(outbox[a]) \in Nat
      /\ new[Len(outbox[a]) + 1] = row /\ \A n \in 1..Len(outbox[a]) : new[n] = outbox[a][n]
  BY <1>0, <1>1, Appending
<1>3. outbox' = [outbox EXCEPT ![a] = new] /\ Len(outbox[a]) < MaxSequence /\ MaxSequence \in Nat
  BY SceneTypes DEF Emit, row, BaseTypes
<1>. HIDE DEF new
<1>4. /\ outbox' \in [Aggregates -> Seq(Rows)] /\ outbox'[a] = new
      /\ \A b \in Aggregates \ {a} : outbox'[b] = outbox[b]
  BY <1>0, <1>2, <1>3
<1>5. \A b \in Aggregates : Len(outbox'[b]) <= MaxSequence BY <1>0, <1>2, <1>3, <1>4
<1>6. ASSUME NEW b \in Aggregates, NEW n \in 1..MaxSequence
      PROVE  /\ n \in DOMAIN outbox[b] => n \in DOMAIN outbox'[b] /\ outbox'[b][n] = outbox[b][n]
             /\ n \in DOMAIN outbox'[b] => n \in DOMAIN outbox[b] \/ outbox'[b][n].state = "pending"
  <2>1. CASE b # a BY <2>1, <1>4
  <2>2. CASE b = a
    <3>1. DOMAIN outbox[a] = 1..Len(outbox[a]) /\ DOMAIN new = 1 .. Len(outbox[a]) + 1 BY <1>0, <1>2
    <3>. QED BY <2>2, <3>1, <1>1, <1>2, <1>4
  <2>. QED BY <2>1, <2>2
<1>7. \A e \in Events : e[1] \in Aggregates /\ e[2] \in 1..MaxSequence BY DEF Events
<1>8. \A e \in Existing : e \in Existing' /\ outbox'[e[1]][e[2]] = outbox[e[1]][e[2]]
  BY <1>6, <1>7, Zenon DEF Existing
<1>9. Published \subseteq Published' BY <1>8 DEF Published
<1>10. ASSUME NEW e \in Published' PROVE e \in Published
  <2>1. e \in Events /\ e[2] \in DOMAIN outbox'[e[1]] /\ outbox'[e[1]][e[2]].state = "published"
    BY DEF Published, Existing
  <2>2. e[2] \in DOMAIN outbox[e[1]] BY <2>1, <1>6, <1>7
  <2>3. e \in Existing BY <2>1, <2>2 DEF Existing
  <2>. QED BY <2>1, <2>3, <1>8 DEF Published
<1>. QED BY <1>4, <1>5, <1>8, <1>9, <1>10, Zenon DEF RowsGrow

\* The state of one row that is not published changes.
LEMMA RowChanges ==
    ASSUME BaseTypes, ProducerTypes, NEW a \in Aggregates, NEW n \in DOMAIN outbox[a],
           NEW state \in {"pending", "processing", "published"},
           outbox[a][n].state # "published", outbox' = [outbox EXCEPT ![a][n].state = state]
    PROVE  /\ RowsGrow /\ <<a, n>> \in Existing
           /\ \A e \in Published' : e \in Published \/ (e = <<a, n>> /\ state = "published")
<1>. DEFINE row == [outbox[a][n] EXCEPT !.state = state]
            new == [outbox[a] EXCEPT ![n] = row]
<1>0. outbox \in [Aggregates -> Seq(Rows)] /\ \A b \in Aggregates : Len(outbox[b]) <= MaxSequence
  BY DEF ProducerTypes
<1>1. outbox[a] \in Seq(Rows) /\ Len(outbox[a]) \in Nat /\ DOMAIN outbox[a] = 1..Len(outbox[a]) BY <1>0
<1>2. outbox[a][n] \in Rows BY <1>1
<1>3. row \in Rows /\ row.part = outbox[a][n].part /\ row.state = state BY <1>2, RowTypes
<1>4. outbox' = [outbox EXCEPT ![a] = new] OBVIOUS
<1>. HIDE DEF row
<1>5. /\ new \in Seq(Rows) /\ Len(new) = Len(outbox[a]) /\ DOMAIN new = DOMAIN outbox[a]
      /\ new[n] = row /\ \A m \in DOMAIN outbox[a] \ {n} : new[m] = outbox[a][m]
  BY <1>1, <1>3
<1>. HIDE DEF new
<1>6. /\ outbox' \in [Aggregates -> Seq(Rows)] /\ outbox'[a] = new
      /\ \A b \in Aggregates \ {a} : outbox'[b] = outbox[b]
  BY <1>0, <1>5, <1>4, Zenon
<1>7. \A b \in Aggregates : Len(outbox'[b]) <= MaxSequence BY <1>0, <1>5, <1>6
<1>8. ASSUME NEW b \in Aggregates, NEW m
      PROVE  /\ m \in DOMAIN outbox'[b] <=> m \in DOMAIN outbox[b]
             /\ m \in DOMAIN outbox[b] => outbox'[b][m].part = outbox[b][m].part
             /\ m \in DOMAIN outbox[b] /\ <<b, m>> # <<a, n>> => outbox'[b][m] = outbox[b][m]
  <2>1. CASE b # a BY <2>1, <1>6
  <2>2. CASE b = a /\ m = n BY <2>2, <1>3, <1>5, <1>6
  <2>3. CASE b = a /\ m # n BY <2>3, <1>5, <1>6
  <2>. QED BY <2>1, <2>2, <2>3
<1>9. \A e \in Events : e[1] \in Aggregates /\ e[2] \in 1..MaxSequence /\ e = <<e[1], e[2]>> BY DEF Events
<1>10. Existing' = Existing BY <1>8, <1>9, Zenon DEF Existing
<1>11. \A e \in Existing : outbox'[e[1]][e[2]].part = outbox[e[1]][e[2]].part BY <1>8, <1>9 DEF Existing
<1>12. ASSUME NEW e \in Existing, e # <<a, n>> PROVE outbox'[e[1]][e[2]] = outbox[e[1]][e[2]]
  <2>1. e[1] \in Aggregates /\ e[2] \in DOMAIN outbox[e[1]] /\ e = <<e[1], e[2]>> BY <1>9 DEF Existing
  <2>. QED BY <2>1, <1>8, <1>12
<1>13. <<a, n>> \notin Published BY DEF Published
<1>14. Published \subseteq Published' BY <1>10, <1>12, <1>13 DEF Published
<1>15. ASSUME NEW e \in Published', e \notin Published PROVE e = <<a, n>> /\ state = "published"
  <2>1. e \in Existing /\ outbox'[e[1]][e[2]].state = "published" BY <1>10 DEF Published
  <2>2. e = <<a, n>> BY <2>1, <1>12, <1>15, Zenon DEF Published
  <2>. QED BY <2>1, <2>2, <1>3, <1>5, <1>6
<1>16. <<a, n>> \in Events
  <2>1. MaxSequence \in Nat BY SceneTypes DEF BaseTypes
  <2>2. n \in 1..MaxSequence BY <2>1, <1>0, <1>1
  <2>. QED BY <2>2 DEF Events
<1>17. <<a, n>> \in Existing BY <1>16 DEF Existing
<1>. QED BY <1>6, <1>7, <1>10, <1>11, <1>14, <1>15, <1>17, Zenon DEF RowsGrow

\* A step that adds to the rows and to Kafka keeps what the producer relies on.
LEMMA ProducerKeeps ==
    ASSUME BaseTypes, ProducerInv, RowsGrow, Kafka \subseteq Kafka', scene' = scene, KafkaInv',
           publisher' \in [Publishers -> AtMostOne(Jobs)],
           \A e \in Published' : e \in Published \/ (e \in Existing /\ <<outbox[e[1]][e[2]].part, e>> \in Kafka'),
           \A w \in Publishers : publisher'[w] # <<>> =>
               \E e \in InTurn :
                   /\ e = <<publisher'[w][1].agg, publisher'[w][1].seq>>
                   /\ publisher'[w][1].stage = "sent" => <<outbox[e[1]][e[2]].part, e>> \in Kafka'
    PROVE  ProducerInv'
<1>1. ProducerTypes' BY DEF ProducerTypes, RowsGrow
<1>2. ASSUME NEW e \in Published' PROVE <<outbox'[e[1]][e[2]].part, e>> \in Kafka'
  <2>1. e \in Existing BY Zenon DEF Published, RowsGrow
  <2>2. outbox'[e[1]][e[2]].part = outbox[e[1]][e[2]].part BY <2>1 DEF RowsGrow
  <2>3. <<outbox[e[1]][e[2]].part, e>> \in Kafka' BY DEF ProducerInv, RowsInv
  <2>. QED BY <2>2, <2>3
<1>3. RowsInv' BY Zenon, <1>2 DEF RowsInv
<1>4. InTurn \subseteq InTurn'
  <2>1. \A e : Sequenced(e)' <=> Sequenced(e) BY DEF Sequenced
  <2>. QED BY <2>1, Zenon DEF InTurn, RowsGrow
<1>5. ASSUME NEW w \in Publishers, publisher'[w] # <<>>, NEW e, e = <<publisher'[w][1].agg, publisher'[w][1].seq>>
      PROVE  e \in InTurn' /\ (publisher'[w][1].stage = "sent" => <<outbox'[e[1]][e[2]].part, e>> \in Kafka')
  <2>1. e \in InTurn /\ (publisher'[w][1].stage = "sent" => <<outbox[e[1]][e[2]].part, e>> \in Kafka') BY Zenon, <1>5
  <2>2. e \in Existing BY <2>1 DEF InTurn
  <2>3. outbox'[e[1]][e[2]].part = outbox[e[1]][e[2]].part BY <2>2 DEF RowsGrow
  <2>. QED BY <2>1, <2>3, <1>4
<1>6. JobsInv' BY <1>5 DEF JobsInv
<1>. QED BY <1>1, <1>3, <1>6 DEF ProducerInv

LEMMA JobAt ==
    ASSUME BaseTypes, ProducerInv, NEW w \in Publishers, publisher[w] # <<>>
    PROVE  /\ publisher[w][1] \in Jobs /\ publisher[w] \in AtMostOne(Jobs)
           /\ publisher[w][1].agg \in Aggregates /\ publisher[w][1].seq \in DOMAIN outbox[publisher[w][1].agg]
           /\ <<publisher[w][1].agg, publisher[w][1].seq>> \in Existing
           /\ <<publisher[w][1].agg, publisher[w][1].seq>> \in InTurn
           /\ outbox[publisher[w][1].agg][publisher[w][1].seq] \in Rows
<1>1. publisher[w] \in AtMostOne(Jobs) BY DEF ProducerInv, ProducerTypes
<1>2. publisher[w][1] \in Jobs BY <1>1, TheThing
<1>3. <<publisher[w][1].agg, publisher[w][1].seq>> \in InTurn BY Zenon DEF ProducerInv, JobsInv
<1>4. <<publisher[w][1].agg, publisher[w][1].seq>> \in Existing BY <1>3 DEF InTurn
<1>5. publisher[w][1].agg \in Aggregates BY <1>2, JobTypes, Zenon
<1>6. publisher[w][1].seq \in DOMAIN outbox[publisher[w][1].agg] BY <1>4 DEF Existing
<1>7. outbox[publisher[w][1].agg] \in Seq(Rows) BY <1>5 DEF ProducerInv, ProducerTypes
<1>8. outbox[publisher[w][1].agg][publisher[w][1].seq] \in Rows BY <1>6, <1>7
<1>. QED BY <1>1, <1>2, <1>3, <1>4, <1>5, <1>6, <1>8

LEMMA KafkaStays == ASSUME Kafka' = Kafka, scene' = scene, KafkaInv PROVE KafkaInv'
BY DEF KafkaInv, Sequenced

\* What the other publishers hold is in turn as before.
LEMMA OtherJobs ==
    ASSUME BaseTypes, ProducerInv, Kafka \subseteq Kafka', NEW w \in Publishers, publisher[w] # <<>>,
           publisher'[w] = publisher[w]
    PROVE  \E e \in InTurn :
               /\ e = <<publisher'[w][1].agg, publisher'[w][1].seq>>
               /\ publisher'[w][1].stage = "sent" => <<outbox[e[1]][e[2]].part, e>> \in Kafka'
<1>. DEFINE e == <<publisher[w][1].agg, publisher[w][1].seq>>
<1>1. e \in InTurn /\ (publisher[w][1].stage = "sent" => <<outbox[e[1]][e[2]].part, e>> \in Kafka)
  BY Zenon DEF ProducerInv, JobsInv
<1>2. e = <<publisher'[w][1].agg, publisher'[w][1].seq>> OBVIOUS
<1>. HIDE DEF e
<1>. QED BY Zenon, <1>1, <1>2

LEMMA EmitKeeps ==
    ASSUME BaseTypes, ProducerInv, NEW a \in Aggregates, NEW p \in Partitions, Emit(a, p)
    PROVE  ProducerInv' /\ LogGrows
<1>1. RowsGrow /\ Published' = Published BY EmitRows DEF ProducerInv
<1>2. LogGrows /\ Kafka' = Kafka BY LogStays DEF Emit
<1>3. scene' = scene /\ publisher' = publisher BY DEF Emit
<1>4. KafkaInv' BY <1>2, <1>3, KafkaStays DEF ProducerInv
<1>5. publisher' \in [Publishers -> AtMostOne(Jobs)] BY <1>3 DEF ProducerInv, ProducerTypes
<1>. QED BY <1>1, <1>2, <1>3, <1>4, <1>5, ProducerKeeps, OtherJobs

\* The query of every producer finds rows that are not published, and in turn.
LEMMA ClaimableRows ==
    ASSUME BaseTypes, NEW a \in Aggregates, NEW n, Claimable(a, n)
    PROVE  outbox[a][n].state # "published" /\ (Sequenced(a) => Earlier(a, n))
<1>1. scene.producer[a] \in {"billing", "subscription", "access", "provisioning"} BY SceneTypes DEF BaseTypes
<1>. QED BY <1>1, Zenon DEF Claimable, SubscriptionClaimable, AccessClaimable, ProvisioningClaimable, BillingClaimable,
                     Outstanding, Sequenced

LEMMA ClaimKeeps ==
    ASSUME BaseTypes, ProducerInv, NEW w \in Publishers, NEW a \in Aggregates, NEW n, ClaimOutbox(w, a, n)
    PROVE  ProducerInv' /\ LogGrows
<1>. DEFINE job == [agg |-> a, seq |-> n, stage |-> "claimed"]
<1>1. n \in DOMAIN outbox[a] /\ outbox[a][n].state # "published" /\ (Sequenced(a) => Earlier(a, n))
  BY ClaimableRows DEF ClaimOutbox
<1>2. /\ RowsGrow /\ <<a, n>> \in Existing
      /\ \A e \in Published' : e \in Published \/ (e = <<a, n>> /\ "processing" = "published")
  BY Zenon, <1>1, RowChanges DEF ClaimOutbox, ProducerInv
<1>3. Published' \subseteq Published BY <1>2
<1>4. LogGrows /\ Kafka' = Kafka BY LogStays DEF ClaimOutbox
<1>5. scene' = scene /\ publisher' = [publisher EXCEPT ![w] = <<job>>] BY DEF ClaimOutbox
<1>6. n \in 1..MaxSequence BY <1>2 DEF Existing, Events
<1>7. job \in Jobs /\ job.agg = a /\ job.seq = n /\ job.stage = "claimed" BY <1>6, NewJob
<1>. HIDE DEF job
<1>8. <<job>> \in AtMostOne(Jobs) /\ <<job>>[1] = job BY <1>7, OneThing
<1>9. publisher \in [Publishers -> AtMostOne(Jobs)] BY DEF ProducerInv, ProducerTypes
<1>10. publisher' \in [Publishers -> AtMostOne(Jobs)] /\ publisher'[w] = <<job>>
       /\ \A v \in Publishers \ {w} : publisher'[v] = publisher[v]
  BY <1>5, <1>8, <1>9, Zenon
<1>11. <<a, n>> \in InTurn
  <2>1. MaxSequence \in Nat BY SceneTypes DEF BaseTypes
  <2>2. DOMAIN outbox[a] = 1..Len(outbox[a]) /\ Len(outbox[a]) \in Nat BY DEF ProducerInv, ProducerTypes
  <2>3. ASSUME Sequenced(a), NEW older \in 1 .. n - 1 PROVE <<a, older>> \in Published
    <3>1. outbox[a][older].state = "published" BY <1>1, <2>3 DEF Earlier
    <3>2. older \in 1..MaxSequence /\ older \in DOMAIN outbox[a] BY <2>1, <2>2, <1>1, <1>6
    <3>. QED BY <3>1, <3>2 DEF Published, Existing, Events
  <2>. QED BY <1>2, <2>3 DEF InTurn
<1>12. ASSUME NEW v \in Publishers, publisher'[v] # <<>>
       PROVE  \E e \in InTurn :
                  /\ e = <<publisher'[v][1].agg, publisher'[v][1].seq>>
                  /\ publisher'[v][1].stage = "sent" => <<outbox[e[1]][e[2]].part, e>> \in Kafka'
  <2>1. CASE v = w
    <3>1. /\ publisher'[v][1].agg = a /\ publisher'[v][1].seq = n /\ publisher'[v][1].stage = "claimed"
      BY <2>1, <1>7, <1>8, <1>10
    <3>. QED BY <1>11, <3>1
  <2>2. CASE v # w
    <3>1. publisher'[v] = publisher[v] BY <2>2, <1>10
    <3>2. Kafka \subseteq Kafka' /\ publisher[v] # <<>> BY <1>4, <1>12, <3>1
    <3>. QED BY Zenon, <3>1, <3>2, OtherJobs
  <2>. QED BY SMTT(30), <2>1, <2>2
<1>13. KafkaInv' BY <1>4, <1>5, KafkaStays DEF ProducerInv
<1>. QED BY <1>2, <1>3, <1>4, <1>5, <1>10, <1>12, <1>13, ProducerKeeps

\* A publisher lets go of its row.
LEMMA LetsGo ==
    ASSUME BaseTypes, ProducerInv, Kafka \subseteq Kafka', NEW w \in Publishers,
           publisher' = [publisher EXCEPT ![w] = <<>>]
    PROVE  /\ publisher' \in [Publishers -> AtMostOne(Jobs)]
           /\ \A v \in Publishers : publisher'[v] # <<>> =>
                  \E e \in InTurn :
                      /\ e = <<publisher'[v][1].agg, publisher'[v][1].seq>>
                      /\ publisher'[v][1].stage = "sent" => <<outbox[e[1]][e[2]].part, e>> \in Kafka'
<1>1. publisher \in [Publishers -> AtMostOne(Jobs)] /\ <<>> \in AtMostOne(Jobs)
  BY Nothing DEF ProducerInv, ProducerTypes
<1>2. /\ publisher' \in [Publishers -> AtMostOne(Jobs)] /\ publisher'[w] = <<>>
      /\ \A v \in Publishers \ {w} : publisher'[v] = publisher[v]
  BY <1>1, Zenon
<1>. QED BY <1>2, OtherJobs

LEMMA SettleKeeps ==
    ASSUME BaseTypes, ProducerInv, NEW w \in Publishers, CompleteOutbox(w) \/ RetryOutbox(w)
    PROVE  ProducerInv' /\ LogGrows
<1>. DEFINE a == publisher[w][1].agg
            n == publisher[w][1].seq
<1>0. PICK state \in {"pending", "published"} :
          /\ Settle(w, state) /\ publisher[w] # <<>>
          /\ state = "published" => publisher[w][1].stage = "sent"
  BY SMTT(30) DEF CompleteOutbox, RetryOutbox, Doing
<1>1. LogGrows /\ Kafka' = Kafka BY SMTT(30), <1>0, LogStays DEF Settle
<1>2. scene' = scene /\ publisher' = [publisher EXCEPT ![w] = <<>>] BY <1>0 DEF Settle
<1>3. a \in Aggregates /\ n \in DOMAIN outbox[a] BY Zenon, <1>0, JobAt
<1>4. state = "published" => <<outbox[a][n].part, <<a, n>>>> \in Kafka
  BY <1>0, Zenon DEF ProducerInv, JobsInv
<1>5. RowsGrow /\ \A e \in Published' : e \in Published \/ (e \in Existing /\ <<outbox[e[1]][e[2]].part, e>> \in Kafka')
  <2>1. CASE outbox[a][n].state = "processing"
    <3>1. outbox' = [outbox EXCEPT ![a][n].state = state] BY <2>1, <1>0 DEF Settle
    <3>. HIDE DEF a, n
    <3>2. /\ RowsGrow /\ <<a, n>> \in Existing
          /\ \A e \in Published' : e \in Published \/ (e = <<a, n>> /\ state = "published")
      BY Zenon, <3>1, <2>1, <1>3, RowChanges DEF ProducerInv
    <3>. QED BY SMTT(30), <3>2, <1>1, <1>4
  <2>2. CASE outbox[a][n].state # "processing"
    <3>1. UNCHANGED outbox BY <2>2, <1>0 DEF Settle
    <3>. QED BY <3>1, RowsStay DEF ProducerInv
  <2>. QED BY <2>1, <2>2
<1>. HIDE DEF a, n
<1>6. KafkaInv' BY <1>1, <1>2, KafkaStays DEF ProducerInv
<1>. QED BY Zenon, <1>1, <1>2, <1>5, <1>6, LetsGo, ProducerKeeps

LEMMA StopsKeeps ==
    ASSUME BaseTypes, ProducerInv, NEW w \in Publishers, PublisherStops(w)
    PROVE  ProducerInv' /\ LogGrows
<1>1. LogGrows /\ Kafka' = Kafka BY LogStays DEF PublisherStops
<1>2. scene' = scene /\ publisher' = [publisher EXCEPT ![w] = <<>>] /\ outbox' = outbox BY DEF PublisherStops
<1>3. RowsGrow /\ Published' = Published BY <1>2, RowsStay DEF ProducerInv
<1>4. KafkaInv' BY <1>1, <1>2, KafkaStays DEF ProducerInv
<1>. QED BY Zenon, <1>1, <1>2, <1>3, <1>4, LetsGo, ProducerKeeps

LEMMA SendKeeps ==
    ASSUME BaseTypes, ProducerInv, NEW w \in Publishers, publisher[w] # <<>>, scene' = scene, Send(w)
    PROVE  /\ KafkaInv' /\ LogGrows /\ Kafka \subseteq Kafka'
           /\ LET a == publisher[w][1].agg  n == publisher[w][1].seq
              IN <<outbox[a][n].part, <<a, n>>>> \in Kafka'
<1>. DEFINE a == publisher[w][1].agg
            n == publisher[w][1].seq
            e == <<a, n>>
            p == outbox[a][n].part
<1>1. e \in InTurn /\ e \in Existing /\ outbox[a][n] \in Rows BY SMTT(30), JobAt
<1>2. e \in Events /\ p \in Partitions BY <1>1 DEF Existing, Rows
<1>3. log' = [log EXCEPT ![p] = Append(@, e)] BY Zenon DEF Send
<1>4. e[1] = a /\ e[2] = n OBVIOUS
<1>. HIDE DEF a, n, e, p
<1>5. LogGrows /\ Kafka' = Kafka \cup {<<p, e>>} BY Zenon, <1>2, <1>3, LogAppended
<1>6. ASSUME NEW k \in Kafka', Sequenced(k[2][1]), NEW m \in 1 .. k[2][2]
      PROVE  \E q \in Partitions : <<q, <<k[2][1], m>>>> \in Kafka'
  <2>1. CASE k \in Kafka
    <3>1. PICK q \in Partitions : <<q, <<k[2][1], m>>>> \in Kafka BY Zenon, <2>1, <1>6 DEF ProducerInv, KafkaInv
    <3>. QED BY <3>1, <1>5
  <2>2. CASE k = <<p, e>>
    <3>1. k[2] = e BY <2>2
    <3>2. n \in Nat BY <1>2 DEF Events, e
    <3>3. m \in 1..n /\ Sequenced(a) /\ k[2][1] = a BY <3>1, <1>4, <1>6
    <3>4. CASE m = n BY <3>3, <3>4, <1>2, <1>5 DEF e
    <3>5. CASE m # n
      <4>1. m \in 1 .. n - 1 BY <3>2, <3>3, <3>5
      <4>2. <<a, m>> \in Published BY <4>1, <3>3, <1>1, <1>4 DEF InTurn
      <4>3. <<outbox[a][m].part, <<a, m>>>> \in Kafka BY <4>2 DEF ProducerInv, RowsInv
      <4>4. outbox[a][m].part \in Partitions BY <4>3, RecordedPlaces DEF Kafka
      <4>. QED BY <4>3, <4>4, <3>3, <1>5
    <3>. QED BY SMTT(30), <3>4, <3>5
  <2>. QED BY Zenon, <2>1, <2>2, <1>5
<1>7. KafkaInv' BY <1>6 DEF KafkaInv, Sequenced
<1>8. <<p, e>> \in Kafka' BY <1>5
<1>. QED BY <1>5, <1>7, <1>8, Zenon DEF a, n, e, p

LEMMA PublishKeeps ==
    ASSUME BaseTypes, ProducerInv, NEW w \in Publishers, Publish(w) \/ PublishFails(w)
    PROVE  ProducerInv' /\ LogGrows
<1>. DEFINE a == publisher[w][1].agg
            n == publisher[w][1].seq
            e == <<a, n>>
<1>0. PICK stage \in {"sent", "failed"} :
          /\ publisher[w] # <<>> /\ publisher' = [publisher EXCEPT ![w][1].stage = stage]
          /\ scene' = scene /\ outbox' = outbox
          /\ Send(w) \/ (stage = "failed" /\ UNCHANGED log)
  BY DEF Publish, PublishFails, Doing
<1>. DEFINE job == [publisher[w][1] EXCEPT !.stage = stage]
            jobs == [publisher[w] EXCEPT ![1] = job]
<1>1. publisher[w][1] \in Jobs /\ publisher[w] \in AtMostOne(Jobs) /\ e \in InTurn BY <1>0, JobAt
<1>2. job \in Jobs /\ job.agg = a /\ job.seq = n /\ job.stage = stage BY <1>1, StagedJob
<1>3. publisher' = [publisher EXCEPT ![w] = jobs] BY <1>0
<1>. HIDE DEF job
<1>4. jobs \in AtMostOne(Jobs) /\ jobs # <<>> /\ jobs[1] = job BY <1>0, <1>1, <1>2, ChangedThing
<1>. HIDE DEF jobs
<1>5. publisher \in [Publishers -> AtMostOne(Jobs)] BY DEF ProducerInv, ProducerTypes
<1>6. /\ publisher' \in [Publishers -> AtMostOne(Jobs)] /\ publisher'[w] = jobs
      /\ \A v \in Publishers \ {w} : publisher'[v] = publisher[v]
  BY <1>3, <1>4, <1>5, Zenon
<1>7. RowsGrow /\ Published' = Published BY <1>0, RowsStay DEF ProducerInv
<1>8. /\ KafkaInv' /\ LogGrows /\ Kafka \subseteq Kafka'
      /\ stage = "sent" => <<outbox[a][n].part, e>> \in Kafka'
  <2>1. CASE Send(w) BY <2>1, <1>0, SendKeeps
  <2>2. CASE stage = "failed" /\ UNCHANGED log
    <3>1. LogGrows /\ Kafka' = Kafka BY <2>2, LogStays
    <3>. QED BY <3>1, <2>2, <1>0, KafkaStays DEF ProducerInv
  <2>. QED BY SMTT(30), <2>1, <2>2, <1>0
<1>9. e[1] = a /\ e[2] = n OBVIOUS
<1>10. e = <<job.agg, job.seq>> BY <1>2
<1>. HIDE DEF a, n, e
<1>11. ASSUME NEW v \in Publishers, publisher'[v] # <<>>
       PROVE  \E f \in InTurn :
                  /\ f = <<publisher'[v][1].agg, publisher'[v][1].seq>>
                  /\ publisher'[v][1].stage = "sent" => <<outbox[f[1]][f[2]].part, f>> \in Kafka'
  <2>1. CASE v = w
    <3>1. publisher'[v][1] = job BY <2>1, <1>4, <1>6
    <3>. QED BY Zenon, <3>1, <1>1, <1>2, <1>8, <1>9, <1>10
  <2>2. CASE v # w
    <3>1. publisher'[v] = publisher[v] BY <2>2, <1>6
    <3>. QED BY SMTT(30), <3>1, <1>8, <1>11, OtherJobs
  <2>. QED BY <2>1, <2>2
<1>. QED BY Zenon, <1>0, <1>6, <1>7, <1>8, <1>11, ProducerKeeps

-----------------------------------------------------------------------------
(* The consumer group *)

LEMMA LogLengths ==
    ASSUME BaseTypes
    PROVE  \A p \in Partitions : Len(log[p]) \in Nat /\ DOMAIN log[p] = 1..Len(log[p]) /\ log[p] \in Seq(Events)
BY DEF BaseTypes

\* Steps of the producer and of the replay command leave the group alone.
LEMMA OutsideGroup ==
    ASSUME BaseTypes, GroupInv, Forward, UNCHANGED groupVars
    PROVE  GroupInv'
<1>0. /\ committed' = committed /\ owner' = owner /\ position' = position /\ hand' = hand
      /\ deferred' = deferred /\ member' = member
  BY DEF groupVars
<1>1. Settled \subseteq Settled' /\ Ready \subseteq Ready' BY SettledGrows
<1>2. GroupTypes'
  <2>1. \A p \in Partitions : Len(log[p]) <= Len(log'[p]) /\ Len(log[p]) \in Nat /\ Len(log'[p]) \in Nat
    BY LogLengths DEF Forward, LogGrows
  <2>2. \A p \in Partitions : committed'[p] <= Len(log'[p]) /\ position'[p] <= Len(log'[p])
    BY <1>0, <2>1 DEF GroupInv, GroupTypes
  <2>. QED BY <1>0, <2>2, Zenon DEF GroupInv, GroupTypes
<1>3. CommittedInv' BY <1>0, <1>1, Zenon DEF GroupInv, CommittedInv
<1>4. PositionInv' BY <1>0, <1>1, Zenon DEF GroupInv, PositionInv, Holds, Keeps, Record
<1>5. HandInv' BY <1>0, <1>1, Zenon DEF GroupInv, HandInv, Keeps, Record
<1>6. DeferredInv' BY <1>0, <1>1, Zenon DEF GroupInv, DeferredInv
<1>. QED BY <1>2, <1>3, <1>4, <1>5, <1>6 DEF GroupInv

LEMMA SameRecords ==
    ASSUME BaseTypes, UNCHANGED <<scene, log, inbox, dead>>
    PROVE  Forward /\ Settled' = Settled /\ Ready' = Ready
<1>1. LogGrows /\ Recorded' = Recorded /\ Repeated' = Repeated BY LogStays
<1>2. Applied' = Applied BY DEF Applied
<1>3. Settled' = Settled BY <1>1, <1>2 DEF Settled
<1>. QED BY <1>1, <1>2, <1>3 DEF Forward, Ready

LEMMA HandAt ==
    ASSUME BaseTypes, GroupInv, NEW c \in Consumers, hand[c] # <<>>
    PROVE  /\ hand[c] \in AtMostOne(Taken) /\ hand[c][1] \in Taken
           /\ hand[c][1].part \in Partitions /\ hand[c][1].at \in 1..Len(log[hand[c][1].part])
           /\ hand[c][1].late \in BOOLEAN /\ Record(c) \in Recorded /\ Event(c) \in Events
<1>1. hand[c] \in AtMostOne(Taken) BY DEF GroupInv, GroupTypes
<1>2. hand[c][1] \in Taken BY <1>1, TheThing
<1>3. Record(c) \in Recorded BY DEF GroupInv, HandInv, Ready
<1>4. hand[c][1].part \in Partitions /\ hand[c][1].at \in 1..Len(log[hand[c][1].part])
  BY <1>3, RecordedPairs DEF Record
<1>5. Event(c) \in Events BY <1>4, LogLengths DEF Event
<1>. QED BY <1>1, <1>2, <1>3, <1>4, <1>5, TakenTypes

LEMMA TakeEffect ==
    ASSUME BaseTypes, GroupInv, NEW c \in Consumers, NEW p \in Partitions, NEW i \in Nat \ {0}, NEW late \in BOOLEAN,
           Take(c, p, i, late)
    PROVE  /\ hand' \in [Consumers -> AtMostOne(Taken)] /\ \A x \in Consumers \ {c} : hand'[x] = hand[x]
           /\ hand'[c] # <<>> /\ hand'[c][1].part = p /\ hand'[c][1].at = i
           /\ hand'[c][1].late = late /\ hand'[c][1].stage = "fetched"
<1>. DEFINE r == [part |-> p, at |-> i, late |-> late, stage |-> "fetched"]
<1>1. r \in Taken /\ r.part = p /\ r.at = i /\ r.late = late /\ r.stage = "fetched" BY FetchedTypes
<1>2. hand' = [hand EXCEPT ![c] = <<r>>] BY DEF Take
<1>. HIDE DEF r
<1>3. <<r>> \in AtMostOne(Taken) /\ <<r>> # <<>> /\ <<r>>[1] = r BY <1>1, OneThing
<1>4. hand \in [Consumers -> AtMostOne(Taken)] BY DEF GroupInv, GroupTypes
<1>5. /\ hand' \in [Consumers -> AtMostOne(Taken)] /\ hand'[c] = <<r>>
      /\ \A x \in Consumers \ {c} : hand'[x] = hand[x]
  BY <1>2, <1>3, <1>4, Zenon
<1>. QED BY <1>1, <1>3, <1>5

LEMMA HandledThing ==
    ASSUME NEW s \in AtMostOne(Taken), s # <<>>
    PROVE  LET t == [s EXCEPT ![1].stage = "handled"]
           IN /\ t \in AtMostOne(Taken) /\ t # <<>> /\ t[1].part = s[1].part /\ t[1].at = s[1].at
              /\ t[1].late = s[1].late /\ t[1].stage = "handled"
<1>. DEFINE r == [s[1] EXCEPT !.stage = "handled"]
            t == [s EXCEPT ![1] = r]
<1>1. s[1] \in Taken BY TheThing
<1>2. r \in Taken /\ r.part = s[1].part /\ r.at = s[1].at /\ r.late = s[1].late /\ r.stage = "handled"
  BY <1>1, HandledTypes
<1>. HIDE DEF r
<1>3. t \in AtMostOne(Taken) /\ t # <<>> /\ t[1] = r BY <1>2, ChangedThing
<1>4. t = [s EXCEPT ![1].stage = "handled"] BY DEF r
<1>. HIDE DEF t
<1>. QED BY <1>2, <1>3, <1>4

LEMMA HandledEffect ==
    ASSUME BaseTypes, GroupInv, NEW c \in Consumers, hand[c] # <<>>,
           hand' = [hand EXCEPT ![c][1].stage = "handled"]
    PROVE  /\ hand' \in [Consumers -> AtMostOne(Taken)] /\ \A x \in Consumers \ {c} : hand'[x] = hand[x]
           /\ hand'[c] # <<>> /\ hand'[c][1].part = hand[c][1].part /\ hand'[c][1].at = hand[c][1].at
           /\ hand'[c][1].late = hand[c][1].late /\ hand'[c][1].stage = "handled"
<1>. DEFINE new == [hand[c] EXCEPT ![1].stage = "handled"]
<1>1. hand[c] \in AtMostOne(Taken) BY HandAt
<1>2. /\ new \in AtMostOne(Taken) /\ new # <<>> /\ new[1].part = hand[c][1].part /\ new[1].at = hand[c][1].at
      /\ new[1].late = hand[c][1].late /\ new[1].stage = "handled"
  BY SMTT(30), <1>1, HandledThing
<1>3. hand' = [hand EXCEPT ![c] = new] OBVIOUS
<1>. HIDE DEF new
<1>4. hand \in [Consumers -> AtMostOne(Taken)] BY DEF GroupInv, GroupTypes
<1>5. /\ hand' \in [Consumers -> AtMostOne(Taken)] /\ hand'[c] = new
      /\ \A x \in Consumers \ {c} : hand'[x] = hand[x]
  BY <1>2, <1>3, <1>4, Zenon
<1>. QED BY <1>2, <1>5, Zenon

LEMMA FreedEffect ==
    ASSUME GroupInv, NEW c \in Consumers, hand' = [hand EXCEPT ![c] = <<>>]
    PROVE  /\ hand' \in [Consumers -> AtMostOne(Taken)] /\ hand'[c] = <<>>
           /\ \A x \in Consumers \ {c} : hand'[x] = hand[x]
<1>1. hand \in [Consumers -> AtMostOne(Taken)] /\ <<>> \in AtMostOne(Taken) BY Nothing DEF GroupInv, GroupTypes
<1>. QED BY <1>1, Zenon

\* What a consumer that does nothing has in hand stays in order.
LEMMA OtherHands ==
    ASSUME BaseTypes, GroupInv, NEW x \in Consumers, hand'[x] # <<>>, hand'[x] = hand[x], deferred'[x] = deferred[x]
    PROVE  /\ Record(x)' \in Ready /\ (hand'[x][1].stage = "handled" => Record(x)' \in Settled)
           /\ hand'[x][1].late => Keeps(x, Record(x))'
           /\ ~hand'[x][1].late => hand'[x][1].part \notin DOMAIN deferred[x]
<1>1. Record(x)' = Record(x) BY DEF Record
<1>2. /\ Record(x) \in Ready /\ (hand[x][1].stage = "handled" => Record(x) \in Settled)
      /\ hand[x][1].late => Keeps(x, Record(x))
      /\ ~hand[x][1].late => hand[x][1].part \notin DOMAIN deferred[x]
  BY Zenon DEF GroupInv, HandInv
<1>. QED BY <1>1, <1>2, Zenon DEF Keeps

\* PollRecords: everything before the record that is fetched is settled.
LEMMA PollKeeps ==
    ASSUME BaseTypes, GroupInv, NEW c \in Consumers, NEW p \in Partitions, Poll(c, p)
    PROVE  GroupInv' /\ Forward
<1>. DEFINE at == position[p] + 1
<1>0. /\ hand[c] = <<>> /\ owner[p] = c /\ p \notin DOMAIN deferred[c] /\ position[p] < Len(log[p])
      /\ position' = [position EXCEPT ![p] = @ + 1] /\ Take(c, p, at, FALSE)
      /\ UNCHANGED <<scene, log, inbox, dead, committed, owner, deferred, member>>
  BY Zenon DEF Poll, producerVars
<1>1. Forward /\ Settled' = Settled /\ Ready' = Ready BY <1>0, SameRecords
<1>2. position \in [Partitions -> Nat] /\ Len(log[p]) \in Nat BY LogLengths DEF GroupInv, GroupTypes
<1>3. at \in Nat \ {0} /\ at <= Len(log[p]) BY <1>0, <1>2
<1>. HIDE DEF at
<1>4. /\ hand' \in [Consumers -> AtMostOne(Taken)] /\ \A x \in Consumers \ {c} : hand'[x] = hand[x]
      /\ hand'[c] # <<>> /\ hand'[c][1].part = p /\ hand'[c][1].at = at
      /\ hand'[c][1].late = FALSE /\ hand'[c][1].stage = "fetched"
  <2>1. FALSE \in BOOLEAN /\ Take(c, p, at, FALSE) BY <1>0, Zenon
  <2>. QED BY <2>1, <1>3, TakeEffect, Zenon
<1>5. /\ position' \in [Partitions -> Nat] /\ position'[p] = at
      /\ \A q \in Partitions \ {p} : position'[q] = position[q]
  BY <1>0, <1>2 DEF at
<1>6. \A i \in 1..position[p] : <<p, i>> \in Settled
  BY <1>0, Zenon DEF GroupInv, PositionInv, Holds, Keeps
<1>7. GroupTypes' BY <1>0, <1>3, <1>4, <1>5 DEF GroupInv, GroupTypes
<1>8. CommittedInv' BY <1>0, <1>1, Zenon DEF GroupInv, CommittedInv
<1>9. DeferredInv' BY <1>0, <1>1, ZenonT(30) DEF GroupInv, DeferredInv
<1>10. ASSUME NEW q \in Partitions, NEW i \in 1..position'[q]
       PROVE  \/ <<q, i>> \in Settled' \/ (hand'[owner'[q]] # <<>> /\ <<hand'[owner'[q]][1].part, hand'[owner'[q]][1].at>> = <<q, i>>)
              \/ (q \in DOMAIN deferred'[owner'[q]] /\ deferred'[owner'[q]][q] = i)
  <2>1. CASE q = p /\ i = at BY <2>1, <1>0, <1>4
  <2>2. CASE q = p /\ i # at
    <3>1. i \in 1..position[p] BY <2>2, <1>2, <1>5 DEF at
    <3>. QED BY <2>2, <3>1, <1>6, <1>1
  <2>3. CASE q # p
    <3>1. i \in 1..position[q] BY <2>3, <1>5
    <3>2. owner[q] \in Consumers BY DEF GroupInv, GroupTypes
    <3>3. \/ <<q, i>> \in Settled \/ (hand[owner[q]] # <<>> /\ <<hand[owner[q]][1].part, hand[owner[q]][1].at>> = <<q, i>>)
          \/ (q \in DOMAIN deferred[owner[q]] /\ deferred[owner[q]][q] = i)
      BY <3>1, Zenon DEF GroupInv, PositionInv, Holds, Keeps, Record
    <3>4. hand[owner[q]] # <<>> => hand'[owner[q]] = hand[owner[q]] BY <3>2, <1>0, <1>4
    <3>. QED BY <3>3, <3>4, <1>0, <1>1
  <2>. QED BY SMTT(30), <2>1, <2>2, <2>3
<1>11. PositionInv' BY <1>10, Zenon DEF PositionInv, Holds, Keeps, Record
<1>12. <<p, at>> \in Ready
  <2>1. <<p, at>> \in Recorded BY <1>3, RecordedPairs
  <2>2. \A i \in 1 .. at - 1 : <<p, i>> \in Settled BY SMTT(30), <1>2, <1>6 DEF at
  <2>. QED BY <2>1, <2>2 DEF Ready
<1>13. HandInv'
  <2>. SUFFICES ASSUME NEW x \in Consumers, hand'[x] # <<>>
                PROVE  /\ Record(x)' \in Ready /\ (hand'[x][1].stage = "handled" => Record(x)' \in Settled)
                       /\ hand'[x][1].late => Keeps(x, Record(x))'
                       /\ ~hand'[x][1].late => hand'[x][1].part \notin DOMAIN deferred[x]
    BY <1>0, <1>1, Zenon DEF HandInv
  <2>1. CASE x = c BY SMTT(30), <2>1, <1>0, <1>4, <1>12 DEF Record
  <2>2. CASE x # c BY <2>2, <1>0, <1>4, OtherHands
  <2>. QED BY <2>1, <2>2
<1>. QED BY <1>1, <1>7, <1>8, <1>9, <1>11, <1>13 DEF GroupInv

\* After the step consumer x handles the record d, or keeps it for later.
Remains(x, d) ==
    \/ hand'[x] # <<>> /\ <<hand'[x][1].part, hand'[x][1].at>> = d
    \/ d[1] \in DOMAIN deferred'[x] /\ deferred'[x][d[1]] = d[2]

LEMMA PositionKeeps ==
    ASSUME GroupInv, Settled \subseteq Settled',
           \A p \in Partitions :
               \/ \A i \in 1..position'[p] : <<p, i>> \in Settled
               \/ /\ owner'[p] = owner[p] /\ position'[p] = position[p]
                  /\ \A i : (Holds(owner[p], <<p, i>>) \/ Keeps(owner[p], <<p, i>>))
                                => <<p, i>> \in Settled' \/ Remains(owner[p], <<p, i>>)
    PROVE  PositionInv'
<1>1. ASSUME NEW p \in Partitions, NEW i \in 1..position'[p]
      PROVE  <<p, i>> \in Settled' \/ Remains(owner'[p], <<p, i>>)
  BY <1>1, Zenon DEF GroupInv, PositionInv
<1>. QED BY <1>1, Zenon DEF PositionInv, Holds, Keeps, Record, Remains

LEMMA HandKeeps ==
    ASSUME BaseTypes, GroupInv, Forward, NEW c \in Consumers,
           \A x \in Consumers \ {c} : hand'[x] = hand[x] /\ deferred'[x] = deferred[x],
           hand'[c] # <<>> =>
               /\ Record(c)' \in Ready /\ (hand'[c][1].stage = "handled" => Record(c)' \in Settled')
               /\ hand'[c][1].late => Keeps(c, Record(c))'
               /\ ~hand'[c][1].late => hand'[c][1].part \notin DOMAIN deferred'[c]
    PROVE  HandInv'
<1>1. Settled \subseteq Settled' /\ Ready \subseteq Ready' BY SettledGrows
<1>2. ASSUME NEW x \in Consumers, hand'[x] # <<>>
      PROVE  /\ Record(x)' \in Ready' /\ (hand'[x][1].stage = "handled" => Record(x)' \in Settled')
             /\ hand'[x][1].late => Keeps(x, Record(x))'
             /\ ~hand'[x][1].late => hand'[x][1].part \notin DOMAIN deferred'[x]
  <2>1. CASE x = c BY <2>1, <1>1, <1>2
  <2>2. CASE x # c
    <3>1. hand'[x] = hand[x] /\ deferred'[x] = deferred[x] BY <2>2
    <3>. QED BY <3>1, <1>1, <1>2, OtherHands
  <2>. QED BY <2>1, <2>2
<1>. QED BY <1>2, Zenon DEF HandInv

LEMMA Keeping ==
    ASSUME BaseTypes, GroupInv, Forward
    PROVE  /\ UNCHANGED committed => CommittedInv'
           /\ UNCHANGED deferred => DeferredInv'
<1>1. Settled \subseteq Settled' /\ Ready \subseteq Ready' BY SettledGrows
<1>. QED BY <1>1, Zenon DEF GroupInv, CommittedInv, DeferredInv

\* A deferred record is taken up again and stays deferred meanwhile.
LEMMA RetryKeeps ==
    ASSUME BaseTypes, GroupInv, NEW c \in Consumers, NEW p \in Partitions, RetryDeferred(c, p)
    PROVE  GroupInv' /\ Forward
<1>. DEFINE at == deferred[c][p]
<1>0. /\ hand[c] = <<>> /\ p \in DOMAIN deferred[c] /\ Take(c, p, at, TRUE)
      /\ UNCHANGED <<scene, log, inbox, dead, committed, owner, position, deferred, member>>
  BY Zenon DEF RetryDeferred, producerVars
<1>1. Forward /\ Settled' = Settled /\ Ready' = Ready BY <1>0, SameRecords
<1>2. <<p, at>> \in Ready BY <1>0 DEF GroupInv, DeferredInv
<1>3. at \in Nat \ {0} BY <1>2, RecordedPairs, LogLengths DEF Ready
<1>. HIDE DEF at
<1>4. /\ hand' \in [Consumers -> AtMostOne(Taken)] /\ \A x \in Consumers \ {c} : hand'[x] = hand[x]
      /\ hand'[c] # <<>> /\ hand'[c][1].part = p /\ hand'[c][1].at = at
      /\ hand'[c][1].late = TRUE /\ hand'[c][1].stage = "fetched"
  <2>1. TRUE \in BOOLEAN /\ Take(c, p, at, TRUE) BY <1>0, Zenon
  <2>. QED BY <2>1, <1>3, TakeEffect, Zenon
<1>5. GroupTypes' BY <1>0, <1>4, Zenon DEF GroupInv, GroupTypes
<1>6. PositionInv'
  <2>1. ASSUME NEW q \in Partitions, NEW i, Holds(owner[q], <<q, i>>) \/ Keeps(owner[q], <<q, i>>)
        PROVE  Remains(owner[q], <<q, i>>)
    <3>1. owner[q] \in Consumers BY DEF GroupInv, GroupTypes
    <3>2. CASE Keeps(owner[q], <<q, i>>) BY <3>2, <1>0, Zenon DEF Keeps, Remains
    <3>3. CASE Holds(owner[q], <<q, i>>)
      <4>1. hand'[owner[q]] = hand[owner[q]] BY <3>1, <3>3, <1>0, <1>4 DEF Holds
      <4>. QED BY <3>3, <4>1, Zenon DEF Holds, Remains, Record
    <3>. QED BY <2>1, <3>2, <3>3
  <2>. QED BY <2>1, <1>0, <1>1, PositionKeeps, Zenon
<1>7. Record(c)' = <<p, at>> BY <1>4 DEF Record
<1>8. Keeps(c, Record(c))' BY <1>0, <1>7 DEF Keeps, at
<1>9. HandInv' BY <1>0, <1>1, <1>2, <1>4, <1>7, <1>8, HandKeeps
<1>. QED BY <1>0, <1>1, <1>5, <1>6, <1>9, Keeping DEF GroupInv

\* The record in hand is applied or kept as a dead letter.
LEMMA HandledKeeps ==
    ASSUME BaseTypes, GroupInv, Forward, NEW c \in Consumers, hand[c] # <<>>,
           hand' = [hand EXCEPT ![c][1].stage = "handled"], Record(c) \in Settled',
           UNCHANGED <<log, committed, owner, position, deferred, member>>
    PROVE  GroupInv'
<1>0. UNCHANGED log /\ UNCHANGED committed /\ UNCHANGED owner /\ UNCHANGED position /\ UNCHANGED deferred /\ UNCHANGED member
  OBVIOUS
<1>1. /\ hand' \in [Consumers -> AtMostOne(Taken)] /\ \A x \in Consumers \ {c} : hand'[x] = hand[x]
      /\ hand'[c] # <<>> /\ hand'[c][1].part = hand[c][1].part /\ hand'[c][1].at = hand[c][1].at
      /\ hand'[c][1].late = hand[c][1].late /\ hand'[c][1].stage = "handled"
  BY HandledEffect, Zenon
<1>2. Settled \subseteq Settled' BY SettledGrows
<1>3. GroupTypes' BY <1>0, <1>1, Zenon DEF GroupInv, GroupTypes
<1>4. ASSUME NEW x \in Consumers PROVE <<hand'[x][1].part, hand'[x][1].at>> = Record(x) /\ (hand[x] # <<>> => hand'[x] # <<>>)
  BY <1>1, Zenon DEF Record
<1>5. PositionInv'
  <2>1. ASSUME NEW q \in Partitions, NEW i, Holds(owner[q], <<q, i>>) \/ Keeps(owner[q], <<q, i>>)
        PROVE  Remains(owner[q], <<q, i>>)
    <3>1. owner[q] \in Consumers BY DEF GroupInv, GroupTypes
    <3>. QED BY <2>1, <3>1, <1>0, <1>4, Zenon DEF Holds, Keeps, Remains
  <2>. QED BY <2>1, <1>0, <1>2, PositionKeeps, Zenon
<1>6. Record(c)' = Record(c) BY <1>1 DEF Record
<1>7. /\ Record(c) \in Ready /\ (hand[c][1].late => Keeps(c, Record(c)))
      /\ ~hand[c][1].late => hand[c][1].part \notin DOMAIN deferred[c]
  BY Zenon DEF GroupInv, HandInv
<1>8. Keeps(c, Record(c))' <=> Keeps(c, Record(c)) BY <1>0, <1>6, Zenon DEF Keeps
<1>9. HandInv' BY <1>0, <1>1, <1>6, <1>7, <1>8, HandKeeps, Zenon
<1>. QED BY <1>0, <1>3, <1>5, <1>9, Keeping, Zenon DEF GroupInv

\* A gap: the record goes from the hand to the deferred ones.
LEMMA DeferKeeps ==
    ASSUME BaseTypes, GroupInv, NEW c \in Consumers, DeferGap(c)
    PROVE  GroupInv' /\ Forward
<1>. DEFINE p == hand[c][1].part
            at == hand[c][1].at
            paused == Put(deferred[c], p, at)
<1>0. /\ hand[c] # <<>> /\ hand' = [hand EXCEPT ![c] = <<>>] /\ deferred' = [deferred EXCEPT ![c] = paused]
      /\ UNCHANGED <<scene, log, inbox, dead, committed, owner, position, member>>
  BY Zenon DEF DeferGap, Has, producerVars
<1>1. Forward /\ Settled' = Settled /\ Ready' = Ready BY <1>0, SameRecords
<1>2. p \in Partitions BY <1>0, HandAt
<1>3. /\ Record(c) = <<p, at>> /\ <<p, at>> \in Ready
      /\ p \in DOMAIN deferred[c] => deferred[c][p] = at
  BY <1>0, ZenonT(30) DEF GroupInv, HandInv, Keeps, Record
<1>4. /\ DOMAIN paused = DOMAIN deferred[c] \cup {p} /\ paused[p] = at
      /\ \A q \in DOMAIN deferred[c] : paused[q] = deferred[c][q]
  BY <1>3 DEF Put
<1>. HIDE DEF p, at, paused
<1>5. DOMAIN deferred = Consumers /\ \A x \in Consumers : DOMAIN deferred[x] \subseteq Partitions
  BY DEF GroupInv, GroupTypes
<1>6. DOMAIN deferred' = Consumers /\ deferred'[c] = paused /\ \A x \in Consumers \ {c} : deferred'[x] = deferred[x]
  BY <1>0, <1>5, Zenon
<1>7. /\ hand' \in [Consumers -> AtMostOne(Taken)] /\ hand'[c] = <<>>
      /\ \A x \in Consumers \ {c} : hand'[x] = hand[x]
  BY Zenon, <1>0, FreedEffect
<1>8. \A x \in Consumers : DOMAIN deferred'[x] \subseteq Partitions BY <1>2, <1>4, <1>5, <1>6
<1>9. GroupTypes' BY <1>0, <1>6, <1>7, <1>8, Zenon DEF GroupInv, GroupTypes
<1>10. PositionInv'
  <2>1. ASSUME NEW q \in Partitions, NEW i, Holds(owner[q], <<q, i>>) \/ Keeps(owner[q], <<q, i>>)
        PROVE  Remains(owner[q], <<q, i>>)
    <3>1. owner[q] \in Consumers BY DEF GroupInv, GroupTypes
    <3>2. CASE owner[q] # c
      BY <2>1, <3>1, <3>2, <1>6, <1>7, Zenon DEF Holds, Keeps, Remains, Record
    <3>3. CASE owner[q] = c
      <4>1. q \in DOMAIN paused /\ paused[q] = i
        <5>1. CASE Keeps(c, <<q, i>>) BY <5>1, <1>4 DEF Keeps
        <5>2. CASE Holds(c, <<q, i>>) BY <5>2, <1>3, <1>4 DEF Holds
        <5>. QED BY <2>1, <3>3, <5>1, <5>2
      <4>. QED BY <3>3, <4>1, <1>6 DEF Remains
    <3>. QED BY <3>2, <3>3
  <2>. QED BY <2>1, <1>0, <1>1, PositionKeeps, Zenon
<1>11. HandInv' BY <1>1, <1>6, <1>7, HandKeeps, Zenon
<1>12. \A x \in Consumers : \A q \in DOMAIN deferred[x] : <<q, deferred[x][q]>> \in Ready
  BY Zenon DEF GroupInv, DeferredInv
<1>13. ASSUME NEW x \in Consumers, NEW q \in DOMAIN deferred'[x] PROVE <<q, deferred'[x][q]>> \in Ready
  <2>1. CASE x # c BY <2>1, <1>6, <1>12
  <2>2. CASE x = c /\ q = p BY <2>2, <1>3, <1>4, <1>6
  <2>3. CASE x = c /\ q # p
    <3>1. q \in DOMAIN deferred[c] /\ deferred'[x][q] = deferred[c][q] BY <2>3, <1>4, <1>6
    <3>. QED BY <3>1, <1>12
  <2>. QED BY <2>1, <2>2, <2>3
<1>14. DeferredInv' BY <1>1, <1>13, Zenon DEF DeferredInv
<1>. QED BY <1>0, <1>1, <1>9, <1>10, <1>11, <1>14, Keeping, Zenon DEF GroupInv

\* A failure: a fresh record is fetched again, a deferred one stays so.
LEMMA FailsKeeps ==
    ASSUME BaseTypes, GroupInv, NEW c \in Consumers, Fails(c)
    PROVE  GroupInv' /\ Forward
<1>. DEFINE p == hand[c][1].part
            at == hand[c][1].at
<1>0. /\ hand[c] # <<>> /\ hand' = [hand EXCEPT ![c] = <<>>] /\ Rewind(c)
      /\ UNCHANGED <<scene, log, inbox, dead, committed, owner, deferred, member>>
  BY Zenon DEF Fails, producerVars
<1>1. Forward /\ Settled' = Settled /\ Ready' = Ready BY <1>0, SameRecords
<1>2. p \in Partitions /\ at \in 1..Len(log[p]) /\ Len(log[p]) \in Nat BY <1>0, HandAt, LogLengths
<1>3. /\ Record(c) = <<p, at>> /\ <<p, at>> \in Ready
      /\ hand[c][1].late => p \in DOMAIN deferred[c] /\ deferred[c][p] = at
  BY <1>0, Zenon DEF GroupInv, HandInv, Keeps, Record
<1>4. position' = IF owner[p] = c /\ ~hand[c][1].late THEN [position EXCEPT ![p] = at - 1] ELSE position
  BY <1>0 DEF Rewind
<1>. HIDE DEF p, at
<1>5. position \in [Partitions -> Nat] /\ \A q \in Partitions : position[q] <= Len(log[q])
  BY DEF GroupInv, GroupTypes
<1>6. /\ position' \in [Partitions -> Nat] /\ \A q \in Partitions : position'[q] <= Len(log[q])
      /\ \A q \in Partitions : position'[q] = position[q]
             \/ (q = p /\ position'[q] = at - 1)
      /\ (owner[p] = c /\ ~hand[c][1].late) => position'[p] = at - 1
      /\ ~(owner[p] = c /\ ~hand[c][1].late) => position' = position
  BY <1>2, <1>4, <1>5
<1>7. /\ hand' \in [Consumers -> AtMostOne(Taken)] /\ hand'[c] = <<>>
      /\ \A x \in Consumers \ {c} : hand'[x] = hand[x]
  BY Zenon, <1>0, FreedEffect
<1>8. GroupTypes' BY <1>0, <1>6, <1>7, Zenon DEF GroupInv, GroupTypes
<1>9. \A i \in 1 .. at - 1 : <<p, i>> \in Settled BY SMTT(30), <1>3 DEF Ready
<1>10. ASSUME NEW q \in Partitions
       PROVE  \/ \A i \in 1..position'[q] : <<q, i>> \in Settled
              \/ /\ owner'[q] = owner[q] /\ position'[q] = position[q]
                 /\ \A i : (Holds(owner[q], <<q, i>>) \/ Keeps(owner[q], <<q, i>>))
                               => <<q, i>> \in Settled' \/ Remains(owner[q], <<q, i>>)
  <2>1. CASE q = p /\ owner[p] = c /\ ~hand[c][1].late BY <2>1, <1>6, <1>9
  <2>2. CASE ~(q = p /\ owner[p] = c /\ ~hand[c][1].late)
    <3>1. position'[q] = position[q] BY <2>2, <1>6
    <3>2. ASSUME NEW i, Holds(owner[q], <<q, i>>) \/ Keeps(owner[q], <<q, i>>)
          PROVE  Remains(owner[q], <<q, i>>)
      <4>1. owner[q] \in Consumers BY DEF GroupInv, GroupTypes
      <4>2. CASE Keeps(owner[q], <<q, i>>) BY <4>2, <1>0, Zenon DEF Keeps, Remains
      <4>3. CASE Holds(owner[q], <<q, i>>) /\ owner[q] # c
        BY <4>1, <4>3, <1>7, Zenon DEF Holds, Remains, Record
      <4>4. CASE Holds(owner[q], <<q, i>>) /\ owner[q] = c
        <5>1. q = p /\ i = at BY <4>4, <1>3 DEF Holds
        <5>2. q \in DOMAIN deferred'[c] /\ deferred'[c][q] = i BY <5>1, <4>4, <2>2, <1>0, <1>3
        <5>. QED BY <5>2, <4>4 DEF Remains
      <4>. QED BY <3>2, <4>2, <4>3, <4>4
    <3>. QED BY <3>1, <3>2, <1>0, Zenon
  <2>. QED BY <2>1, <2>2
<1>11. PositionInv' BY <1>1, <1>10, PositionKeeps, Zenon
<1>12. HandInv' BY <1>0, <1>1, <1>7, HandKeeps, Zenon
<1>. QED BY <1>0, <1>1, <1>8, <1>11, <1>12, Keeping, Zenon DEF GroupInv

\* A commit: all up to the record are settled, and it need no longer be kept.
LEMMA CommitKeeps ==
    ASSUME BaseTypes, GroupInv, NEW c \in Consumers, Commit(c)
    PROVE  GroupInv' /\ Forward
<1>. DEFINE p == hand[c][1].part
            at == hand[c][1].at
            rest == Drop(deferred[c], p)
<1>0. /\ hand[c] # <<>> /\ hand[c][1].stage = "handled" /\ hand' = [hand EXCEPT ![c] = <<>>]
      /\ committed' = [committed EXCEPT ![p] = at]
      /\ deferred' = IF hand[c][1].late THEN [deferred EXCEPT ![c] = rest] ELSE deferred
      /\ UNCHANGED <<scene, log, inbox, dead, owner, position, member>>
  BY ZenonT(30) DEF Commit, Has, producerVars
<1>1. Forward /\ Settled' = Settled /\ Ready' = Ready BY <1>0, SameRecords
<1>2. p \in Partitions /\ at \in 1..Len(log[p]) /\ Len(log[p]) \in Nat BY <1>0, HandAt, LogLengths
<1>3. /\ Record(c) = <<p, at>> /\ <<p, at>> \in Ready /\ <<p, at>> \in Settled
      /\ hand[c][1].late => p \in DOMAIN deferred[c] /\ deferred[c][p] = at
  BY <1>0, Zenon DEF GroupInv, HandInv, Keeps, Record
<1>4. DOMAIN rest = DOMAIN deferred[c] \ {p} /\ \A q \in DOMAIN rest : rest[q] = deferred[c][q] BY DEF Drop
<1>. HIDE DEF p, at, rest
<1>5. DOMAIN deferred = Consumers /\ \A x \in Consumers : DOMAIN deferred[x] \subseteq Partitions
  BY DEF GroupInv, GroupTypes
<1>6. /\ DOMAIN deferred' = Consumers /\ \A x \in Consumers \ {c} : deferred'[x] = deferred[x]
      /\ deferred'[c] = deferred[c] \/ (hand[c][1].late /\ deferred'[c] = rest)
  BY <1>0, <1>5, Zenon
<1>7. /\ hand' \in [Consumers -> AtMostOne(Taken)] /\ hand'[c] = <<>>
      /\ \A x \in Consumers \ {c} : hand'[x] = hand[x]
  BY Zenon, <1>0, FreedEffect
<1>8. ASSUME NEW x \in Consumers, NEW q \in DOMAIN deferred'[x]
      PROVE  q \in DOMAIN deferred[x] /\ deferred'[x][q] = deferred[x][q]
  BY <1>4, <1>6, <1>8, Zenon
<1>9. /\ committed' \in [Partitions -> Nat] /\ committed'[p] = at
      /\ \A q \in Partitions \ {p} : committed'[q] = committed[q]
  BY <1>0, <1>2 DEF GroupInv, GroupTypes
<1>10. ASSUME NEW q \in Partitions PROVE committed'[q] <= Len(log[q]) /\ position[q] <= Len(log[q])
  <2>1. committed[q] <= Len(log[q]) /\ position[q] <= Len(log[q]) BY Zenon DEF GroupInv, GroupTypes
  <2>2. CASE q = p BY <2>1, <2>2, <1>2, <1>9
  <2>3. CASE q # p BY <2>1, <2>3, <1>9
  <2>. QED BY <2>2, <2>3
<1>11. \A x \in Consumers : DOMAIN deferred'[x] \subseteq Partitions BY <1>5, <1>8
<1>12. GroupTypes' BY <1>0, <1>6, <1>7, <1>9, <1>10, <1>11, Zenon DEF GroupInv, GroupTypes
<1>13. CommittedInv'
  <2>1. ASSUME NEW q \in Partitions, NEW i \in 1..committed'[q] PROVE <<q, i>> \in Settled
    <3>1. CASE q # p BY <3>1, <1>9 DEF GroupInv, CommittedInv
    <3>2. CASE q = p /\ i = at BY <3>2, <1>3
    <3>3. CASE q = p /\ i # at
      <4>1. i \in 1 .. at - 1 BY <3>3, <1>2, <1>9
      <4>. QED BY <3>3, <4>1, <1>3 DEF Ready
    <3>. QED BY <3>1, <3>2, <3>3
  <2>. QED BY <2>1, <1>1, Zenon DEF CommittedInv
<1>14. PositionInv'
  <2>1. ASSUME NEW q \in Partitions, NEW i, Holds(owner[q], <<q, i>>) \/ Keeps(owner[q], <<q, i>>)
        PROVE  <<q, i>> \in Settled \/ Remains(owner[q], <<q, i>>)
    <3>1. owner[q] \in Consumers BY DEF GroupInv, GroupTypes
    <3>2. CASE owner[q] # c
      BY <2>1, <3>1, <3>2, <1>6, <1>7, Zenon DEF Holds, Keeps, Remains, Record
    <3>3. CASE owner[q] = c /\ Holds(c, <<q, i>>) BY <3>3, <1>3 DEF Holds
    <3>4. CASE owner[q] = c /\ Keeps(c, <<q, i>>)
      <4>1. q \in DOMAIN deferred[c] /\ deferred[c][q] = i BY <3>4 DEF Keeps
      <4>2. CASE deferred'[c] = deferred[c] BY <4>1, <4>2, <3>4 DEF Remains
      <4>3. CASE hand[c][1].late /\ deferred'[c] = rest /\ q = p BY <4>1, <4>3, <1>3
      <4>4. CASE deferred'[c] = rest /\ q # p
        <5>1. q \in DOMAIN deferred'[c] /\ deferred'[c][q] = i BY <4>1, <4>4, <1>4
        <5>. QED BY <5>1, <3>4 DEF Remains
      <4>. QED BY <1>6, <4>2, <4>3, <4>4
    <3>. QED BY <2>1, <3>2, <3>3, <3>4
  <2>. QED BY <2>1, <1>0, <1>1, PositionKeeps, Zenon
<1>15. HandInv' BY <1>1, <1>6, <1>7, HandKeeps, Zenon
<1>16. DeferredInv' BY <1>1, <1>8, Zenon DEF GroupInv, DeferredInv
<1>. QED BY <1>1, <1>12, <1>13, <1>14, <1>15, <1>16 DEF GroupInv

\* Partitions change hands: the new owner starts at what is committed.
LEMMA AssignKeeps ==
    ASSUME BaseTypes, GroupInv, Forward, NEW moved \in SUBSET Partitions, NEW d \in Consumers, Assign(moved, d),
           UNCHANGED <<log, committed>>,
           \A q \in Partitions \ moved : \A i :
               (Holds(owner[q], <<q, i>>) \/ Keeps(owner[q], <<q, i>>)) => Remains(owner[q], <<q, i>>)
    PROVE  /\ owner' \in [Partitions -> Consumers] /\ position' \in [Partitions -> Nat]
           /\ \A p \in Partitions : committed'[p] <= Len(log'[p]) /\ position'[p] <= Len(log'[p])
           /\ committed' \in [Partitions -> Nat] /\ CommittedInv' /\ PositionInv'
<1>1. /\ owner' = [p \in Partitions |-> IF p \in moved THEN d ELSE owner[p]]
      /\ position' = [p \in Partitions |-> IF p \in moved THEN committed[p] ELSE position[p]]
  BY Zenon DEF Assign
<1>2. /\ committed \in [Partitions -> Nat] /\ position \in [Partitions -> Nat] /\ owner \in [Partitions -> Consumers]
      /\ \A p \in Partitions : committed[p] <= Len(log[p]) /\ position[p] <= Len(log[p])
  BY DEF GroupInv, GroupTypes
<1>3. owner' \in [Partitions -> Consumers] /\ position' \in [Partitions -> Nat] BY SMTT(30), <1>1, <1>2
<1>4. /\ \A p \in moved : position'[p] = committed[p]
      /\ \A p \in Partitions \ moved : position'[p] = position[p] /\ owner'[p] = owner[p]
  BY <1>1
<1>5. \A p \in Partitions : committed'[p] <= Len(log'[p]) /\ position'[p] <= Len(log'[p]) BY <1>2, <1>4
<1>6. Settled \subseteq Settled' BY SettledGrows
<1>7. \A p \in moved : \A i \in 1..position'[p] : <<p, i>> \in Settled
  BY <1>4, Zenon DEF GroupInv, CommittedInv
<1>8. PositionInv' BY <1>4, <1>6, <1>7, PositionKeeps, Zenon
<1>. QED BY <1>2, <1>3, <1>5, <1>8, Keeping

LEMMA HandsStay ==
    ASSUME BaseTypes, GroupInv, Forward, UNCHANGED <<hand, deferred>>
    PROVE  /\ hand' \in [Consumers -> AtMostOne(Taken)] /\ DOMAIN deferred' = Consumers
           /\ \A c \in Consumers : DOMAIN deferred'[c] \subseteq Partitions
           /\ HandInv' /\ DeferredInv'
           /\ \A x, e : (Holds(x, e) \/ Keeps(x, e)) => Remains(x, e)
<1>1. /\ hand' \in [Consumers -> AtMostOne(Taken)] /\ DOMAIN deferred' = Consumers
      /\ \A c \in Consumers : DOMAIN deferred'[c] \subseteq Partitions
  BY DEF GroupInv, GroupTypes
<1>2. Settled \subseteq Settled' /\ Ready \subseteq Ready' BY SettledGrows
<1>3. HandInv'
  <2>1. SUFFICES ASSUME NEW c \in Consumers, hand'[c] # <<>>
                 PROVE  /\ Record(c)' \in Ready' /\ (hand'[c][1].stage = "handled" => Record(c)' \in Settled')
                        /\ hand'[c][1].late => Keeps(c, Record(c))'
                        /\ ~hand'[c][1].late => hand'[c][1].part \notin DOMAIN deferred'[c]
    BY Zenon DEF HandInv
  <2>. QED BY <2>1, <1>2, OtherHands, Zenon
<1>4. DeferredInv' BY Keeping
<1>5. \A x, e : (Holds(x, e) \/ Keeps(x, e)) => Remains(x, e) BY Zenon DEF Holds, Keeps, Remains, Record
<1>. QED BY <1>1, <1>3, <1>4, <1>5

LEMMA RebalanceKeeps ==
    ASSUME BaseTypes, GroupInv, NEW c \in Consumers, NEW p \in Partitions, Rebalance(p, c)
    PROVE  GroupInv' /\ Forward
<1>1. Assign({p}, c) /\ UNCHANGED <<scene, log, committed, hand, deferred, member, inbox, dead>>
  BY Zenon DEF Rebalance, producerVars
<1>2. Forward BY <1>1, SameRecords
<1>3. {p} \in SUBSET Partitions OBVIOUS
<1>4. /\ hand' \in [Consumers -> AtMostOne(Taken)] /\ DOMAIN deferred' = Consumers
      /\ \A x \in Consumers : DOMAIN deferred'[x] \subseteq Partitions
      /\ HandInv' /\ DeferredInv'
      /\ \A x, e : (Holds(x, e) \/ Keeps(x, e)) => Remains(x, e)
  BY <1>1, <1>2, HandsStay
<1>5. /\ owner' \in [Partitions -> Consumers] /\ position' \in [Partitions -> Nat]
      /\ \A q \in Partitions : committed'[q] <= Len(log'[q]) /\ position'[q] <= Len(log'[q])
      /\ committed' \in [Partitions -> Nat] /\ CommittedInv' /\ PositionInv'
  BY <1>1, <1>2, <1>3, <1>4, AssignKeeps, Zenon
<1>6. member' \in [Consumers -> BOOLEAN] BY <1>1 DEF GroupInv, GroupTypes
<1>. QED BY <1>2, <1>4, <1>5, <1>6, Zenon DEF GroupInv, GroupTypes

LEMMA ExpelKeeps ==
    ASSUME BaseTypes, GroupInv, NEW c \in Consumers, NEW d \in Consumers, Expel(c, d)
    PROVE  GroupInv' /\ Forward
<1>1. /\ Assign(Owned(c), d) /\ member' = [member EXCEPT ![c] = FALSE]
      /\ UNCHANGED <<scene, log, committed, hand, deferred, inbox, dead>>
  BY Zenon DEF Expel, producerVars
<1>2. Forward BY <1>1, SameRecords
<1>3. Owned(c) \in SUBSET Partitions BY DEF Owned
<1>4. /\ hand' \in [Consumers -> AtMostOne(Taken)] /\ DOMAIN deferred' = Consumers
      /\ \A x \in Consumers : DOMAIN deferred'[x] \subseteq Partitions
      /\ HandInv' /\ DeferredInv'
      /\ \A x, e : (Holds(x, e) \/ Keeps(x, e)) => Remains(x, e)
  BY <1>1, <1>2, HandsStay
<1>5. /\ owner' \in [Partitions -> Consumers] /\ position' \in [Partitions -> Nat]
      /\ \A q \in Partitions : committed'[q] <= Len(log'[q]) /\ position'[q] <= Len(log'[q])
      /\ committed' \in [Partitions -> Nat] /\ CommittedInv' /\ PositionInv'
  BY <1>1, <1>2, <1>3, <1>4, AssignKeeps, Zenon
<1>6. member' \in [Consumers -> BOOLEAN] BY <1>1 DEF GroupInv, GroupTypes
<1>. QED BY <1>2, <1>4, <1>5, <1>6, Zenon DEF GroupInv, GroupTypes

LEMMA RejoinKeeps ==
    ASSUME BaseTypes, GroupInv, NEW c \in Consumers, Rejoin(c)
    PROVE  GroupInv' /\ Forward
<1>1. /\ member' = [member EXCEPT ![c] = TRUE]
      /\ UNCHANGED <<scene, log, committed, owner, position, hand, deferred, inbox, dead>>
  BY Zenon DEF Rejoin, producerVars
<1>2. Forward /\ Settled' = Settled BY <1>1, SameRecords
<1>3. /\ HandInv' /\ DeferredInv' /\ \A x, e : (Holds(x, e) \/ Keeps(x, e)) => Remains(x, e)
  BY <1>1, <1>2, HandsStay
<1>4. PositionInv' BY <1>1, <1>2, <1>3, PositionKeeps, Zenon
<1>5. member' \in [Consumers -> BOOLEAN] BY <1>1 DEF GroupInv, GroupTypes
<1>6. GroupTypes' BY <1>1, <1>5, Zenon DEF GroupInv, GroupTypes
<1>. QED BY <1>1, <1>2, <1>3, <1>4, <1>6, Keeping, Zenon DEF GroupInv

\* A restart loses the hand and what was put off, and gives the partitions up.
LEMMA CrashKeeps ==
    ASSUME BaseTypes, GroupInv, NEW c \in Consumers, NEW d \in Consumers, Crash(c, d)
    PROVE  GroupInv' /\ Forward
<1>1. /\ Assign(Owned(c), d) /\ member' = [member EXCEPT ![c] = TRUE]
      /\ hand' = [hand EXCEPT ![c] = <<>>] /\ deferred' = [deferred EXCEPT ![c] = <<>>]
      /\ UNCHANGED <<scene, log, committed, inbox, dead>>
  BY Zenon DEF Crash, producerVars
<1>2. Forward /\ Ready' = Ready BY <1>1, SameRecords
<1>3. Owned(c) \in SUBSET Partitions /\ \A q \in Partitions \ Owned(c) : owner[q] # c BY DEF Owned
<1>4. /\ hand' \in [Consumers -> AtMostOne(Taken)] /\ hand'[c] = <<>>
      /\ \A x \in Consumers \ {c} : hand'[x] = hand[x]
  BY Zenon, <1>1, FreedEffect
<1>5. DOMAIN deferred = Consumers /\ \A x \in Consumers : DOMAIN deferred[x] \subseteq Partitions
  BY DEF GroupInv, GroupTypes
<1>6. /\ DOMAIN deferred' = Consumers /\ deferred'[c] = <<>> /\ \A x \in Consumers \ {c} : deferred'[x] = deferred[x]
  BY <1>1, <1>5, Zenon
<1>7. DOMAIN deferred'[c] = {} BY <1>6
<1>8. \A x \in Consumers : DOMAIN deferred'[x] \subseteq Partitions BY <1>5, <1>6, <1>7
<1>9. HandInv' BY <1>2, <1>4, <1>6, HandKeeps, Zenon
<1>10. DeferredInv' BY <1>2, <1>6, <1>7, Zenon DEF GroupInv, DeferredInv
<1>11. ASSUME NEW q \in Partitions \ Owned(c), NEW i, Holds(owner[q], <<q, i>>) \/ Keeps(owner[q], <<q, i>>)
       PROVE  Remains(owner[q], <<q, i>>)
  <2>1. owner[q] \in Consumers \ {c} BY <1>3 DEF GroupInv, GroupTypes
  <2>. QED BY <2>1, <1>4, <1>6, <1>11, Zenon DEF Holds, Keeps, Remains, Record
<1>12. /\ owner' \in [Partitions -> Consumers] /\ position' \in [Partitions -> Nat]
       /\ \A q \in Partitions : committed'[q] <= Len(log'[q]) /\ position'[q] <= Len(log'[q])
       /\ committed' \in [Partitions -> Nat] /\ CommittedInv' /\ PositionInv'
  BY <1>1, <1>2, <1>3, <1>11, AssignKeeps, Zenon
<1>13. member' \in [Consumers -> BOOLEAN] BY <1>1 DEF GroupInv, GroupTypes
<1>. QED BY <1>2, <1>4, <1>6, <1>8, <1>9, <1>10, <1>12, <1>13, Zenon DEF GroupInv, GroupTypes

-----------------------------------------------------------------------------
(* What takes effect, and dead letters *)

\* The records that are of no consequence as dead letters.
Spent == {d \in Recorded : \/ log[d[1]][d[2]] \in scene.poisoned
                           \/ scene.receiver = "provisioning" /\ Copy(log[d[1]][d[2]], d)}

LEMMA SpentGrows ==
    ASSUME BaseTypes, Forward
    PROVE  Spent \subseteq Spent'
<1>1. Recorded \subseteq Recorded' /\ \A d \in Recorded : log'[d[1]][d[2]] = log[d[1]][d[2]]
  BY RecordedGrows DEF Forward
<1>2. SUFFICES ASSUME NEW d \in Spent PROVE d \in Spent' OBVIOUS
<1>3. /\ d \in Recorded
      /\ \/ log[d[1]][d[2]] \in scene.poisoned
         \/ scene.receiver = "provisioning" /\ Copy(log[d[1]][d[2]], d)
  BY <1>2, Zenon DEF Spent
<1>4. d \in Recorded' /\ log'[d[1]][d[2]] = log[d[1]][d[2]] BY <1>1, <1>3
<1>5. CASE log[d[1]][d[2]] \in scene.poisoned BY <1>4, <1>5, Zenon DEF Spent, Forward
<1>6. CASE scene.receiver = "provisioning" /\ Copy(log[d[1]][d[2]], d)
  <2>1. Copy(log[d[1]][d[2]], d)' BY <1>4, <1>6, Zenon DEF Copy, Forward
  <2>. QED BY <1>4, <1>6, <2>1, Zenon DEF Spent, Forward
<1>. QED BY <1>3, <1>5, <1>6

LEMMA SpentRows == ASSUME DeadTypes PROVE DeadLettersAreSpent <=> DOMAIN dead \subseteq Spent
<1>1. \A d \in DOMAIN dead : d \in Recorded BY Zenon DEF DeadTypes
<1>. QED BY <1>1, Zenon DEF DeadLettersAreSpent, Spent

LEMMA SpentRowsAfter == ASSUME DeadTypes', DOMAIN dead' \subseteq Spent' PROVE DeadLettersAreSpent'
<1>1. \A d \in DOMAIN dead' : d \in Spent' OBVIOUS
<1>. QED BY <1>1, Zenon DEF DeadLettersAreSpent, Spent

LEMMA DeadKeeps ==
    ASSUME BaseTypes, DeadInv, Forward, UNCHANGED <<dead, replayVars>>
    PROVE  DeadInv'
<1>1. Recorded \subseteq Recorded' /\ Repeated \subseteq Repeated' BY RecordedGrows DEF Forward
<1>2. UNCHANGED <<dead, refused, replay, replays>> /\ scene' = scene BY Zenon DEF replayVars, Forward
<1>3. DeadTypes' BY <1>1, <1>2 DEF DeadInv, DeadTypes
<1>4. ReplayInv' BY <1>1, <1>2, Zenon DEF DeadInv, ReplayInv
<1>5. DOMAIN dead \subseteq Spent BY SpentRows DEF DeadInv
<1>6. DOMAIN dead' \subseteq Spent' BY <1>2, <1>5, SpentGrows
<1>7. DeadLettersAreSpent' BY <1>3, <1>6, SpentRowsAfter
<1>. QED BY <1>3, <1>4, <1>7 DEF DeadInv

LEMMA EffectsKeep ==
    ASSUME BaseTypes, InboxInv, AppliedInOrder, Forward, UNCHANGED inbox
    PROVE  InboxInv' /\ AppliedInOrder'
<1>1. Recorded \subseteq Recorded' BY RecordedGrows DEF Forward
<1>2. Applied' = Applied /\ scene' = scene BY Zenon DEF Applied, Forward
<1>3. InboxInv' BY <1>1, <1>2 DEF InboxInv, Events
<1>4. AppliedInOrder' BY <1>2, Zenon DEF AppliedInOrder, Gap, Sequenced
<1>. QED BY <1>3, <1>4

LEMMA VerdictFacts ==
    ASSUME BaseTypes, NEW e, NEW d
    PROVE  /\ VerdictOf(e, d) = "dead letter" =>
                  Malformed(e) \/ (scene.receiver = "provisioning" /\ Copy(e, d))
           /\ (VerdictOf(e, d) = "apply" /\ Sequenced(e[1]) /\ scene.receiver # "subscription") => ~Gap(e)
<1>1. scene.receiver \in {"access", "provisioning", "notification", "subscription"}
  BY SceneTypes DEF BaseTypes
<1>2. CASE scene.receiver = "access" BY <1>2 DEF VerdictOf, AccessVerdict
<1>3. CASE scene.receiver = "provisioning" BY <1>3 DEF VerdictOf, ProvisioningVerdict
<1>4. CASE scene.receiver = "notification" BY <1>4 DEF VerdictOf, NotificationVerdict
<1>5. CASE scene.receiver = "subscription" BY <1>5 DEF VerdictOf, SubscriptionVerdict
<1>. QED BY Zenon, <1>1, <1>2, <1>3, <1>4, <1>5

LEMMA InHand ==
    ASSUME BaseTypes, GroupInv, NEW c \in Consumers, hand[c] # <<>>
    PROVE  /\ Record(c) \in Recorded /\ log[Record(c)[1]][Record(c)[2]] = Event(c) /\ Event(c) \in Events
           /\ Verdict(Record(c)) = VerdictOf(Event(c), Record(c))
<1>1. Record(c) \in Recorded /\ Event(c) \in Events BY HandAt
<1>2. log[Record(c)[1]][Record(c)[2]] = Event(c) BY DEF Record, Event
<1>. QED BY <1>1, <1>2, Zenon DEF Verdict

\* The event takes effect.
LEMMA ProcessKeeps ==
    ASSUME BaseTypes, GroupInv, InboxInv, AppliedInOrder, NEW c \in Consumers, Process(c)
    PROVE  GroupInv' /\ Forward /\ InboxInv' /\ AppliedInOrder'
<1>. DEFINE e == Event(c)
            d == Record(c)
<1>0. /\ hand[c] # <<>> /\ Verdict(d) = "apply" /\ hand' = [hand EXCEPT ![c][1].stage = "handled"]
      /\ inbox' = IF e \in Applied THEN inbox ELSE Put(inbox, e, d)
      /\ UNCHANGED <<scene, log, committed, owner, position, deferred, member, dead>>
  BY Zenon DEF Process, Has, producerVars
<1>1. d \in Recorded /\ log[d[1]][d[2]] = e /\ e \in Events /\ VerdictOf(e, d) = "apply"
  BY <1>0, InHand
<1>. HIDE DEF e, d
<1>2. /\ Applied' = Applied \cup {e} /\ \A x \in Applied : inbox'[x] = inbox[x]
      /\ e \notin Applied => inbox'[e] = d
  <2>1. CASE e \in Applied BY Zenon, <1>0, <2>1 DEF Applied
  <2>2. CASE e \notin Applied BY <1>0, <2>2 DEF Applied, Put
  <2>. QED BY <2>1, <2>2
<1>3. LogGrows /\ Recorded' = Recorded /\ Repeated' = Repeated BY <1>0, LogStays
<1>4. Forward BY <1>0, <1>2, <1>3, Zenon DEF Forward
<1>5. d \in Settled' BY <1>0, <1>1, <1>2, <1>3 DEF Settled
<1>6. GroupInv' BY Zenon, <1>0, <1>4, <1>5, HandledKeeps DEF d
<1>7. InboxInv' BY <1>1, <1>2, <1>3 DEF InboxInv, Events
<1>8. AppliedInOrder'
  <2>1. SUFFICES ASSUME NEW x \in Applied', Sequenced(x[1])', scene'.receiver # "subscription" PROVE ~Gap(x)'
    BY Zenon DEF AppliedInOrder
  <2>2. Sequenced(x[1]) /\ scene.receiver # "subscription" BY <1>0, <2>1 DEF Sequenced
  <2>3. x \in Applied => ~Gap(x) BY <2>2, Zenon DEF AppliedInOrder
  <2>4. x = e => ~Gap(x) BY Zenon, <1>1, <2>2, VerdictFacts
  <2>5. ~Gap(x) BY <1>2, <2>1, <2>3, <2>4
  <2>. QED BY <1>2, <2>5, Zenon DEF Gap
<1>. QED BY <1>4, <1>6, <1>7, <1>8

\* The event is refused for good.
LEMMA RefusalKeeps ==
    ASSUME BaseTypes, GroupInv, DeadInv, NEW c \in Consumers, RecordDeadLetter(c)
    PROVE  GroupInv' /\ Forward /\ DeadInv'
<1>. DEFINE e == Event(c)
            d == Record(c)
<1>0. /\ hand[c] # <<>> /\ Verdict(d) = "dead letter" /\ hand' = [hand EXCEPT ![c][1].stage = "handled"]
      /\ dead' = IF d \in DOMAIN dead THEN dead ELSE Put(dead, d, "available")
      /\ UNCHANGED <<scene, log, committed, owner, position, deferred, member, inbox, refused, replay, replays>>
  BY Zenon DEF RecordDeadLetter, Has, producerVars, replayVars
<1>1. d \in Recorded /\ log[d[1]][d[2]] = e /\ VerdictOf(e, d) = "dead letter"
  BY Zenon, <1>0, InHand
<1>2. Malformed(e) \/ (scene.receiver = "provisioning" /\ Copy(e, d)) BY Zenon, <1>1, VerdictFacts
<1>. HIDE DEF e, d
<1>3. /\ DOMAIN dead' = DOMAIN dead \cup {d} /\ \A x \in DOMAIN dead : dead'[x] = dead[x]
      /\ d \notin DOMAIN dead => dead'[d] = "available"
  <2>1. CASE d \in DOMAIN dead BY Zenon, <1>0, <2>1
  <2>2. CASE d \notin DOMAIN dead BY Zenon, <1>0, <2>2 DEF Put
  <2>. QED BY <2>1, <2>2
<1>4. LogGrows /\ Recorded' = Recorded /\ Repeated' = Repeated BY Zenon, <1>0, LogStays
<1>5. Forward BY Zenon, <1>0, <1>3, <1>4 DEF Forward, Applied
<1>6. d \in Settled' BY Zenon, <1>1, <1>3, <1>4 DEF Settled
<1>7. GroupInv' BY Zenon, <1>0, <1>5, <1>6, HandledKeeps DEF d
<1>8. DeadTypes' BY Zenon, <1>0, <1>1, <1>3, <1>4 DEF DeadInv, DeadTypes
<1>9. ReplayInv'
  <2>1. ASSUME NEW x \in DOMAIN dead', dead'[x] = "replayed" PROVE x \in Repeated
    BY <1>3, <2>1 DEF DeadInv, ReplayInv
  <2>2. replay # <<>> => /\ replay[1].of \in DOMAIN dead' /\ dead'[replay[1].of] = "requested"
                         /\ replay[1].stage = "sent" => replay[1].of \in Repeated
    BY <1>3, Zenon DEF DeadInv, ReplayInv
  <2>. QED BY <1>0, <1>4, <2>1, <2>2, Zenon DEF ReplayInv
<1>10. d \in Spent
  <2>1. refused \in {scene.poisoned, {}} BY DEF DeadInv, DeadTypes
  <2>2. e \in scene.poisoned \/ (scene.receiver = "provisioning" /\ Copy(e, d)) BY <1>2, <2>1 DEF Malformed
  <2>. QED BY Zenon, <1>1, <2>2 DEF Spent
<1>11. DOMAIN dead \subseteq Spent BY SpentRows DEF DeadInv
<1>12. DOMAIN dead' \subseteq Spent' BY <1>3, <1>5, <1>10, <1>11, SpentGrows
<1>13. DeadLettersAreSpent' BY <1>8, <1>12, SpentRowsAfter
<1>. QED BY <1>5, <1>7, <1>8, <1>9, <1>13 DEF DeadInv

\* Steps of others leave the producer's promises alone.
LEMMA OutsideProducer ==
    ASSUME BaseTypes, ProducerInv, UNCHANGED producerVars, Kafka' = Kafka
    PROVE  ProducerInv'
<1>1. UNCHANGED <<scene, outbox, publisher>> BY Zenon DEF producerVars
<1>2. ProducerTypes' BY <1>1, Zenon DEF ProducerInv, ProducerTypes
<1>3. Existing' = Existing /\ Published' = Published BY <1>1, Zenon DEF Existing, Published
<1>4. InTurn' = InTurn BY <1>1, <1>3, Zenon DEF InTurn, Sequenced
<1>5. KafkaInv' BY <1>1, KafkaStays DEF ProducerInv
<1>6. RowsInv' BY <1>1, <1>3, Zenon DEF ProducerInv, RowsInv
<1>7. JobsInv' BY <1>1, <1>4, Zenon DEF ProducerInv, JobsInv
<1>. QED BY <1>2, <1>5, <1>6, <1>7 DEF ProducerInv

\* A row that changes its state.
LEMMA MarkKeeps ==
    ASSUME BaseTypes, DeadInv, NEW d \in DOMAIN dead, NEW state \in {"requested", "replayed"},
           dead' = [dead EXCEPT ![d] = state], UNCHANGED <<scene, log, inbox, refused>>
    PROVE  /\ Forward /\ Kafka' = Kafka /\ Recorded' = Recorded /\ Repeated' = Repeated
           /\ DOMAIN dead' = DOMAIN dead /\ dead'[d] = state /\ \A x \in DOMAIN dead \ {d} : dead'[x] = dead[x]
           /\ \A x \in DOMAIN dead' : x \in Recorded' /\ dead'[x] \in {"available", "requested", "replayed"}
           /\ DOMAIN dead' \subseteq Spent'
<1>1. LogGrows /\ Recorded' = Recorded /\ Kafka' = Kafka /\ Repeated' = Repeated BY LogStays
<1>2. DOMAIN dead' = DOMAIN dead /\ dead'[d] = state /\ \A x \in DOMAIN dead \ {d} : dead'[x] = dead[x]
  OBVIOUS
<1>3. Forward BY <1>1, <1>2 DEF Forward, Applied
<1>4. \A x \in DOMAIN dead : x \in Recorded /\ dead[x] \in {"available", "requested", "replayed"}
  BY DEF DeadInv, DeadTypes
<1>5. \A x \in DOMAIN dead' : x \in Recorded' /\ dead'[x] \in {"available", "requested", "replayed"}
  BY <1>1, <1>2, <1>4
<1>6. DOMAIN dead \subseteq Spent BY SpentRows DEF DeadInv
<1>7. DOMAIN dead' \subseteq Spent' BY <1>2, <1>3, <1>6, SpentGrows
<1>. QED BY <1>1, <1>2, <1>3, <1>5, <1>7

LEMMA RequestKeeps ==
    ASSUME BaseTypes, DeadInv, NEW d \in DOMAIN dead, RequestDeadLetterReplay(d)
    PROVE  DeadInv' /\ Forward /\ Kafka' = Kafka
<1>. DEFINE m == [of |-> d, stage |-> "requested"]
<1>0. /\ replays < scene.replays /\ dead' = [dead EXCEPT ![d] = "requested"]
      /\ replay' = <<m>> /\ replays' = replays + 1
      /\ UNCHANGED <<scene, log, inbox, refused>>
  BY Zenon DEF RequestDeadLetterReplay, producerVars, groupVars
<1>1. /\ Forward /\ Kafka' = Kafka /\ Repeated' = Repeated
      /\ DOMAIN dead' = DOMAIN dead /\ dead'[d] = "requested" /\ \A x \in DOMAIN dead \ {d} : dead'[x] = dead[x]
      /\ \A x \in DOMAIN dead' : x \in Recorded' /\ dead'[x] \in {"available", "requested", "replayed"}
      /\ DOMAIN dead' \subseteq Spent'
  BY Zenon, <1>0, MarkKeeps
<1>2. d \in Places
  <2>1. d \in Recorded BY DEF DeadInv, DeadTypes
  <2>2. d = <<d[1], d[2]>> /\ d[1] \in Partitions /\ d[2] \in 1..Len(log[d[1]]) BY <2>1, RecordedPlaces
  <2>. QED BY <2>2, LogLengths DEF Places
<1>3. m \in Commands BY Zenon, <1>2, CommandTypes
<1>4. m.of = d /\ m.stage = "requested" OBVIOUS
<1>. HIDE DEF m
<1>5. replay' \in AtMostOne(Commands) /\ replay'[1] = m BY <1>0, <1>3, OneThing
<1>6. replays' \in 0..scene'.replays /\ refused' \in {scene'.poisoned, {}}
  BY <1>0, SceneTypes DEF BaseTypes, DeadInv, DeadTypes
<1>7. DeadTypes' BY <1>1, <1>5, <1>6 DEF DeadTypes
<1>8. ASSUME NEW x \in DOMAIN dead', dead'[x] = "replayed" PROVE x \in Repeated'
  <2>1. x \in DOMAIN dead /\ dead[x] = "replayed" BY SMTT(30), <1>1, <1>8
  <2>. QED BY <1>1, <2>1, Zenon DEF DeadInv, ReplayInv
<1>9. replay'[1].of \in DOMAIN dead' /\ dead'[replay'[1].of] = "requested" /\ replay'[1].stage # "sent"
  BY <1>1, <1>4, <1>5
<1>10. ReplayInv' BY <1>8, <1>9, Zenon DEF ReplayInv
<1>11. DeadLettersAreSpent' BY <1>1, <1>7, SpentRowsAfter
<1>. QED BY <1>1, <1>7, <1>10, <1>11 DEF DeadInv

LEMMA CompleteReplayKeeps ==
    ASSUME BaseTypes, DeadInv, CompleteDeadLetterReplay
    PROVE  DeadInv' /\ Forward /\ Kafka' = Kafka
<1>. DEFINE d == replay[1].of
<1>0. /\ replay # <<>> /\ replay[1].stage = "sent" /\ dead' = [dead EXCEPT ![d] = "replayed"] /\ replay' = <<>>
      /\ UNCHANGED <<scene, log, inbox, refused, replays>>
  BY Zenon DEF CompleteDeadLetterReplay, producerVars, groupVars
<1>1. d \in DOMAIN dead /\ d \in Repeated BY <1>0, Zenon DEF DeadInv, ReplayInv
<1>. HIDE DEF d
<1>2. /\ Forward /\ Kafka' = Kafka /\ Repeated' = Repeated
      /\ DOMAIN dead' = DOMAIN dead /\ \A x \in DOMAIN dead \ {d} : dead'[x] = dead[x]
      /\ \A x \in DOMAIN dead' : x \in Recorded' /\ dead'[x] \in {"available", "requested", "replayed"}
      /\ DOMAIN dead' \subseteq Spent'
  BY Zenon, <1>0, <1>1, MarkKeeps
<1>3. replay' \in AtMostOne(Commands) BY <1>0, Nothing
<1>4. DeadTypes' BY <1>0, <1>2, <1>3 DEF DeadInv, DeadTypes
<1>5. ASSUME NEW x \in DOMAIN dead', dead'[x] = "replayed" PROVE x \in Repeated'
  <2>1. x = d \/ (x \in DOMAIN dead /\ dead[x] = "replayed") BY <1>2, <1>5
  <2>. QED BY <1>1, <1>2, <2>1, Zenon DEF DeadInv, ReplayInv
<1>6. ReplayInv' BY <1>0, <1>5, Zenon DEF ReplayInv
<1>7. DeadLettersAreSpent' BY <1>2, <1>4, SpentRowsAfter
<1>. QED BY <1>2, <1>4, <1>6, <1>7 DEF DeadInv

\* The retention job deletes rows of records that are in the log again.
LEMMA DeleteKeeps ==
    ASSUME BaseTypes, DeadInv, NEW d \in DOMAIN dead, DeleteReplayed(d)
    PROVE  DeadInv' /\ Forward /\ Kafka' = Kafka
<1>0. /\ dead[d] = "replayed" /\ dead' = Drop(dead, d)
      /\ UNCHANGED <<scene, log, inbox, refused, replay, replays>>
  BY Zenon DEF DeleteReplayed, producerVars, groupVars, replayVars
<1>1. DOMAIN dead' = DOMAIN dead \ {d} /\ \A x \in DOMAIN dead' : dead'[x] = dead[x] BY <1>0 DEF Drop
<1>2. LogGrows /\ Recorded' = Recorded /\ Kafka' = Kafka /\ Repeated' = Repeated BY <1>0, LogStays
<1>3. d \in Repeated BY <1>0, Zenon DEF DeadInv, ReplayInv
<1>4. Forward BY <1>0, <1>1, <1>2, <1>3 DEF Forward, Applied
<1>5. DeadTypes' BY <1>0, <1>1, <1>2 DEF DeadInv, DeadTypes
<1>6. ASSUME NEW x \in DOMAIN dead', dead'[x] = "replayed" PROVE x \in Repeated'
  BY <1>1, <1>2, <1>6 DEF DeadInv, ReplayInv
<1>7. replay # <<>> => /\ replay[1].of \in DOMAIN dead' /\ dead'[replay[1].of] = "requested"
                       /\ replay[1].stage = "sent" => replay[1].of \in Repeated
  <2>1. replay # <<>> => /\ replay[1].of \in DOMAIN dead /\ dead[replay[1].of] = "requested"
                         /\ replay[1].stage = "sent" => replay[1].of \in Repeated
    BY Zenon DEF DeadInv, ReplayInv
  <2>. QED BY <1>0, <1>1, <2>1
<1>8. ReplayInv' BY <1>0, <1>2, <1>6, <1>7, Zenon DEF ReplayInv
<1>9. DOMAIN dead \subseteq Spent BY SpentRows DEF DeadInv
<1>10. DOMAIN dead' \subseteq Spent' BY <1>1, <1>4, <1>9, SpentGrows
<1>11. DeadLettersAreSpent' BY <1>5, <1>10, SpentRowsAfter
<1>. QED BY <1>2, <1>4, <1>5, <1>8, <1>11 DEF DeadInv

LEMMA RepairKeeps ==
    ASSUME BaseTypes, DeadInv, Repair
    PROVE  DeadInv' /\ Forward /\ Kafka' = Kafka
<1>0. refused' = {} /\ UNCHANGED <<scene, log, inbox, dead, replay, replays>>
  BY Zenon DEF Repair, producerVars, groupVars
<1>1. Forward /\ Kafka' = Kafka /\ Recorded' = Recorded /\ Repeated' = Repeated BY <1>0, SameRecords, LogStays
<1>2. DeadTypes' BY <1>0, <1>1 DEF DeadInv, DeadTypes
<1>3. ReplayInv' BY <1>0, <1>1, Zenon DEF DeadInv, ReplayInv
<1>4. DOMAIN dead \subseteq Spent BY SpentRows DEF DeadInv
<1>5. DOMAIN dead' \subseteq Spent' BY <1>0, <1>1, <1>4, SpentGrows
<1>6. DeadLettersAreSpent' BY <1>2, <1>5, SpentRowsAfter
<1>. QED BY <1>1, <1>2, <1>3, <1>6 DEF DeadInv

\* The record of a dead letter is written again: nothing new is in Kafka.
LEMMA ResendEffect ==
    ASSUME BaseTypes, DeadInv, replay # <<>>, Resend, UNCHANGED <<scene, inbox, dead>>
    PROVE  Forward /\ Kafka' = Kafka /\ replay[1].of \in Repeated'
<1>. DEFINE d == replay[1].of
            e == log[d[1]][d[2]]
<1>0. log' = [log EXCEPT ![d[1]] = Append(@, e)] BY Zenon DEF Resend
<1>1. d \in DOMAIN dead BY Zenon DEF DeadInv, ReplayInv
<1>. HIDE DEF d
<1>2. d \in Recorded BY <1>1 DEF DeadInv, DeadTypes
<1>3. d = <<d[1], d[2]>> /\ d[1] \in Partitions /\ d[2] \in 1..Len(log[d[1]]) BY <1>2, RecordedPlaces
<1>4. e \in Events
  <2>1. log[d[1]] \in Seq(Events) BY <1>3, LogLengths
  <2>. QED BY <1>3, <2>1
<1>5. <<d[1], e>> \in Kafka BY <1>2 DEF Kafka
<1>. HIDE DEF e
<1>6. /\ LogGrows /\ Kafka' = Kafka \cup {<<d[1], e>>}
      /\ Len(log'[d[1]]) = Len(log[d[1]]) + 1 /\ log'[d[1]][Len(log[d[1]]) + 1] = e
  BY Zenon, <1>0, <1>3, <1>4, LogAppended
<1>7. Forward BY <1>6 DEF Forward, Applied
<1>8. d \in Recorded' /\ log'[d[1]][d[2]] = e
  BY <1>2, <1>6, RecordedGrows DEF e
<1>9. Len(log[d[1]]) + 1 \in d[2] + 1 .. Len(log'[d[1]]) BY <1>3, <1>6, LogLengths
<1>10. d \in Repeated' BY <1>6, <1>8, <1>9 DEF Repeated
<1>. QED BY <1>5, <1>6, <1>7, <1>10 DEF d

LEMMA RepublishKeeps ==
    ASSUME BaseTypes, DeadInv, Republish
    PROVE  DeadInv' /\ Forward /\ Kafka' = Kafka
<1>. DEFINE m == [replay[1] EXCEPT !.stage = "sent"]
<1>0. /\ replay # <<>> /\ Resend /\ replay' = <<m>>
      /\ UNCHANGED <<scene, inbox, dead, refused, replays>>
  BY Zenon DEF Republish, producerVars, groupVars
<1>1. Forward /\ Kafka' = Kafka /\ replay[1].of \in Repeated' BY <1>0, ResendEffect
<1>2. replay[1] \in Commands BY <1>0, TheThing DEF DeadInv, DeadTypes
<1>3. m \in Commands /\ m.of = replay[1].of /\ m.stage = "sent" BY <1>2, SentCommand
<1>. HIDE DEF m
<1>4. replay' \in AtMostOne(Commands) /\ replay'[1] = m BY <1>0, <1>3, OneThing
<1>5. Recorded \subseteq Recorded' /\ Repeated \subseteq Repeated' BY <1>1, RecordedGrows DEF Forward
<1>6. DeadTypes' BY <1>0, <1>4, <1>5 DEF DeadInv, DeadTypes
<1>7. \A x \in DOMAIN dead : dead[x] = "replayed" => x \in Repeated' BY <1>5 DEF DeadInv, ReplayInv
<1>8. replay[1].of \in DOMAIN dead /\ dead[replay[1].of] = "requested" BY <1>0, Zenon DEF DeadInv, ReplayInv
<1>9. ReplayInv' BY <1>0, <1>1, <1>3, <1>4, <1>7, <1>8, Zenon DEF ReplayInv
<1>10. DOMAIN dead \subseteq Spent BY SpentRows DEF DeadInv
<1>11. DOMAIN dead' \subseteq Spent' BY <1>0, <1>1, <1>10, SpentGrows
<1>12. DeadLettersAreSpent' BY <1>6, <1>11, SpentRowsAfter
<1>. QED BY <1>1, <1>6, <1>9, <1>12 DEF DeadInv

LEMMA ReplayStopsKeeps ==
    ASSUME BaseTypes, DeadInv, ReplayStops
    PROVE  DeadInv' /\ Forward /\ Kafka' = Kafka
<1>0. /\ replay # <<>> /\ (UNCHANGED log \/ Resend) /\ replay' = <<>>
      /\ UNCHANGED <<scene, inbox, dead, refused, replays>>
  BY Zenon DEF ReplayStops, producerVars, groupVars
<1>1. Forward /\ Kafka' = Kafka
  <2>1. CASE UNCHANGED log BY <1>0, <2>1, SameRecords, LogStays
  <2>2. CASE Resend BY <1>0, <2>2, ResendEffect
  <2>. QED BY <1>0, <2>1, <2>2
<1>2. Recorded \subseteq Recorded' /\ Repeated \subseteq Repeated' BY <1>1, RecordedGrows DEF Forward
<1>3. replay' \in AtMostOne(Commands) BY <1>0, Nothing
<1>4. DeadTypes' BY <1>0, <1>2, <1>3 DEF DeadInv, DeadTypes
<1>5. \A x \in DOMAIN dead : dead[x] = "replayed" => x \in Repeated' BY <1>2 DEF DeadInv, ReplayInv
<1>6. ReplayInv' BY <1>0, <1>5, Zenon DEF ReplayInv
<1>7. DOMAIN dead \subseteq Spent BY SpentRows DEF DeadInv
<1>8. DOMAIN dead' \subseteq Spent' BY <1>0, <1>1, <1>7, SpentGrows
<1>9. DeadLettersAreSpent' BY <1>4, <1>8, SpentRowsAfter
<1>. QED BY <1>1, <1>4, <1>6, <1>9 DEF DeadInv

-----------------------------------------------------------------------------
(* The invariant *)

\* Steps spend the budget for faults, and no more.
Budgeted == Fault \/ UNCHANGED faults

LEMMA BaseKeeps ==
    ASSUME BaseTypes, Forward, Budgeted
    PROVE  BaseTypes'
<1>1. scene' = scene /\ log' \in [Partitions -> Seq(Events)] BY DEF Forward, LogGrows
<1>2. scene.faults \in Nat BY SceneTypes DEF BaseTypes
<1>3. faults' \in 0..scene.faults BY <1>2 DEF Budgeted, Fault, BaseTypes
<1>. QED BY <1>1, <1>3 DEF BaseTypes, Events

LEMMA EmitStep ==
    ASSUME PipelineInv, \E a \in Aggregates, p \in Partitions : Emit(a, p)
    PROVE  ProducerInv' /\ LogGrows /\ scene' = scene /\ UNCHANGED consumerVars /\ Budgeted
<1>1. PICK a \in Aggregates, p \in Partitions : Emit(a, p) OBVIOUS
<1>2. ProducerInv' /\ LogGrows BY <1>1, EmitKeeps DEF PipelineInv
<1>. QED BY <1>1, <1>2, Zenon DEF Emit, Budgeted

LEMMA PublisherSteps ==
    ASSUME PipelineInv, NEW w \in Publishers, PublisherStep(w)
    PROVE  ProducerInv' /\ LogGrows /\ scene' = scene /\ UNCHANGED consumerVars /\ Budgeted
<1>0. BaseTypes /\ ProducerInv BY DEF PipelineInv
<1>1. CASE Claims(w)
  <2>1. PICK a \in Aggregates : \E n \in DOMAIN outbox[a] : ClaimOutbox(w, a, n) BY <1>1, Zenon DEF Claims
  <2>2. PICK n \in DOMAIN outbox[a] : ClaimOutbox(w, a, n) BY <2>1
  <2>3. ProducerInv' /\ LogGrows BY <1>0, <2>2, ClaimKeeps, Zenon
  <2>. QED BY <2>2, <2>3, Zenon DEF ClaimOutbox, Budgeted
<1>2. CASE Publish(w) BY <1>0, <1>2, PublishKeeps, Zenon DEF Publish, Budgeted
<1>3. CASE PublishFails(w) BY <1>0, <1>3, PublishKeeps, Zenon DEF PublishFails, Budgeted
<1>4. CASE CompleteOutbox(w) \/ RetryOutbox(w)
  BY <1>0, <1>4, SettleKeeps, Zenon DEF CompleteOutbox, RetryOutbox, Settle, Budgeted
<1>5. CASE PublisherStops(w) BY <1>0, <1>5, StopsKeeps, Zenon DEF PublisherStops, Budgeted
<1>. QED BY <1>1, <1>2, <1>3, <1>4, <1>5, Zenon DEF PublisherStep

\* The producer and the group are independent but for the log.
LEMMA ProducerStepKeeps ==
    ASSUME PipelineInv, ProducerInv', LogGrows, scene' = scene, UNCHANGED consumerVars, Budgeted
    PROVE  PipelineInv'
<1>1. UNCHANGED <<groupVars, dead, replayVars>> /\ UNCHANGED inbox BY Zenon DEF consumerVars, groupVars
<1>2. Forward BY <1>1 DEF Forward, Applied
<1>3. GroupInv' BY <1>1, <1>2, OutsideGroup DEF PipelineInv
<1>4. DeadInv' BY <1>1, <1>2, DeadKeeps DEF PipelineInv
<1>5. InboxInv' /\ AppliedInOrder' BY <1>1, <1>2, EffectsKeep DEF PipelineInv
<1>6. BaseTypes' BY <1>2, BaseKeeps DEF PipelineInv
<1>. QED BY <1>3, <1>4, <1>5, <1>6 DEF PipelineInv

\* A step of the group that touches neither inbox nor dead letters.
LEMMA GroupStepKeeps ==
    ASSUME PipelineInv, GroupInv', Forward, UNCHANGED <<producerVars, log, inbox, dead, replayVars>>, Budgeted
    PROVE  PipelineInv'
<1>1. Kafka' = Kafka BY LogStays DEF PipelineInv
<1>2. ProducerInv' BY <1>1, OutsideProducer DEF PipelineInv
<1>3. DeadInv' BY DeadKeeps DEF PipelineInv
<1>4. InboxInv' /\ AppliedInOrder' BY EffectsKeep DEF PipelineInv
<1>5. BaseTypes' BY BaseKeeps DEF PipelineInv
<1>. QED BY <1>2, <1>3, <1>4, <1>5 DEF PipelineInv

LEMMA ConsumerKeeps ==
    ASSUME PipelineInv, NEW c \in Consumers, ConsumerStep(c)
    PROVE  PipelineInv'
<1>0. BaseTypes /\ GroupInv /\ ProducerInv /\ InboxInv /\ DeadInv /\ AppliedInOrder BY DEF PipelineInv
<1>1. CASE \E p \in Partitions : Poll(c, p)
  <2>1. PICK p \in Partitions : Poll(c, p) BY <1>1
  <2>2. GroupInv' /\ Forward BY <1>0, <2>1, PollKeeps
  <2>3. UNCHANGED <<producerVars, log, inbox, dead, replayVars>> /\ Budgeted BY <2>1, Zenon DEF Poll, Budgeted
  <2>. QED BY <2>2, <2>3, GroupStepKeeps
<1>2. CASE \E p \in Partitions : RetryDeferred(c, p)
  <2>1. PICK p \in Partitions : RetryDeferred(c, p) BY <1>2
  <2>2. GroupInv' /\ Forward BY <1>0, <2>1, RetryKeeps
  <2>3. UNCHANGED <<producerVars, log, inbox, dead, replayVars>> /\ Budgeted
    BY <2>1, Zenon DEF RetryDeferred, Budgeted
  <2>. QED BY <2>2, <2>3, GroupStepKeeps
<1>3. CASE DeferGap(c)
  <2>1. GroupInv' /\ Forward BY <1>0, <1>3, DeferKeeps
  <2>2. UNCHANGED <<producerVars, log, inbox, dead, replayVars>> /\ Budgeted BY <1>3, Zenon DEF DeferGap, Budgeted
  <2>. QED BY <2>1, <2>2, GroupStepKeeps
<1>4. CASE Fails(c)
  <2>1. GroupInv' /\ Forward BY <1>0, <1>4, FailsKeeps
  <2>2. UNCHANGED <<producerVars, log, inbox, dead, replayVars>> /\ Budgeted BY <1>4, Zenon DEF Fails, Budgeted
  <2>. QED BY <2>1, <2>2, GroupStepKeeps
<1>5. CASE Commit(c)
  <2>1. GroupInv' /\ Forward BY <1>0, <1>5, CommitKeeps
  <2>2. UNCHANGED <<producerVars, log, inbox, dead, replayVars>> /\ Budgeted BY <1>5, Zenon DEF Commit, Budgeted
  <2>. QED BY <2>1, <2>2, GroupStepKeeps
<1>6. CASE Process(c)
  <2>1. GroupInv' /\ Forward /\ InboxInv' /\ AppliedInOrder' BY <1>0, <1>6, ProcessKeeps
  <2>2. UNCHANGED <<producerVars, log, dead, replayVars>> /\ Budgeted BY <1>6, Zenon DEF Process, Budgeted
  <2>3. Kafka' = Kafka BY <1>0, <2>2, LogStays
  <2>4. ProducerInv' BY <1>0, <2>2, <2>3, OutsideProducer
  <2>5. DeadInv' BY <1>0, <2>1, <2>2, DeadKeeps
  <2>6. BaseTypes' BY <1>0, <2>1, <2>2, BaseKeeps
  <2>. QED BY <2>1, <2>4, <2>5, <2>6 DEF PipelineInv
<1>7. CASE RecordDeadLetter(c)
  <2>1. GroupInv' /\ Forward /\ DeadInv' BY <1>0, <1>7, RefusalKeeps
  <2>2. UNCHANGED <<producerVars, log, inbox>> /\ Budgeted BY <1>7, Zenon DEF RecordDeadLetter, Budgeted
  <2>3. Kafka' = Kafka BY <1>0, <2>2, LogStays
  <2>4. ProducerInv' BY <1>0, <2>2, <2>3, OutsideProducer
  <2>5. InboxInv' /\ AppliedInOrder' BY <1>0, <2>1, <2>2, EffectsKeep
  <2>6. BaseTypes' BY <1>0, <2>1, <2>2, BaseKeeps
  <2>. QED BY <2>1, <2>4, <2>5, <2>6 DEF PipelineInv
<1>. QED BY <1>1, <1>2, <1>3, <1>4, <1>5, <1>6, <1>7, Zenon DEF ConsumerStep

LEMMA GroupKeeps ==
    ASSUME PipelineInv, GroupStep
    PROVE  PipelineInv'
<1>0. BaseTypes /\ GroupInv BY DEF PipelineInv
<1>1. CASE \E c \in Consumers, p \in Partitions : Rebalance(p, c)
  <2>1. PICK c \in Consumers, p \in Partitions : Rebalance(p, c) BY <1>1
  <2>2. GroupInv' /\ Forward BY <1>0, <2>1, RebalanceKeeps
  <2>3. UNCHANGED <<producerVars, log, inbox, dead, replayVars>> /\ Budgeted BY <2>1, Zenon DEF Rebalance, Budgeted
  <2>. QED BY <2>2, <2>3, GroupStepKeeps
<1>2. CASE \E c, d \in Consumers : Expel(c, d)
  <2>1. PICK c \in Consumers, d \in Consumers : Expel(c, d) BY <1>2
  <2>2. GroupInv' /\ Forward BY <1>0, <2>1, ExpelKeeps
  <2>3. UNCHANGED <<producerVars, log, inbox, dead, replayVars>> /\ Budgeted BY <2>1, Zenon DEF Expel, Budgeted
  <2>. QED BY <2>2, <2>3, GroupStepKeeps
<1>3. CASE \E c, d \in Consumers : Crash(c, d)
  <2>1. PICK c \in Consumers, d \in Consumers : Crash(c, d) BY <1>3
  <2>2. GroupInv' /\ Forward BY <1>0, <2>1, CrashKeeps
  <2>3. UNCHANGED <<producerVars, log, inbox, dead, replayVars>> /\ Budgeted BY <2>1, Zenon DEF Crash, Budgeted
  <2>. QED BY <2>2, <2>3, GroupStepKeeps
<1>4. CASE \E c \in Consumers : Rejoin(c)
  <2>1. PICK c \in Consumers : Rejoin(c) BY <1>4
  <2>2. GroupInv' /\ Forward BY <1>0, <2>1, RejoinKeeps
  <2>3. UNCHANGED <<producerVars, log, inbox, dead, replayVars>> /\ Budgeted BY <2>1, Zenon DEF Rejoin, Budgeted
  <2>. QED BY <2>2, <2>3, GroupStepKeeps
<1>. QED BY <1>1, <1>2, <1>3, <1>4, Zenon DEF GroupStep

LEMMA DeadLetterKeeps ==
    ASSUME PipelineInv, DeadLetterStep
    PROVE  PipelineInv'
<1>0. BaseTypes /\ DeadInv BY DEF PipelineInv
<1>1. DeadInv' /\ Forward /\ Kafka' = Kafka
  BY <1>0, RepairKeeps, RepublishKeeps, CompleteReplayKeeps, ReplayStopsKeeps, RequestKeeps, DeleteKeeps, Zenon
     DEF DeadLetterStep
<1>2. UNCHANGED <<producerVars, groupVars>> /\ Budgeted
  BY Zenon DEF DeadLetterStep, Repair, Republish, CompleteDeadLetterReplay, ReplayStops, RequestDeadLetterReplay,
               DeleteReplayed, Budgeted
<1>3. UNCHANGED inbox BY <1>2, Zenon DEF groupVars
<1>4. ProducerInv' BY <1>1, <1>2, OutsideProducer DEF PipelineInv
<1>5. GroupInv' BY <1>1, <1>2, OutsideGroup DEF PipelineInv
<1>6. InboxInv' /\ AppliedInOrder' BY <1>1, <1>3, EffectsKeep DEF PipelineInv
<1>7. BaseTypes' BY <1>0, <1>1, <1>2, BaseKeeps
<1>. QED BY <1>1, <1>4, <1>5, <1>6, <1>7 DEF PipelineInv

LEMMA PipelineStep == PipelineInv /\ [Next]_vars => PipelineInv'
<1>0. SUFFICES ASSUME PipelineInv, [Next]_vars PROVE PipelineInv' OBVIOUS
<1>1. CASE UNCHANGED vars
  <2>1. /\ UNCHANGED <<scene, log, inbox, dead, producerVars, groupVars, replayVars>> /\ UNCHANGED consumerVars
        /\ UNCHANGED faults
    BY <1>1, Zenon DEF vars, producerVars, groupVars, replayVars, consumerVars
  <2>2. Kafka' = Kafka /\ LogGrows BY <1>0, <2>1, LogStays DEF PipelineInv
  <2>3. ProducerInv' BY <1>0, <2>1, <2>2, OutsideProducer DEF PipelineInv
  <2>. QED BY <1>0, <2>1, <2>2, <2>3, ProducerStepKeeps DEF Budgeted
<1>2. CASE \E a \in Aggregates, p \in Partitions : Emit(a, p) BY <1>0, <1>2, EmitStep, ProducerStepKeeps, Zenon
<1>3. CASE \E w \in Publishers : PublisherStep(w) BY <1>0, <1>3, PublisherSteps, ProducerStepKeeps, Zenon
<1>4. CASE \E c \in Consumers : ConsumerStep(c) BY <1>0, <1>4, ConsumerKeeps, Zenon
<1>5. CASE GroupStep BY <1>0, <1>5, GroupKeeps
<1>6. CASE DeadLetterStep BY <1>0, <1>6, DeadLetterKeeps
<1>. QED BY <1>0, <1>1, <1>2, <1>3, <1>4, <1>5, <1>6, Zenon DEF Next

LEMMA PipelineInit == Init => PipelineInv
<1>0. SUFFICES ASSUME Init PROVE PipelineInv OBVIOUS
<1>1. /\ scene \in Scenes /\ outbox = [a \in Aggregates |-> <<>>] /\ publisher = [w \in Publishers |-> <<>>]
      /\ log = [p \in Partitions |-> <<>>] /\ committed = [p \in Partitions |-> 0]
      /\ position = [p \in Partitions |-> 0] /\ hand = [c \in Consumers |-> <<>>]
      /\ deferred = [c \in Consumers |-> <<>>] /\ member = [c \in Consumers |-> c \in scene.group]
      /\ inbox = <<>> /\ dead = <<>> /\ refused = scene.poisoned /\ replay = <<>> /\ replays = 0 /\ faults = 0
  BY <1>0, Zenon DEF Init
<1>2. /\ MaxSequence \in Nat /\ scene.faults \in Nat /\ scene.replays \in Nat /\ scene.group \subseteq Consumers
  BY <1>1, SceneTypes
<1>3. DOMAIN inbox = {} /\ DOMAIN dead = {} BY <1>1
<1>4. \A p \in Partitions : Len(log[p]) = 0 /\ log[p] = <<>> BY <1>1
<1>5. Recorded = {} BY <1>4, RecordedPlaces
<1>6. Kafka = {} BY <1>5, Zenon DEF Kafka
<1>7. \A a \in Aggregates : outbox[a] = <<>> /\ Len(outbox[a]) = 0 /\ DOMAIN outbox[a] = {} BY <1>1
<1>8. Published = {} BY <1>7 DEF Existing, Published, Events
<1>9. BaseTypes
  <2>1. log \in [Partitions -> Seq(Events)] BY <1>1
  <2>. QED BY <1>1, <1>2, <2>1 DEF BaseTypes
<1>10. ProducerInv
  <2>1. outbox \in [Aggregates -> Seq(Rows)] /\ \A a \in Aggregates : Len(outbox[a]) <= MaxSequence
    BY <1>1, <1>2, <1>7
  <2>2. publisher \in [Publishers -> AtMostOne(Jobs)] /\ \A w \in Publishers : publisher[w] = <<>>
    BY <1>1, Nothing
  <2>3. ProducerTypes BY <2>1, <2>2 DEF ProducerTypes
  <2>4. KafkaInv BY <1>6, Zenon DEF KafkaInv
  <2>5. RowsInv BY <1>8, Zenon DEF RowsInv
  <2>6. JobsInv BY <2>2, Zenon DEF JobsInv
  <2>. QED BY <2>3, <2>4, <2>5, <2>6 DEF ProducerInv
<1>11. GroupInv
  <2>1. PICK c \in scene.group : owner = [p \in Partitions |-> c] BY <1>0, Zenon DEF Init
  <2>2. owner \in [Partitions -> Consumers] BY <1>2, <2>1
  <2>3. member \in [Consumers -> BOOLEAN] BY <1>1
  <2>4. hand \in [Consumers -> AtMostOne(Taken)] /\ \A x \in Consumers : hand[x] = <<>> BY <1>1, Nothing
  <2>5. DOMAIN deferred = Consumers /\ \A x \in Consumers : DOMAIN deferred[x] = {} BY <1>1
  <2>6. /\ committed \in [Partitions -> Nat] /\ position \in [Partitions -> Nat]
        /\ \A p \in Partitions : committed[p] = 0 /\ position[p] = 0
        /\ \A p \in Partitions : committed[p] <= Len(log[p]) /\ position[p] <= Len(log[p])
    BY <1>1, <1>4
  <2>7. GroupTypes BY <2>2, <2>3, <2>4, <2>5, <2>6 DEF GroupTypes
  <2>8. \A p \in Partitions : 1..committed[p] = {} /\ 1..position[p] = {} BY <2>6
  <2>9. CommittedInv /\ PositionInv BY <2>8, Zenon DEF CommittedInv, PositionInv
  <2>10. HandInv BY <2>4, Zenon DEF HandInv
  <2>11. DeferredInv BY <2>5, Zenon DEF DeferredInv
  <2>. QED BY <2>7, <2>9, <2>10, <2>11 DEF GroupInv
<1>12. InboxInv /\ AppliedInOrder BY <1>3 DEF InboxInv, AppliedInOrder, Applied
<1>13. DeadInv
  <2>1. DeadTypes BY <1>1, <1>2, <1>3, Nothing DEF DeadTypes
  <2>2. ReplayInv BY <1>1, <1>3, Zenon DEF ReplayInv
  <2>3. DeadLettersAreSpent BY <1>3, Zenon DEF DeadLettersAreSpent
  <2>. QED BY <2>1, <2>2, <2>3 DEF DeadInv
<1>. QED BY <1>9, <1>10, <1>11, <1>12, <1>13 DEF PipelineInv

LEMMA PipelineInvariant == Spec => []PipelineInv
BY PipelineInit, PipelineStep, PTL DEF Spec

LEMMA PublishedFollows == PipelineInv => PublishedInOrder
<1>0. SUFFICES ASSUME PipelineInv PROVE PublishedInOrder OBVIOUS
<1>1. BaseTypes /\ KafkaInv /\ RowsInv /\ ProducerTypes BY <1>0 DEF PipelineInv, ProducerInv
<1>2. \A q, e : <<q, e>> \in Kafka => \E j \in DOMAIN log[q] : log[q][j] = e
  <2>1. SUFFICES ASSUME NEW q, NEW e, <<q, e>> \in Kafka PROVE \E j \in DOMAIN log[q] : log[q][j] = e OBVIOUS
  <2>2. PICK d \in Recorded : <<q, e>> = <<d[1], log[d[1]][d[2]]>> BY <2>1, Zenon DEF Kafka
  <2>3. d[1] = q /\ log[q][d[2]] = e BY <2>2
  <2>4. d[2] \in DOMAIN log[q] BY <1>1, <2>3, RecordedPlaces, LogLengths
  <2>. QED BY <2>3, <2>4
<1>3. ASSUME NEW p \in Partitions, NEW i \in DOMAIN log[p], Sequenced(log[p][i][1]), NEW n \in 1 .. log[p][i][2]
      PROVE  \E q \in Partitions : \E j \in DOMAIN log[q] : log[q][j] = <<log[p][i][1], n>>
  <2>1. <<p, i>> \in Recorded BY <1>1, LogLengths, RecordedPairs
  <2>2. <<p, log[p][i]>> \in Kafka
    <3>1. <<p, i>>[1] = p /\ <<p, i>>[2] = i OBVIOUS
    <3>. QED BY <2>1, <3>1 DEF Kafka
  <2>. DEFINE k == <<p, log[p][i]>>
  <2>3. k[2] = log[p][i] OBVIOUS
  <2>. HIDE DEF k
  <2>4. \E q \in Partitions : <<q, <<k[2][1], n>>>> \in Kafka
    BY <1>1, <1>3, <2>2, <2>3 DEF KafkaInv, k
  <2>. QED BY <1>2, <2>3, <2>4, ZenonT(30)
<1>4. ASSUME NEW a \in Aggregates, NEW n \in DOMAIN outbox[a], outbox[a][n].state = "published"
      PROVE  \E i \in DOMAIN log[outbox[a][n].part] : log[outbox[a][n].part][i] = <<a, n>>
  <2>1. outbox[a] \in Seq(Rows) /\ Len(outbox[a]) <= MaxSequence /\ MaxSequence \in Nat
    BY <1>1, SceneTypes DEF ProducerTypes, BaseTypes
  <2>2. <<a, n>> \in Events BY <2>1 DEF Events
  <2>. DEFINE e == <<a, n>>
  <2>3. e[1] = a /\ e[2] = n OBVIOUS
  <2>. HIDE DEF e
  <2>4. e \in Published BY <1>4, <2>2, <2>3 DEF Published, Existing, e
  <2>5. <<outbox[a][n].part, e>> \in Kafka BY <1>1, <2>3, <2>4 DEF RowsInv
  <2>. QED BY <1>2, <2>5 DEF e
<1>. QED BY <1>3, <1>4, Zenon DEF PublishedInOrder

\* The outbox tells the truth, for every number of aggregates, partitions,
\* publishers and faults: the events of an aggregate first reach Kafka in their
\* order (the publication barrier in ClaimOutbox), and a row marked published
\* was written, although CompleteOutbox and RetryOutbox match the row of another
\* attempt once a lease has lapsed.
THEOREM PublishedInvariant == Spec => []PublishedInOrder
BY PipelineInvariant, PublishedFollows, PTL

LEMMA TypesFollow == PipelineInv => TypeOK
<1>0. SUFFICES ASSUME PipelineInv PROVE TypeOK OBVIOUS
<1>1. BaseTypes /\ ProducerTypes /\ GroupTypes /\ DeferredInv /\ InboxInv /\ DeadTypes /\ ReplayInv
  BY <1>0 DEF PipelineInv, ProducerInv, GroupInv, DeadInv
<1>2. \A a \in Aggregates : outbox[a] \in Seq(Rows) BY <1>1 DEF ProducerTypes
<1>3. \A w \in Publishers : publisher[w] = <<>> \/ publisher[w][1] \in Jobs BY <1>1, TheThing, Zenon DEF ProducerTypes
<1>4. \A p \in Partitions : Len(log[p]) \in Nat /\ DOMAIN log[p] = 1..Len(log[p]) /\ log[p] \in Seq(Events)
  BY <1>1, LogLengths
<1>5. \A p \in Partitions : {committed[p], position[p]} \subseteq 0..Len(log[p]) BY <1>1, <1>4 DEF GroupTypes
<1>6. \A c \in Consumers : hand[c] = <<>> \/ hand[c][1] \in Taken BY <1>1, TheThing, Zenon DEF GroupTypes
<1>7. \A c \in Consumers : \A p \in DOMAIN deferred[c] : deferred[c][p] \in 1..Len(log[p])
  BY Zenon, <1>1, RecordedPairs DEF DeferredInv, Ready
<1>8. \A d \in Recorded : d[2] \in DOMAIN log[d[1]] BY <1>4, RecordedPlaces
<1>9. \A d \in DOMAIN dead \cup {inbox[e] : e \in Applied} : d[2] \in DOMAIN log[d[1]]
  BY <1>1, <1>8 DEF DeadTypes, InboxInv
<1>10. replay = <<>> \/ replay[1] \in [of : DOMAIN dead, stage : {"requested", "sent"}]
  <2>1. SUFFICES ASSUME replay # <<>> PROVE replay[1] \in [of : DOMAIN dead, stage : {"requested", "sent"}]
    OBVIOUS
  <2>2. replay[1] \in Commands /\ replay[1].of \in DOMAIN dead
    BY <1>1, <2>1, TheThing, Zenon DEF DeadTypes, ReplayInv
  <2>. QED BY <2>2 DEF Commands
<1>. QED BY <1>1, <1>2, <1>3, <1>4, <1>5, <1>6, <1>7, <1>9, <1>10, Zenon
         DEF TypeOK, BaseTypes, GroupTypes, InboxInv, DeadTypes, Events, Jobs

LEMMA NothingSkippedFollows == PipelineInv => NothingSkipped
<1>0. SUFFICES ASSUME PipelineInv, NEW p \in Partitions, NEW i \in 1..committed[p]
               PROVE  \/ log[p][i] \in Applied \/ <<p, i>> \in DOMAIN dead
                      \/ \E j \in i + 1 .. Len(log[p]) : log[p][j] = log[p][i]
  BY Zenon DEF NothingSkipped
<1>. DEFINE d == <<p, i>>
<1>1. d \in Settled BY <1>0 DEF PipelineInv, GroupInv, CommittedInv
<1>2. d[1] = p /\ d[2] = i OBVIOUS
<1>. HIDE DEF d
<1>3. log[p][i] \in Applied \/ d \in DOMAIN dead \/ d \in Repeated BY <1>1, <1>2 DEF Settled
<1>4. d \in Repeated => \E j \in i + 1 .. Len(log[p]) : log[p][j] = log[p][i] BY <1>2 DEF Repeated
<1>. QED BY <1>3, <1>4 DEF d

\* What a consumer group is done with took effect in order or is a dead letter of
\* no consequence, for every number of aggregates, partitions, consumers, replays
\* and faults: whatever pollOnce, retryDeferred, rebalances, restarts, late
\* commits of a former owner and runReplay do.
THEOREM ConsumedInvariant == Spec => []ConsumedInOrder
<1>1. PipelineInv => ConsumedInOrder
  BY TypesFollow, NothingSkippedFollows DEF ConsumedInOrder, PipelineInv, DeadInv
<1>. QED BY PipelineInvariant, <1>1, PTL
=============================================================================
