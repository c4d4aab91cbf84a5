--------------------------- MODULE SequentialProofs ---------------------------
(***************************************************************************)
(* Theorems about the parts one thread uses: InfluxLink, for any tags and  *)
(* fields and any number of commits; Configuration, for any number of      *)
(* configurations and initialisations; Histogram, for any numbers of bins, *)
(* bounds, widths and values; UpperMatrix, for any labels and any number   *)
(* of them; MqttMessages, for any topics, subscribers and contents.  What  *)
(* the last three add up or loop over is finite: the lemmas about sums and *)
(* loops take a smallest counterexample.                                   *)
(***************************************************************************)
EXTENDS InfluxLink, Configuration, Histogram, UpperMatrix, MqttMessages,
        FiniteSetTheorems, SequenceTheorems, WellFoundedInduction, TLAPS

\* What is streamed into m_tags: a tag, or what a commit appends.
TagItems == [tag : Tags]
FieldItems == [fields : Seq(Fields), timestamp : Nat]

\* A line whose only group of fields is the first that was appended, the last
\* of it, with what the entry has or had then.
FirstLine(line) ==
    /\ line \in Seq(TagItems \cup FieldItems) /\ line # <<>>
    /\ IsPrefix(line, m_tags)
    /\ Last(line) \in FieldItems /\ IsPrefix(Last(line).fields, m_fields)
    /\ Last(line).timestamp = 0

\* A line that a later commit sends has the fields of an earlier one inside.
LaterLine(line) == \E i \in 1..Len(line) - 1 : line[i] \notin TagItems

Unsent == stage \in {"resolve", "connect", "handshake", "write"}

EntryOK ==
    /\ m_tags \in Seq(TagItems \cup FieldItems)
    /\ m_fields \in Seq(Fields)
    /\ commits \in Nat /\ number = commits
    /\ commits = 0 => \A i \in 1..Len(m_tags) : m_tags[i] \in TagItems
    /\ commits > 0 => \E i \in 1..Len(m_tags) : m_tags[i] \notin TagItems

\* What is on its way, of which only the first request can be written.
LinesOK ==
    /\ commits = 0 => ~Unsent
    /\ Unsent /\ number = 1 => FirstLine(body)
    /\ Unsent /\ number > 1 => LaterLine(body)
    /\ \A r \in arriving :
        /\ r = [number |-> r.number, body |-> r.body]
        /\ r.number \in 1..number
        /\ r.number = 1 => FirstLine(r.body)
        /\ r.number > 1 => LaterLine(r.body)

OnceOK ==
    /\ \A r \in arriving : r.number = 1 => database = <<>>
    /\ \A r, s \in arriving : r.number = s.number => r = s
    /\ Unsent => \A r \in arriving : r.number # number
    /\ Unsent /\ number = 1 => database = <<>>
    /\ number = 0 => database = <<>>

WrittenOK ==
    /\ database = <<>> \/ (database = <<database[1]>> /\ FirstLine(database[1]))
    /\ reply = "no_content" \/ outcome = "no_content" \/ result = "true" => database # <<>>

EntryInv == EntryOK /\ LinesOK /\ OnceOK /\ WrittenOK

-------------------------------------------------------------------------------
\* The initialisations whose options are stored.
Committed == {i \in Opened : done[i] > 0}

OptionsOK ==
    /\ Opened \in {1..n : n \in 0..MaxSetups}
    /\ initialisations \in [Opened -> Configs]
    /\ stored \in [Configs -> SUBSET Ids] /\ notified \in [Configs -> SUBSET Ids]
    /\ done \in [Ids -> Nat] /\ s_instances \in Int
    /\ \A i \in Ids \ Opened : done[i] = 0
    /\ \A c \in Configs : stored[c] = {i \in Committed : initialisations[i] = c}

Counted == (\A i \in Opened : done[i] <= 1) => s_instances = Cardinality(Opened) - Cardinality(Committed)

OptionsInv == OptionsOK /\ Counted /\ OptionsNotified

-------------------------------------------------------------------------------
\* Whatever the bins are asked to reach, they have no negative width where the
\* lower bound is below the upper.
HistogramOK ==
    /\ m_n \in Nat \ {0} /\ m_lower \in Int /\ m_upper \in Int /\ m_width \in Int
    /\ m_bins \in [0..m_n - 1 -> Int]
    /\ inside \in [Values -> Int]
    /\ wild \in BOOLEAN
    /\ m_lower < m_upper => m_width >= 0

HistogramInv == HistogramOK /\ BinsCount

-------------------------------------------------------------------------------
\* A set of functions, as an operator.
Table(D, W) == [D -> W]

\* What an element holds, and where: that of two columns at their position.
Shown(items, l, m) == IF {l, m} \in items THEN {l, m} ELSE {}

InPlace(n, elements, names, items) ==
    \A x, y \in Nat : y < x /\ x < n =>
        elements[Position(x, y)] = Shown(items, names[x + 1], names[y + 1])

\* No two columns have the same label.
Named(n, names, u) ==
    /\ names \in Seq(1..u) /\ Len(names) = n
    /\ \A i, j \in 1..n : names[i] = names[j] => i = j

\* Until an index is removed that was not the last, elements and labels move
\* together.
MatrixOK ==
    /\ m_columns \in Nat /\ used \in Nat
    /\ m_elements \in Table(1..Size(m_columns), SUBSET Nat)
    /\ Named(m_columns, labels, used)
    /\ placed \subseteq SUBSET (1..used)
    /\ InPlace(m_columns, m_elements, labels, placed)

MatrixInv == shuffled \/ MatrixOK

-------------------------------------------------------------------------------
\* What texts, messages and what is heard of them are made of.
Parts == Lines \cup {Blank}
Messages == [topic : Topics, contents : Seq(Parts)]
Heards == Topics \X Lines

\* A message of the broker's is one that was said, with the same lines.
Carries(message, m) ==
    message.topic = m.topic /\ Written(message.text) = Written(m.contents)

MessagesOK ==
    /\ said \in Seq(Messages)
    /\ broker \in Seq([topic : Topics, text : Seq(Parts)])
    /\ heard \in [Listeners -> Seq(Heards)]

\* What the broker has left are the messages said last.
Remaining ==
    /\ Len(broker) <= Len(said)
    /\ \A i \in 1..Len(broker) : Carries(broker[i], said[Len(said) - Len(broker) + i])

MessagesInv == MessagesOK /\ Remaining /\ LinesDelivered

-------------------------------------------------------------------------------
\* A prefix stays one when something is appended.
LEMMA PrefixGrows ==
    ASSUME NEW S, NEW s \in Seq(S), NEW t \in Seq(S), NEW x \in S, IsPrefix(s, t)
    PROVE  IsPrefix(s, Append(t, x))
<1>1. Len(s) <= Len(t) /\ SubSeq(s, 1, Len(s)) = SubSeq(t, 1, Len(s))
    BY DEF IsPrefix
<1>2. Append(t, x) \in Seq(S) /\ Len(Append(t, x)) = Len(t) + 1
    OBVIOUS
<1>3. SubSeq(Append(t, x), 1, Len(s)) = SubSeq(t, 1, Len(s))
    BY <1>1, <1>2
<1>4. Len(s) <= Len(Append(t, x))
    BY <1>1, <1>2
<1> QED
    BY <1>1, <1>3, <1>4 DEF IsPrefix

\* A sequence is its own prefix.
LEMMA PrefixOfItself ==
    ASSUME NEW S, NEW s \in Seq(S)
    PROVE  IsPrefix(s, s)
    BY DEF IsPrefix

-------------------------------------------------------------------------------
\* A line that an entry begins with, it still begins with when tags, fields or
\* what a commit appends have been added.
LEMMA FirstLineStays ==
    ASSUME EntryOK,
           m_tags' = m_tags \/ \E x \in TagItems \cup FieldItems : m_tags' = Append(m_tags, x),
           m_fields' = m_fields \/ \E x \in Fields : m_fields' = Append(m_fields, x)
    PROVE  \A line : FirstLine(line) => FirstLine(line)'
<1> SUFFICES ASSUME NEW line, FirstLine(line)
             PROVE  FirstLine(line)'
  OBVIOUS
<1>1. IsPrefix(line, m_tags)'
  BY PrefixGrows DEF EntryOK, FirstLine
<1>2. Last(line).fields \in Seq(Fields)
  BY DEF FirstLine, FieldItems
<1>3. IsPrefix(Last(line).fields, m_fields)'
  BY <1>2, PrefixGrows DEF EntryOK, FirstLine
<1> QED
  BY <1>1, <1>3 DEF FirstLine

\* What a commit appends is no tag.
LEMMA AppendedIsNoTag ==
    ASSUME EntryOK
    PROVE  Appended \in FieldItems /\ Appended \notin TagItems
           /\ Appended.fields = m_fields /\ Appended.timestamp = commits
<1>1. Appended = [fields |-> m_fields, timestamp |-> commits]
  BY DEF Appended
<1>2. Appended \in FieldItems /\ Appended.fields = m_fields /\ Appended.timestamp = commits
  BY <1>1 DEF FieldItems, EntryOK
<1>3. \A item \in TagItems : item # Appended
  BY <1>1 DEF TagItems
<1> QED
  BY <1>2, <1>3

\* The request is the first when nothing was committed before.
LEMMA CommitStep ==
    ASSUME EntryInv, Commit
    PROVE  EntryInv'
<1> EntryOK /\ LinesOK /\ OnceOK /\ WrittenOK /\ commits \in Nat
  BY DEF EntryInv, EntryOK
<1> PICK item \in FieldItems : /\ item = Appended /\ item \notin TagItems
                               /\ item.fields = m_fields /\ item.timestamp = commits
  BY AppendedIsNoTag
<1>1. /\ commits' = commits + 1 /\ number' = number + 1 /\ number = commits
      /\ m_tags' = Append(m_tags, item) /\ body' = m_tags'
      /\ stage = "idle" /\ stage' = "resolve" /\ reply' = "none" /\ outcome' = "none"
      /\ UNCHANGED <<m_fields, result, database, arriving>>
  BY DEF Commit, Request, EntryOK
<1>2. /\ m_tags' \in Seq(TagItems \cup FieldItems) /\ m_tags' # <<>>
      /\ Len(m_tags') = Len(m_tags) + 1 /\ Last(m_tags') = item
      /\ \A i \in 1..Len(m_tags) : m_tags'[i] = m_tags[i]
      /\ m_tags'[Len(m_tags) + 1] = item
      /\ Len(m_tags) \in Nat
  <2> DEFINE Items == TagItems \cup FieldItems
  <2>1. m_tags \in Seq(Items) /\ item \in Items
    BY DEF EntryOK
  <2>2. Len(m_tags) \in Nat
    BY <2>1
  <2> HIDE DEF Items
  <2> DEFINE longer == Append(m_tags, item)
  <2>3. /\ longer \in Seq(Items) /\ longer # <<>>
        /\ Len(longer) = Len(m_tags) + 1 /\ Last(longer) = item
        /\ \A i \in 1..Len(m_tags) : longer[i] = m_tags[i]
        /\ longer[Len(m_tags) + 1] = item
    BY <2>1 DEF Last
  <2>4. m_tags' = longer
    BY <1>1
  <2> HIDE DEF longer
  <2> QED
    BY <2>2, <2>3, <2>4 DEF Items
<1>3. EntryOK'
  BY <1>1, <1>2 DEF EntryOK
<1>4. \A line : FirstLine(line) => FirstLine(line)'
  BY <1>1, FirstLineStays
<1>5. commits = 0 => FirstLine(body)'
  <2>1. IsPrefix(m_tags, m_tags)' /\ IsPrefix(m_fields, m_fields)'
    BY <1>1, <1>2, PrefixOfItself DEF EntryOK
  <2> QED
    BY <1>1, <1>2, <2>1 DEF FirstLine
<1>6. commits > 0 => LaterLine(body)'
  <2> SUFFICES ASSUME commits > 0
               PROVE  \E i \in 1..Len(m_tags') - 1 : m_tags'[i] \notin TagItems
    BY <1>1 DEF LaterLine
  <2>1. PICK i \in 1..Len(m_tags) : m_tags[i] \notin TagItems
    BY DEF EntryOK
  <2>2. i \in 1..Len(m_tags') - 1
    BY <1>2
  <2> QED
    BY <1>2, <2>1, <2>2
<1>7. LinesOK'
  <2>1. ASSUME NEW r \in arriving'
        PROVE  (/\ r = [number |-> r.number, body |-> r.body]
                /\ r.number \in 1..number
                /\ r.number = 1 => FirstLine(r.body)
                /\ r.number > 1 => LaterLine(r.body))'
    BY <1>1, <1>4, <2>1 DEF LinesOK, LaterLine
  <2>2. (commits = 0 => ~Unsent)' /\ (Unsent /\ number = 1 => FirstLine(body))'
        /\ (Unsent /\ number > 1 => LaterLine(body))'
    BY <1>1, <1>5, <1>6
  <2> QED
    BY <2>1, <2>2 DEF LinesOK
<1>8. OnceOK'
  <2>1. \A r \in arriving : r.number \in 1..number
    BY DEF LinesOK
  <2> QED
    BY <1>1, <2>1 DEF OnceOK
<1>9. WrittenOK'
  BY <1>1, <1>4 DEF WrittenOK
<1> QED
  BY <1>3, <1>7, <1>8, <1>9 DEF EntryInv

\* A tag or a field is added to the entry.
LEMMA AddStep ==
    ASSUME EntryInv, (\E tag \in Tags : AddTag(tag)) \/ (\E field \in Fields : AddField(field))
    PROVE  EntryInv'
<1> EntryOK /\ LinesOK /\ OnceOK /\ WrittenOK
  BY DEF EntryInv
<1>1. UNCHANGED <<commits, result, database, requestVars>>
  BY DEF AddTag, AddField
<1>2. /\ m_tags' = m_tags \/ \E x \in TagItems : m_tags' = Append(m_tags, x)
      /\ m_fields' = m_fields \/ \E x \in Fields : m_fields' = Append(m_fields, x)
  BY DEF AddTag, AddField, TagItems
<1>3. EntryOK'
  <2>1. m_fields' \in Seq(Fields)
    BY <1>2 DEF EntryOK
  <2>2. /\ m_tags' \in Seq(TagItems \cup FieldItems)
        /\ commits = 0 => \A i \in 1..Len(m_tags') : m_tags'[i] \in TagItems
        /\ commits > 0 => \E i \in 1..Len(m_tags') : m_tags'[i] \notin TagItems
    <3>1. CASE m_tags' = m_tags
      BY <3>1 DEF EntryOK
    <3>2. ASSUME NEW x \in TagItems, m_tags' = Append(m_tags, x)
          PROVE  /\ m_tags' \in Seq(TagItems \cup FieldItems)
                 /\ commits = 0 => \A i \in 1..Len(m_tags') : m_tags'[i] \in TagItems
                 /\ commits > 0 => \E i \in 1..Len(m_tags') : m_tags'[i] \notin TagItems
      <4> DEFINE Items == TagItems \cup FieldItems
      <4>1. m_tags \in Seq(Items) /\ x \in Items
        BY DEF EntryOK
      <4> HIDE DEF Items
      <4>2. PICK l \in Nat : l = Len(m_tags)
        BY <4>1
      <4>3. /\ m_tags' \in Seq(Items) /\ Len(m_tags') = l + 1 /\ m_tags'[l + 1] = x
            /\ \A i \in 1..l : m_tags'[i] = m_tags[i]
        BY <3>2, <4>1, <4>2
      <4>4. /\ commits = 0 => \A i \in 1..l : m_tags[i] \in TagItems
            /\ commits > 0 => \E i \in 1..l : m_tags[i] \notin TagItems
        BY <4>2 DEF EntryOK
      <4>5. l \in Nat
        BY <4>2
      <4>6. commits = 0 => \A i \in 1..l + 1 : m_tags'[i] \in TagItems
        BY <4>3, <4>4, <4>5
      <4>7. commits > 0 => \E i \in 1..l + 1 : m_tags'[i] \notin TagItems
        BY <4>3, <4>4, <4>5
      <4> QED
        BY <4>3, <4>6, <4>7 DEF Items
    <3> QED
      BY <1>2, <3>1, <3>2
  <2> QED
    BY <1>1, <2>1, <2>2 DEF EntryOK, requestVars
<1>4. \A line : FirstLine(line) => FirstLine(line)'
  BY <1>2, FirstLineStays
<1>5. LinesOK'
  BY <1>1, <1>4 DEF LinesOK, LaterLine, Unsent, requestVars
<1>6. OnceOK' /\ WrittenOK'
  BY <1>1, <1>4 DEF OnceOK, WrittenOK, Unsent, requestVars
<1> QED
  BY <1>3, <1>5, <1>6 DEF EntryInv

\* Between the calls of commit() the entry stays as it is.
LEMMA EntryStays ==
    ASSUME UNCHANGED <<entry, number>>
    PROVE  /\ EntryOK => EntryOK'
           /\ \A line : FirstLine(line)' <=> FirstLine(line)
    BY DEF entry, EntryOK, FirstLine

\* A request goes one call further.
LEMMA RequestStep ==
    ASSUME EntryInv, RequestNext, UNCHANGED <<entry, committing, result, database>>
    PROVE  EntryInv'
<1> EntryOK /\ LinesOK /\ OnceOK /\ WrittenOK /\ number \in Nat
  BY DEF EntryInv, EntryOK
<1>1. /\ UNCHANGED <<number, body, reply>>
      /\ Unsent' => Unsent
      /\ outcome' = outcome \/ outcome' = reply \/ outcome' = "throws"
      /\ \/ UNCHANGED arriving
         \/ Unsent /\ ~Unsent' /\ arriving' = Sent
  BY DEF RequestNext, Resolve, Connect, Handshake, Write, Read, Shutdown, Throw, Go, call, Unsent
<1>2. EntryOK' /\ \A line : FirstLine(line)' <=> FirstLine(line)
  BY <1>1, EntryStays
<1>3. PICK sent : sent = [number |-> number, body |-> body]
  OBVIOUS
<1>4. sent.number = number /\ sent.body = body
  BY <1>3
<1>5. number = 0 => ~Unsent
  BY DEF EntryOK, LinesOK
<1>6. \A r \in arriving' : r \in arriving \/ (Unsent /\ ~Unsent' /\ r = sent)
  BY <1>1, <1>3 DEF Sent
<1>7. LinesOK'
  <2>1. ASSUME NEW r \in arriving'
        PROVE  /\ r = [number |-> r.number, body |-> r.body]
               /\ r.number \in 1..number
               /\ r.number = 1 => FirstLine(r.body)
               /\ r.number > 1 => LaterLine(r.body)
    <3>1. CASE r \in arriving
      BY <3>1 DEF LinesOK
    <3>2. CASE Unsent /\ r = sent
      BY <1>3, <1>4, <1>5, <3>2 DEF LinesOK
    <3> QED
      BY <1>6, <3>1, <3>2
  <2>2. \A line : LaterLine(line)' <=> LaterLine(line)
    BY DEF LaterLine
  <2>3. commits' = commits /\ (Unsent' => Unsent)
    BY <1>1 DEF entry
  <2> QED
    BY <1>1, <1>2, <2>1, <2>2, <2>3 DEF LinesOK
<1>8. OnceOK'
  BY <1>1, <1>4, <1>6 DEF OnceOK
<1>9. WrittenOK'
  BY <1>1, <1>2 DEF WrittenOK
<1> QED
  BY <1>2, <1>7, <1>8, <1>9 DEF EntryInv

\* The database answers a request, and writes it if it is a line: only the
\* first is one.
LEMMA AnswerStep ==
    ASSUME EntryInv, NEW r \in arriving, Store(r) \/ Refuse(r)
    PROVE  EntryInv'
<1> EntryOK /\ LinesOK /\ OnceOK /\ WrittenOK /\ number \in Nat
  BY DEF EntryInv, EntryOK
<1>1. /\ UNCHANGED <<number, body, outcome, stage, entry, result>>
      /\ arriving' = arriving \ {r}
      /\ Unsent' <=> Unsent
  BY DEF Store, Refuse, Answer, call, Unsent
<1>2. EntryOK' /\ \A line : FirstLine(line)' <=> FirstLine(line)
  BY <1>1, EntryStays
<1>3. r.number \in 1..number /\ (r.number = 1 => FirstLine(r.body)) /\ (r.number > 1 => LaterLine(r.body))
  BY DEF LinesOK
<1>4. LinesOK'
  <2>1. \A line : LaterLine(line)' <=> LaterLine(line)
    BY DEF LaterLine
  <2> QED
    BY <1>1, <1>2, <2>1 DEF LinesOK, entry
<1>5. CASE Refuse(r)
  <2>1. database' = database /\ (reply' = reply \/ reply' = "error")
    BY <1>5 DEF Refuse, Answer
  <2>2. OnceOK'
    BY <1>1, <2>1 DEF OnceOK
  <2>3. WrittenOK'
    BY <1>1, <1>2, <2>1 DEF WrittenOK
  <2> QED
    BY <1>2, <1>4, <2>2, <2>3 DEF EntryInv
<1>6. CASE Store(r)
  <2>1. database' = Append(database, r.body) /\ Accepted(r.body)
    BY <1>6 DEF Store
  <2>2. r.number = 1
    <3>1. ~LaterLine(r.body)
      BY <2>1 DEF Accepted, LaterLine, TagItems
    <3> QED
      BY <1>3, <3>1
  <2>3. database = <<>> /\ FirstLine(r.body)
    BY <1>3, <2>2 DEF OnceOK
  <2>4. database' = <<r.body>>
    BY <2>1, <2>3
  <2>5. OnceOK'
    BY <1>1, <1>3, <2>2 DEF OnceOK
  <2>6. WrittenOK'
    <3>1. database'[1] = r.body /\ database' # <<>>
      BY <2>4
    <3> QED
      BY <1>2, <2>3, <2>4, <3>1 DEF WrittenOK
  <2> QED
    BY <1>2, <1>4, <2>5, <2>6 DEF EntryInv
<1> QED
  BY <1>5, <1>6

\* Every step keeps the invariant of an entry.
LEMMA EntryStep == EntryInv /\ [InfluxNext]_influxVars => EntryInv'
<1> SUFFICES ASSUME EntryInv, [InfluxNext]_influxVars
             PROVE  EntryInv'
  OBVIOUS
<1>1. CASE CommitEmpty \/ SendReturns \/ UNCHANGED influxVars
  <2>1. /\ UNCHANGED <<entry, database, requestVars>>
        /\ result' = result \/ result' # "true" \/ outcome = "no_content"
    BY <1>1 DEF CommitEmpty, SendReturns, influxVars, entry
  <2>2. (EntryOK => EntryOK') /\ \A line : FirstLine(line)' <=> FirstLine(line)
    BY <2>1, EntryStays DEF requestVars
  <2>3. LinesOK => LinesOK'
    BY <2>1, <2>2 DEF LinesOK, LaterLine, Unsent, requestVars, entry
  <2>4. OnceOK => OnceOK'
    BY <2>1 DEF OnceOK, Unsent, requestVars
  <2>5. WrittenOK => WrittenOK'
    BY <2>1, <2>2 DEF WrittenOK, requestVars
  <2> QED
    BY <2>2, <2>3, <2>4, <2>5 DEF EntryInv
<1> QED
  BY <1>1, CommitStep, AddStep, RequestStep, AnswerStep DEF InfluxNext

\* The invariant of an entry holds initially.
LEMMA EntryInit == InfluxInit => EntryInv
<1> SUFFICES ASSUME InfluxInit
             PROVE  EntryInv
  OBVIOUS
<1> USE DEF InfluxInit, RequestInit
<1>1. EntryOK
  BY EmptySeq DEF EntryOK
<1>2. LinesOK /\ OnceOK /\ WrittenOK
  BY DEF LinesOK, OnceOK, WrittenOK, Unsent
<1> QED
  BY <1>1, <1>2 DEF EntryInv

\* The inductive invariant of an entry.
THEOREM EntryInvariance == InfluxSpec => []EntryInv
    BY EntryInit, EntryStep, PTL DEF InfluxSpec

\* database::entry::commit and http_request: for any tags and fields and any
\* number of commits, wherever a request throws, an entry is written once at
\* most, whole, and a commit that answers true has written it.
THEOREM EntryIsWrittenOnce == InfluxSpec => []WrittenOnce
<1>1. EntryInv => WrittenOnce
  <2> SUFFICES ASSUME EntryInv
               PROVE  WrittenOnce
    OBVIOUS
  <2>1. CASE database = <<>>
    BY <2>1 DEF EntryInv, WrittenOK, WrittenOnce
  <2>2. CASE database = <<database[1]>> /\ FirstLine(database[1])
    <3>1. Len(database) = 1 /\ DOMAIN database = {1}
      BY <2>2
    <3>2. /\ IsPrefix(database[1], m_tags) /\ IsPrefix(Last(database[1]).fields, m_fields)
          /\ Last(database[1]).timestamp = 0
      BY <2>2 DEF FirstLine
    <3> QED
      BY <3>1, <3>2 DEF WrittenOnce
  <2> QED
    BY <2>1, <2>2 DEF EntryInv, WrittenOK
<1> QED
  BY EntryInvariance, <1>1, PTL

-------------------------------------------------------------------------------
\* Opened is an interval from 1 on.
LEMMA OpenedInterval ==
    ASSUME OptionsOK
    PROVE  \E n \in 0..MaxSetups : Opened = 1..n /\ Cardinality(Opened) = n /\ IsFiniteSet(Opened)
<1>1. PICK n \in 0..MaxSetups : Opened = 1..n
  BY DEF OptionsOK
<1>2. n \in Nat
  BY <1>1, ConfigurationAssumption
<1> QED
  BY <1>1, <1>2, FS_Interval

\* What is committed is some of what was opened, all of it when as many.
LEMMA CommittedIsFinite ==
    ASSUME OptionsOK
    PROVE  /\ IsFiniteSet(Committed) /\ Cardinality(Committed) \in Nat
           /\ Cardinality(Committed) = Cardinality(Opened) => Committed = Opened
<1>1. IsFiniteSet(Opened) /\ Committed \subseteq Opened
  BY OpenedInterval DEF Committed
<1> QED
  BY <1>1, FS_Subset, FS_CardinalityType

\* Another initialisation is opened.
LEMMA SetupStep ==
    ASSUME OptionsInv, NEW c \in Configs, NEW i \in Ids, Setup(c, i)
    PROVE  OptionsInv'
<1> OptionsOK /\ Counted /\ OptionsNotified /\ i \in Nat \ {0}
  BY ConfigurationAssumption DEF OptionsInv, Ids
<1>1. /\ Opened = 1..i - 1 /\ s_instances' = s_instances + 1
      /\ initialisations' = [j \in Opened \cup {i} |-> IF j = i THEN c ELSE initialisations[j]]
      /\ UNCHANGED <<stored, notified, tries, done>>
  BY DEF Setup
<1>2. /\ Opened' = Opened \cup {i} /\ Opened' = 1..i /\ i \notin Opened
      /\ \A j \in Opened : initialisations'[j] = initialisations[j]
      /\ initialisations' \in [Opened' -> Configs]
  BY <1>1 DEF Opened, OptionsOK
<1>3. done[i] = 0
  BY <1>2 DEF OptionsOK
<1>4. Committed' = Committed
  BY <1>1, <1>2, <1>3 DEF Committed
<1>5. OptionsOK'
  <2>1. Opened' \in {1..n : n \in 0..MaxSetups}
    BY <1>2 DEF Ids
  <2>2. \A d \in Configs : stored'[d] = {j \in Committed' : initialisations'[j] = d}
    BY <1>1, <1>2, <1>4 DEF OptionsOK, Committed
  <2>3. s_instances' \in Int /\ \A j \in Ids \ Opened' : done'[j] = 0
    BY <1>1, <1>2 DEF OptionsOK
  <2>4. /\ stored' \in [Configs -> SUBSET Ids] /\ notified' \in [Configs -> SUBSET Ids]
        /\ done' \in [Ids -> Nat]
    BY <1>1 DEF OptionsOK
  <2> QED
    BY <1>2, <2>1, <2>2, <2>3, <2>4 DEF OptionsOK
<1>6. Counted'
  <2>1. Cardinality(Opened') = Cardinality(Opened) + 1
    BY <1>2, OpenedInterval, FS_AddElement
  <2>2. Cardinality(Opened) \in Nat /\ Cardinality(Committed) \in Nat /\ s_instances \in Int
    BY OpenedInterval, CommittedIsFinite, FS_CardinalityType DEF OptionsOK
  <2> SUFFICES ASSUME \A j \in Opened' : done'[j] <= 1
               PROVE  s_instances' = Cardinality(Opened') - Cardinality(Committed')
    BY DEF Counted
  <2>3. s_instances = Cardinality(Opened) - Cardinality(Committed)
    BY <1>1, <1>2 DEF Counted
  <2>4. Cardinality(Committed') = Cardinality(Committed)
    BY <1>4
  <2> QED
    BY <1>1, <2>1, <2>2, <2>3, <2>4
<1>7. OptionsNotified'
  <2> SUFFICES ASSUME \A j \in Opened' : done'[j] <= 1
               PROVE  \A d \in Configs : notified'[d] # {} =>
                        \E n \in Opened' : notified'[d] = {j \in 1..n : initialisations'[j] = d}
    BY <1>1, <1>2, <1>3 DEF OptionsNotified
  <2>1. SUFFICES ASSUME NEW d \in Configs, notified[d] # {}
                 PROVE  \E n \in Opened : notified[d] = {j \in 1..n : initialisations'[j] = d}
    BY <1>1, <1>2
  <2>2. PICK n \in Opened : notified[d] = {j \in 1..n : initialisations[j] = d}
    BY <1>1, <1>2, <2>1 DEF OptionsNotified
  <2>3. \A j \in 1..n : j \in Opened
    BY <1>1, <2>2
  <2> QED
    BY <1>2, <2>2, <2>3
<1> QED
  BY <1>5, <1>6, <1>7 DEF OptionsInv

\* The options of an initialisation are stored; when it is the last that was
\* open, they are notified.
LEMMA CommitOptionsStep ==
    ASSUME OptionsInv, NEW i \in Ids, CommitOptions(i)
    PROVE  OptionsInv'
<1> OptionsOK /\ Counted /\ OptionsNotified
  BY DEF OptionsInv
<1>1. PICK c : c = initialisations[i]
  OBVIOUS
<1>2. /\ i \in Opened /\ initialisations' = initialisations /\ Opened' = Opened
      /\ stored' = [stored EXCEPT ![c] = @ \cup {i}]
      /\ s_instances' = s_instances - 1
      /\ notified' = IF s_instances' = 0 THEN [notified EXCEPT ![c] = stored'[c]] ELSE notified
      /\ done' = [done EXCEPT ![i] = @ + 1]
  BY <1>1 DEF CommitOptions, Try, Opened
<1>3. c \in Configs
  BY <1>1, <1>2 DEF OptionsOK
<1>4. /\ done' \in [Ids -> Nat] /\ done'[i] = done[i] + 1 /\ done[i] \in Nat
      /\ \A j \in Ids \ {i} : done'[j] = done[j]
      /\ Opened \subseteq Ids
  <2>1. Opened \subseteq Ids
    BY OpenedInterval, ConfigurationAssumption DEF Ids
  <2> QED
    BY <1>2, <2>1 DEF OptionsOK
<1>5. Committed' = Committed \cup {i}
  BY <1>2, <1>4 DEF Committed
<1>6. \A d \in Configs : stored'[d] = {j \in Committed' : initialisations[j] = d}
  BY <1>1, <1>2, <1>3, <1>5 DEF OptionsOK
<1>7. stored' \in [Configs -> SUBSET Ids] /\ notified' \in [Configs -> SUBSET Ids]
  <2>1. stored' \in [Configs -> SUBSET Ids]
    BY <1>2 DEF OptionsOK
  <2>2. stored'[c] \in SUBSET Ids
    BY <1>3, <2>1
  <2> QED
    BY <1>2, <2>1, <2>2 DEF OptionsOK
<1>8. OptionsOK'
  BY <1>2, <1>4, <1>6, <1>7 DEF OptionsOK
<1>9. ASSUME \A j \in Opened : done'[j] <= 1
      PROVE  s_instances' = Cardinality(Opened) - Cardinality(Committed')
  <2>1. \A j \in Opened : done[j] <= 1
    BY <1>4, <1>9
  <2>2. i \notin Committed
    BY <1>2, <1>4, <1>9 DEF Committed
  <2>3. Cardinality(Committed') = Cardinality(Committed) + 1
    BY <1>5, <2>2, CommittedIsFinite, FS_AddElement
  <2>4. Cardinality(Opened) \in Nat /\ Cardinality(Committed) \in Nat
    BY OpenedInterval, CommittedIsFinite, FS_CardinalityType
  <2>5. s_instances = Cardinality(Opened) - Cardinality(Committed)
    BY <2>1 DEF Counted
  <2> QED
    BY <1>2, <2>3, <2>4, <2>5
<1>10. Counted'
  BY <1>2, <1>9 DEF Counted
<1>11. ASSUME \A j \in Opened : done'[j] <= 1
       PROVE  s_instances' = 0 <=> Committed' = Opened
  <2>1. /\ Cardinality(Committed') \in Nat
        /\ Cardinality(Committed') = Cardinality(Opened) => Committed' = Opened
    <3>1. IsFiniteSet(Opened) /\ Committed' \subseteq Opened
      BY <1>2, OpenedInterval DEF Committed
    <3> QED
      BY <3>1, FS_Subset, FS_CardinalityType
  <2>2. Cardinality(Opened) \in Nat
    BY OpenedInterval, FS_CardinalityType
  <2> QED
    BY <1>9, <1>11, <2>1, <2>2
<1>12. OptionsNotified'
  <2>1. SUFFICES ASSUME \A j \in Opened : done'[j] <= 1
                 PROVE  /\ \A d \in Configs : notified'[d] # {} =>
                            \E n \in Opened : notified'[d] = {j \in 1..n : initialisations[j] = d}
                        /\ (\A j \in Opened : done'[j] = 1) =>
                            \E j \in Opened :
                                notified'[initialisations[j]] = stored'[initialisations[j]]
    BY <1>2 DEF OptionsNotified
  <2>2. ASSUME NEW d \in Configs, notified[d] # {}
        PROVE  \E n \in Opened : notified[d] = {j \in 1..n : initialisations[j] = d}
    BY <1>4, <2>1, <2>2 DEF OptionsNotified
  <2>3. CASE s_instances' = 0
    <3>1. notified' = [notified EXCEPT ![c] = stored'[c]]
      BY <1>2, <2>3
    <3>2. notified'[c] = stored'[c] /\ \A d \in Configs \ {c} : notified'[d] = notified[d]
      BY <1>3, <3>1 DEF OptionsOK
    <3>3. stored'[c] = {j \in Opened : initialisations[j] = c}
      BY <1>3, <1>6, <1>11, <2>1, <2>3
    <3>4. PICK n \in 0..MaxSetups : Opened = 1..n
      BY OpenedInterval
    <3>5. n \in Opened
      BY <1>2, <3>4, ConfigurationAssumption
    <3>6. notified'[c] = {j \in 1..n : initialisations[j] = c}
      BY <3>2, <3>3, <3>4
    <3>7. ASSUME NEW d \in Configs, notified'[d] # {}
          PROVE  \E m \in Opened : notified'[d] = {j \in 1..m : initialisations[j] = d}
      <4>1. CASE d = c
        BY <3>5, <3>6, <4>1
      <4>2. CASE d # c
        <5>1. notified'[d] = notified[d]
          BY <3>2, <3>7, <4>2
        <5> QED
          BY <2>2, <3>7, <5>1
      <4> QED
        BY <4>1, <4>2
    <3>8. notified'[initialisations[i]] = stored'[initialisations[i]]
      BY <1>1, <3>2
    <3> QED
      BY <1>2, <3>7, <3>8
  <2>4. CASE s_instances' # 0
    <3>1. notified' = notified
      BY <1>2, <2>4
    <3>2. ~(\A j \in Opened : done'[j] = 1)
      <4>1. SUFFICES ASSUME \A j \in Opened : done'[j] = 1
                     PROVE  FALSE
        OBVIOUS
      <4>2. Committed' = Opened
        BY <1>2, <4>1 DEF Committed
      <4> QED
        BY <1>11, <2>1, <2>4, <4>2
    <3> QED
      BY <2>2, <3>1, <3>2
  <2> QED
    BY <2>3, <2>4
<1> QED
  BY <1>8, <1>10, <1>12 DEF OptionsInv

\* Every step keeps the invariant of a program's options.
LEMMA OptionsStep == OptionsInv /\ [ConfigurationNext]_configurationVars => OptionsInv'
<1> SUFFICES ASSUME OptionsInv, [ConfigurationNext]_configurationVars
             PROVE  OptionsInv'
  OBVIOUS
<1>1. ASSUME UNCHANGED <<s_instances, initialisations, stored, notified, done>>
      PROVE  OptionsInv'
  <2>1. Opened' = Opened
    BY <1>1 DEF Opened
  <2>2. Committed' = Committed
    BY <1>1, <2>1 DEF Committed
  <2> QED
    BY <1>1, <2>1, <2>2 DEF OptionsInv, OptionsOK, Counted, OptionsNotified
<1>2. CASE \E i \in Ids : CommitThrows(i)
  BY <1>1, <1>2 DEF CommitThrows, Try
<1>3. CASE UNCHANGED configurationVars
  BY <1>1, <1>3 DEF configurationVars
<1> QED
  BY <1>2, <1>3, SetupStep, CommitOptionsStep DEF ConfigurationNext

\* The invariant of a program's options holds initially.
LEMMA OptionsInit == ConfigurationInit => OptionsInv
<1> SUFFICES ASSUME ConfigurationInit
             PROVE  OptionsInv
  OBVIOUS
<1> USE DEF ConfigurationInit
<1>1. Opened = {} /\ Committed = {}
  BY DEF Opened, Committed
<1>2. OptionsOK
  <2>1. Opened = 1..0 /\ 0 \in 0..MaxSetups
    BY <1>1, ConfigurationAssumption
  <2>2. initialisations \in [Opened -> Configs]
    BY <1>1
  <2> QED
    BY <1>1, <2>1, <2>2 DEF OptionsOK
<1>3. Counted
  BY <1>1, FS_EmptySet DEF Counted
<1>4. OptionsNotified
  BY <1>1 DEF OptionsNotified
<1> QED
  BY <1>2, <1>3, <1>4 DEF OptionsInv

\* The inductive invariant of a program's options.
THEOREM OptionsInvariance == ConfigurationSpec => []OptionsInv
    BY OptionsInit, OptionsStep, PTL DEF ConfigurationSpec

\* config::commit and s_instances: for any configurations and initialisations,
\* as long as none is committed twice, the count is that of the initialisations
\* that are open, so the options are notified when the last is committed.
THEOREM OptionsAreNotified == ConfigurationSpec => []OptionsNotified
<1>1. OptionsInv => OptionsNotified
  BY DEF OptionsInv
<1> QED
  BY OptionsInvariance, <1>1, PTL

-------------------------------------------------------------------------------
\* A smallest number of a set of numbers.
LEMMA SmallestOf ==
    ASSUME NEW T, T \subseteq Nat, T # {}
    PROVE  \E m \in T : \A k \in T : m <= k
<1> DEFINE R == {ss \in Nat \X Nat : ss[1] < ss[2]}
<1>1. IsWellFoundedOn(R, Nat)
    BY NatLessThanWellFounded DEF OpToRel
<1> HIDE DEF R
<1>2. PICK m \in T : \A k \in T : ~(<<k, m>> \in R)
    BY <1>1, WFMin
<1>3. ASSUME NEW k \in T, k < m
      PROVE  <<k, m>> \in R
    BY <1>3 DEF R
<1>4. m \in T /\ \A k \in T : ~(k < m)
    BY <1>2, <1>3
<1>5. m \in Nat /\ \A k \in T : m <= k
    BY <1>4
<1> QED
    BY <1>4, <1>5

\* A smallest counterexample among the subsets of a finite set.
LEMMA SmallestSubset ==
    ASSUME NEW S, IsFiniteSet(S), NEW T, T \subseteq SUBSET S, T # {}
    PROVE  \E m \in T : \A x \in m : m \ {x} \notin T
<1> DEFINE N == {Cardinality(s) : s \in T}
<1>1. \A s \in T : IsFiniteSet(s) /\ Cardinality(s) \in Nat
    BY FS_Subset, FS_CardinalityType
<1>2. N \subseteq Nat /\ N # {}
    BY <1>1
<1> HIDE DEF N
<1>3. PICK n \in N : \A k \in N : n <= k
    BY <1>2, SmallestOf
<1>4. PICK m \in T : n = Cardinality(m)
    BY <1>3 DEF N
<1>5. ASSUME NEW x \in m, m \ {x} \in T
      PROVE  FALSE
  <2>1. Cardinality(m \ {x}) = n - 1
    BY <1>1, <1>4, FS_RemoveElement
  <2>2. n - 1 \in N /\ n \in Nat
    BY <1>2, <1>5, <2>1 DEF N
  <2> QED
    BY <1>3, <2>2
<1> QED
    BY <1>4, <1>5

\* What a fold goes through exists: pick chooses an element of a set, op[x][v]
\* is what v becomes with x.
Picks(pick, S) == \A s \in SUBSET S : s # {} => pick[s] \in s
Combines(op, S, V) == \A x \in S : \A v \in V : op[x][v] \in V
Iteration(S, base, pick, op, f) ==
    f = [s \in SUBSET S |-> IF s = {} THEN base ELSE op[pick[s]][f[s \ {pick[s]}]]]

\* The function that goes through the subsets of a finite set exists: the
\* smallest size it could not be built for has no predecessor.
LEMMA FoldExists ==
    ASSUME NEW S, IsFiniteSet(S), NEW V, NEW base \in V,
           NEW pick, Picks(pick, S), NEW op, Combines(op, S, V)
    PROVE  \E f \in [SUBSET S -> V] : Iteration(S, base, pick, op, f)
<1> DEFINE Layer(n) == {s \in SUBSET S : Cardinality(s) <= n}
           Step(f, s) == IF s = {} THEN base ELSE op[pick[s]][f[s \ {pick[s]}]]
           Folds(f, n) == f \in [Layer(n) -> V] /\ \A s \in Layer(n) : f[s] = Step(f, s)
           T == {n \in Nat : ~\E f : Folds(f, n)}
<1> USE DEF Picks, Combines
<1>1. \A s \in SUBSET S : IsFiniteSet(s) /\ Cardinality(s) \in Nat /\ Cardinality(s) <= Cardinality(S)
    BY FS_Subset, FS_CardinalityType
<1>2. ASSUME NEW s \in SUBSET S, s # {}
      PROVE  /\ pick[s] \in S /\ s \ {pick[s]} \in SUBSET S
             /\ Cardinality(s \ {pick[s]}) = Cardinality(s) - 1
             /\ Cardinality(s) # 0
  <2>1. pick[s] \in s
    BY <1>2
  <2> QED
    BY <1>1, <1>2, <2>1, FS_RemoveElement, FS_EmptySet
<1>3. T = {}
  <2> SUFFICES ASSUME T # {}
               PROVE  FALSE
    OBVIOUS
  <2>1. T \subseteq Nat
    OBVIOUS
  <2> HIDE DEF T
  <2>2. PICK n \in T : \A k \in T : n <= k
    BY <2>1, SmallestOf
  <2>3. n \in Nat /\ ~\E f : Folds(f, n)
    BY <2>2 DEF T
  <2>4. CASE n = 0
    <3> DEFINE f == [s \in Layer(n) |-> base]
    <3>1. ASSUME NEW s \in Layer(n)
          PROVE  s = {}
      BY <1>1, <2>4, FS_EmptySet
    <3>2. f \in [Layer(n) -> V] /\ \A s \in Layer(n) : f[s] = Step(f, s)
      BY <3>1
    <3> QED
      BY <2>3, <3>2
  <2>5. CASE n # 0
    <3>1. PICK k \in Nat : k = n - 1
      BY <2>3, <2>5
    <3>2. k \notin T
      BY <2>2, <2>3, <3>1
    <3>3. PICK g : Folds(g, k)
      BY <3>2 DEF T
    <3> DEFINE f == [s \in Layer(n) |-> Step(g, s)]
    <3>9. \A s \in Layer(k) : s \in Layer(n)
      BY <1>1, <2>3, <3>1
    <3>4. \A s \in Layer(k) : s \in Layer(n) /\ g[s] = Step(g, s) /\ g[s] \in V
      <4> HIDE DEF Step, Layer
      <4> QED
        BY <3>3, <3>9
    <3>5. ASSUME NEW s \in Layer(n), s # {}
          PROVE  s \ {pick[s]} \in Layer(k) /\ pick[s] \in S
      BY <1>1, <1>2, <2>3, <3>1, <3>5
    <3>6. f \in [Layer(n) -> V]
      <4> SUFFICES ASSUME NEW s \in Layer(n)
                   PROVE  Step(g, s) \in V
        OBVIOUS
      <4> QED
        BY <3>4, <3>5
    <3>7. \A s \in Layer(k) : f[s] = g[s]
      BY <3>4
    <3>8. ASSUME NEW s \in Layer(n)
          PROVE  f[s] = Step(f, s)
      <4>1. f[s] = Step(g, s)
        OBVIOUS
      <4> HIDE DEF f
      <4>2. CASE s = {}
        BY <4>1, <4>2
      <4>3. CASE s # {}
        <5>1. f[s \ {pick[s]}] = g[s \ {pick[s]}]
          BY <3>5, <3>7, <4>3
        <5> QED
          BY <4>1, <4>3, <5>1
      <4> QED
        BY <4>2, <4>3
    <3> QED
      BY <2>3, <3>6, <3>8
  <2> QED
    BY <2>4, <2>5
<1>4. \A s \in SUBSET S : s \in Layer(Cardinality(S))
    BY <1>1
<1>5. Layer(Cardinality(S)) = SUBSET S /\ Cardinality(S) \in Nat
    BY <1>4, FS_CardinalityType
<1>6. PICK f : Folds(f, Cardinality(S))
    BY <1>3, <1>5
<1>7. f \in [SUBSET S -> V] /\ \A s \in SUBSET S : f[s] = Step(f, s)
    BY <1>5, <1>6
<1> HIDE DEF Step
<1>8. f = [s \in SUBSET S |-> Step(f, s)]
    BY <1>7
<1> QED
    BY <1>7, <1>8 DEF Step, Iteration

-------------------------------------------------------------------------------
(* Sums over finite sets, in whatever order.                               *)
Sums(f, c, S) ==
    /\ f \in [SUBSET S -> Int] /\ f[{}] = 0
    /\ \A s \in SUBSET S : \A x \in s : f[s] = c[x] + f[s \ {x}]

\* SumOver, a fold that chooses an order, is a sum in every order.
LEMMA SumOverIsSum ==
    ASSUME NEW S, IsFiniteSet(S), NEW c, \A x \in S : c[x] \in Int
    PROVE  \E f : Sums(f, c, S) /\ SumOver(c, S) = f[S]
<1> DEFINE pick == [s \in SUBSET S |-> CHOOSE x \in s : TRUE]
           op == [x \in S |-> [v \in Int |-> v + c[x]]]
           Iterates(f) == f = [s \in SUBSET S |-> IF s = {} THEN 0
                                 ELSE f[s \ {CHOOSE x \in s : TRUE}] + c[CHOOSE x \in s : TRUE]]
           F == CHOOSE f : Iterates(f)
<1>1. SumOver(c, S) = F[S]
    BY DEF SumOver, FoldFunctionOnSet, MapThenFoldSet
<1>2. \A s \in SUBSET S : s # {} => pick[s] \in s
    OBVIOUS
<1>3. \E f \in [SUBSET S -> Int] : Iterates(f)
  <2>1. \A x \in S : \A v \in Int : op[x][v] = v + c[x]
    OBVIOUS
  <2>7. Combines(op, S, Int) /\ Picks(pick, S)
    BY <1>2 DEF Combines, Picks
  <2>8. 0 \in Int
    OBVIOUS
  <2>2. \A s \in SUBSET S : pick[s] = CHOOSE x \in s : TRUE
    OBVIOUS
  <2> HIDE DEF op, pick
  <2>3. PICK f \in [SUBSET S -> Int] :
          Iteration(S, 0, pick, op, f)
    BY <2>7, <2>8, FoldExists
  <2>4. ASSUME NEW s \in SUBSET S
        PROVE  f[s] = IF s = {} THEN 0
                      ELSE f[s \ {CHOOSE x \in s : TRUE}] + c[CHOOSE x \in s : TRUE]
    <3>1. CASE s = {}
      BY <2>3, <3>1 DEF Iteration
    <3>2. CASE s # {}
      <4>1. PICK x \in s : x = pick[s] /\ x = CHOOSE y \in s : TRUE
        BY <1>2, <2>2, <3>2
      <4>2. f[s] = op[x][f[s \ {x}]]
        BY <2>3, <3>2, <4>1 DEF Iteration
      <4>3. f[s \ {x}] \in Int
        OBVIOUS
      <4> QED
        BY <2>1, <3>2, <4>1, <4>2, <4>3
    <3> QED
      BY <3>1, <3>2
  <2>5. f = [s \in SUBSET S |-> f[s]]
    BY DEF Iteration
  <2>6. Iterates(f)
    BY <2>4, <2>5
  <2> QED
    BY <2>6
<1>5. ASSUME NEW f, Iterates(f), NEW s \in SUBSET S
      PROVE  /\ s = {} => f[s] = 0
             /\ s # {} => \E x \in s : x = (CHOOSE y \in s : TRUE) /\ f[s] = f[s \ {x}] + c[x]
    BY <1>5
<1> HIDE DEF pick, op, Iterates
<1>4. Iterates(F)
    BY <1>3
<1>9. \A f : Iterates(f) => f = [s \in SUBSET S |-> f[s]]
    BY DEF Iterates
<1> HIDE DEF F
<1>6. F \in [SUBSET S -> Int]
  <2>1. PICK g \in [SUBSET S -> Int] : Iterates(g)
    BY <1>3
  <2> DEFINE T == {s \in SUBSET S : F[s] # g[s]}
  <2>2. T = {}
    <3> SUFFICES ASSUME T # {}
                 PROVE  FALSE
      OBVIOUS
    <3>1. T \subseteq SUBSET S
      OBVIOUS
    <3> HIDE DEF T
    <3>2. PICK m \in T : \A x \in m : m \ {x} \notin T
      BY <3>1, SmallestSubset
    <3> USE DEF T
    <3>3. m \in SUBSET S /\ F[m] # g[m] /\ \A x \in m : m \ {x} \in SUBSET S /\ F[m \ {x}] = g[m \ {x}]
      BY <3>2
    <3>4. CASE m = {}
      BY <1>4, <1>5, <2>1, <3>3, <3>4
    <3>5. CASE m # {}
      <4>1. PICK x \in m : x = (CHOOSE y \in m : TRUE) /\ F[m] = F[m \ {x}] + c[x]
        BY <1>4, <1>5, <3>3, <3>5
      <4>2. PICK y \in m : y = (CHOOSE z \in m : TRUE) /\ g[m] = g[m \ {y}] + c[y]
        BY <1>5, <2>1, <3>3, <3>5
      <4> QED
        BY <3>3, <4>1, <4>2
    <3> QED
      BY <3>4, <3>5
  <2>3. F = [s \in SUBSET S |-> F[s]]
    BY <1>4, <1>9
  <2>4. \A s \in SUBSET S : F[s] \in Int
    BY <2>1, <2>2
  <2> QED
    BY <2>3, <2>4
<1> DEFINE U == {s \in SUBSET S : \E x \in s : F[s] # c[x] + F[s \ {x}]}
<1>7. U = {}
  <2> SUFFICES ASSUME U # {}
               PROVE  FALSE
    OBVIOUS
  <2>1. U \subseteq SUBSET S
    OBVIOUS
  <2> HIDE DEF U
  <2>2. PICK m \in U : \A x \in m : m \ {x} \notin U
    BY <2>1, SmallestSubset
  <2> USE DEF U
  <2>3. PICK x \in m : m \in SUBSET S /\ F[m] # c[x] + F[m \ {x}]
    BY <2>2
  <2>4. PICK y \in m : F[m] = F[m \ {y}] + c[y]
    BY <1>4, <1>5, <2>3
  <2>5. x # y /\ m \ {x} \in SUBSET S /\ m \ {y} \in SUBSET S /\ (m \ {x}) \ {y} \in SUBSET S
    <3>1. c[y] \in Int /\ F[m \ {y}] \in Int
      BY <1>6, <2>3
    <3>2. c[y] + F[m \ {y}] = F[m \ {y}] + c[y]
      BY <3>1
    <3> QED
      BY <2>3, <2>4, <3>2
  <2>6. F[m \ {y}] = c[x] + F[(m \ {y}) \ {x}]
    BY <2>2, <2>5
  <2>7. F[m \ {x}] = c[y] + F[(m \ {x}) \ {y}]
    BY <2>2, <2>5
  <2>8. (m \ {y}) \ {x} = (m \ {x}) \ {y}
    OBVIOUS
  <2>9. PICK a, b, d \in Int : a = c[x] /\ b = c[y] /\ d = F[(m \ {x}) \ {y}]
    BY <1>6, <2>3, <2>5
  <2>10. F[m] = (a + d) + b /\ F[m \ {x}] = b + d
    BY <2>4, <2>6, <2>7, <2>8, <2>9
  <2>11. (a + d) + b = a + (b + d)
    BY <2>9
  <2> QED
    BY <2>3, <2>9, <2>10, <2>11
<1>8. F[{}] = 0
    BY <1>4, <1>5
<1> QED
    BY <1>1, <1>6, <1>7, <1>8 DEF Sums

\* Two sums agree where they add the same numbers.
LEMMA SumsAgree ==
    ASSUME NEW S, IsFiniteSet(S), NEW R, NEW U, U \subseteq S, U \subseteq R,
           NEW f, NEW c, Sums(f, c, S), NEW g, NEW d, Sums(g, d, R),
           \A x \in U : c[x] = d[x]
    PROVE  f[U] = g[U]
<1> DEFINE T == {s \in SUBSET U : f[s] # g[s]}
<1>1. T = {}
  <2> SUFFICES ASSUME T # {}
               PROVE  FALSE
    OBVIOUS
  <2>1. T \subseteq SUBSET U /\ IsFiniteSet(U)
    BY FS_Subset
  <2> HIDE DEF T
  <2>2. PICK m \in T : \A x \in m : m \ {x} \notin T
    BY <2>1, SmallestSubset
  <2> USE DEF T
  <2>3. m \in SUBSET U /\ f[m] # g[m] /\ \A x \in m : f[m \ {x}] = g[m \ {x}]
    BY <2>2
  <2>4. m # {}
    BY <2>3 DEF Sums
  <2>5. PICK x \in m : TRUE
    BY <2>4
  <2>6. f[m] = c[x] + f[m \ {x}] /\ g[m] = d[x] + g[m \ {x}] /\ c[x] = d[x]
    BY <2>3 DEF Sums
  <2> QED
    BY <2>3, <2>6
<1> QED
    BY <1>1

\* The sum without an element, of no elements, and of the same numbers.
LEMMA SumSplit ==
    ASSUME NEW S, IsFiniteSet(S), NEW c, \A x \in S : c[x] \in Int
    PROVE  /\ SumOver(c, S) \in Int
           /\ S = {} => SumOver(c, S) = 0
           /\ \A x \in S : SumOver(c, S) = c[x] + SumOver(c, S \ {x})
<1>1. PICK f : Sums(f, c, S) /\ SumOver(c, S) = f[S]
    BY SumOverIsSum
<1>2. ASSUME NEW x \in S
      PROVE  SumOver(c, S) = c[x] + SumOver(c, S \ {x})
  <2>1. IsFiniteSet(S \ {x})
    BY FS_RemoveElement
  <2>2. PICK g : Sums(g, c, S \ {x}) /\ SumOver(c, S \ {x}) = g[S \ {x}]
    BY <2>1, SumOverIsSum
  <2>3. f[S \ {x}] = g[S \ {x}]
    BY <1>1, <2>1, <2>2, SumsAgree
  <2> QED
    BY <1>1, <2>2, <2>3 DEF Sums
<1> QED
    BY <1>1, <1>2 DEF Sums

\* The sums of the same numbers are the same.
LEMMA SumSame ==
    ASSUME NEW S, IsFiniteSet(S), NEW c, NEW d, \A x \in S : c[x] \in Int /\ c[x] = d[x]
    PROVE  SumOver(c, S) = SumOver(d, S)
<1>1. PICK f : Sums(f, c, S) /\ SumOver(c, S) = f[S]
    BY SumOverIsSum
<1>2. PICK g : Sums(g, d, S) /\ SumOver(d, S) = g[S]
    BY SumOverIsSum
<1> QED
    BY <1>1, <1>2, SumsAgree

\* Zeros add up to zero.
LEMMA SumOfZeros ==
    ASSUME NEW S, IsFiniteSet(S), NEW c, \A x \in S : c[x] = 0
    PROVE  SumOver(c, S) = 0
<1> DEFINE T == {s \in SUBSET S : SumOver(c, s) # 0}
<1>1. T = {}
  <2> SUFFICES ASSUME T # {}
               PROVE  FALSE
    OBVIOUS
  <2>1. T \subseteq SUBSET S
    OBVIOUS
  <2> HIDE DEF T
  <2>2. PICK m \in T : \A x \in m : m \ {x} \notin T
    BY <2>1, SmallestSubset
  <2>3. m \in SUBSET S /\ SumOver(c, m) # 0 /\ \A x \in m : SumOver(c, m \ {x}) = 0
    BY <2>2 DEF T
  <2>4. IsFiniteSet(m) /\ \A x \in m : c[x] \in Int
    BY <2>3, FS_Subset
  <2>5. PICK x \in m : TRUE
    BY <2>3, <2>4, SumSplit
  <2>6. SumOver(c, m) = c[x] + SumOver(c, m \ {x})
    BY <2>4, SumSplit
  <2> QED
    BY <2>3, <2>6
<1> QED
    BY <1>1

\* The sum after one number has grown by one.
LEMMA SumGrows ==
    ASSUME NEW S, IsFiniteSet(S), NEW c, NEW d, \A x \in S : c[x] \in Int,
           NEW y, \A x \in S \ {y} : d[x] = c[x], y \in S => d[y] = c[y] + 1
    PROVE  SumOver(d, S) = IF y \in S THEN SumOver(c, S) + 1 ELSE SumOver(c, S)
<1>1. CASE y \notin S
    BY <1>1, SumSame
<1>2. CASE y \in S
  <2>1. IsFiniteSet(S \ {y})
    BY FS_RemoveElement
  <2>2. SumOver(d, S \ {y}) = SumOver(c, S \ {y}) /\ SumOver(c, S \ {y}) \in Int
    BY <2>1, SumSame, SumSplit
  <2>3. SumOver(c, S) = c[y] + SumOver(c, S \ {y}) /\ c[y] \in Int
    BY <1>2, SumSplit
  <2>4. \A x \in S : d[x] \in Int
    BY <1>2
  <2>5. SumOver(d, S) = d[y] + SumOver(d, S \ {y})
    BY <1>2, <2>4, SumSplit
  <2> QED
    BY <1>2, <2>2, <2>3, <2>5
<1> QED
    BY <1>1, <1>2

\* The sum over two sets that have nothing in common.
LEMMA SumOfUnion ==
    ASSUME NEW A, NEW B, IsFiniteSet(A), IsFiniteSet(B), A \cap B = {},
           NEW c, \A x \in A \cup B : c[x] \in Int
    PROVE  SumOver(c, A \cup B) = SumOver(c, A) + SumOver(c, B)
<1> DEFINE T == {s \in SUBSET B : SumOver(c, A \cup s) # SumOver(c, A) + SumOver(c, s)}
<1>1. T = {}
  <2> SUFFICES ASSUME T # {}
               PROVE  FALSE
    OBVIOUS
  <2>1. T \subseteq SUBSET B
    OBVIOUS
  <2> HIDE DEF T
  <2>2. PICK m \in T : \A x \in m : m \ {x} \notin T
    BY <2>1, SmallestSubset
  <2> USE DEF T
  <2>3. m \in SUBSET B /\ IsFiniteSet(m)
    BY <2>2, FS_Subset
  <2>4. IsFiniteSet(A \cup m) /\ (\A x \in A \cup m : c[x] \in Int)
    BY <2>3, FS_Union
  <2>5. SumOver(c, A) \in Int
    BY SumSplit
  <2>6. CASE m = {}
    <3>1. A \cup m = A /\ SumOver(c, m) = 0
      BY <2>3, <2>4, <2>6, SumSplit
    <3>2. SumOver(c, A \cup m) = SumOver(c, A) + SumOver(c, m)
      <4>1. PICK a \in Int : a = SumOver(c, A)
        BY <2>5
      <4>2. SumOver(c, A \cup m) = a
        BY <3>1, <4>1
      <4>3. a = a + 0
        OBVIOUS
      <4> QED
        BY <3>1, <4>1, <4>2, <4>3
    <3> QED
      BY <2>2, <3>2
  <2>7. CASE m # {}
    <3>1. PICK x \in m : TRUE
      BY <2>7
    <3>2. m \ {x} \in SUBSET B /\ m \ {x} \notin T
      BY <2>2, <2>3
    <3>3. SumOver(c, A \cup (m \ {x})) = SumOver(c, A) + SumOver(c, m \ {x})
      BY <3>2
    <3>4. (A \cup m) \ {x} = A \cup (m \ {x})
      BY <2>3
    <3>5. SumOver(c, A \cup m) = c[x] + SumOver(c, (A \cup m) \ {x})
      BY <2>4, SumSplit
    <3>6. SumOver(c, m) = c[x] + SumOver(c, m \ {x}) /\ c[x] \in Int
      BY <2>3, <2>4, SumSplit
    <3>7. SumOver(c, m \ {x}) \in Int
      BY <2>3, <2>4, SumSplit, FS_RemoveElement
    <3> QED
      BY <2>2, <2>5, <3>3, <3>4, <3>5, <3>6, <3>7
  <2> QED
    BY <2>6, <2>7
<1> QED
    BY <1>1

-------------------------------------------------------------------------------
(* The histogram.                                                          *)
Between(lower, upper) == {v \in Values : lower <= v /\ v < upper}

\* The values between two bounds are finitely many.
LEMMA BetweenIsFinite ==
    ASSUME NEW lower, NEW upper
    PROVE  IsFiniteSet(Between(lower, upper)) /\ Between(lower, upper) \subseteq Values
    BY HistogramAssumption, FS_Subset DEF Between

\* A bin has the values whose index is its own.
LEMMA Division ==
    ASSUME NEW a \in Int, NEW b \in Int, b > 0, NEW i \in Int
    PROVE  a \div b \in Int /\ (i = a \div b <=> i * b <= a /\ a < i * b + b)
<1> DEFINE q == a \div b
<1>1. q \in Int /\ q * b <= a /\ a < q * b + b
    OBVIOUS
<1> HIDE DEF q
<1>2. ASSUME i < q
      PROVE  i * b + b <= q * b
  <2>1. PICK k \in Nat : q = i + 1 + k
    <3>1. q - i - 1 \in Nat /\ q = i + 1 + (q - i - 1)
      BY <1>1, <1>2
    <3> QED
      BY <3>1
  <2>2. q * b = i * b + b + k * b
    BY <2>1
  <2>3. k * b >= 0
    BY <2>1
  <2> QED
    BY <2>2, <2>3
<1>3. ASSUME q < i
      PROVE  q * b + b <= i * b
  <2>1. PICK k \in Nat : i = q + 1 + k
    <3>1. i - q - 1 \in Nat /\ i = q + 1 + (i - q - 1)
      BY <1>1, <1>3
    <3> QED
      BY <3>1
  <2>2. i * b = q * b + b + k * b
    BY <1>1, <2>1
  <2>3. k * b >= 0
    BY <2>1
  <2> QED
    BY <1>1, <2>2, <2>3
<1>4. i = q <=> i * b <= a /\ a < i * b + b
  <2>1. i * b \in Int /\ q * b \in Int
    BY <1>1
  <2> QED
    BY <1>1, <1>2, <1>3, <2>1
<1> QED
    BY <1>1, <1>4 DEF q

\* A bin holds the values whose index is its own.
LEMMA BinOfValue ==
    ASSUME HistogramOK, NEW value \in Values, m_width > 0, NEW i \in Int
    PROVE  /\ Index(value) \in Int
           /\ value \in Between(Lower(i), Upper(i)) <=> i = Index(value)
<1>1. value \in Int /\ m_lower \in Int /\ m_width \in Int
    BY HistogramAssumption DEF HistogramOK
<1>2. PICK a \in Int : a = value - m_lower
    BY <1>1
<1>3. PICK w \in Int : w = i * m_width
    BY <1>1
<1>4. a \div m_width \in Int /\ (i = a \div m_width <=> w <= a /\ a < w + m_width)
    BY <1>1, <1>3, Division
<1>5. Lower(i) = m_lower + w /\ Upper(i) = m_lower + w + m_width
    BY <1>3 DEF Lower, Upper
<1>6. m_lower + w <= value <=> w <= a
    BY <1>1, <1>2, <1>3
<1>7. value < m_lower + w + m_width <=> a < w + m_width
    BY <1>1, <1>2, <1>3
<1> QED
    BY <1>2, <1>4, <1>5, <1>6, <1>7 DEF Index, Between

\* An empty histogram.
Cleared ==
    /\ m_n \in Nat \ {0} /\ m_bins = Empty(m_n)
    /\ inside = [v \in Values |-> 0] /\ wild = FALSE

\* The bins of an empty histogram count what it has.
LEMMA ClearedCounts ==
    Cleared => BinsCount /\ m_bins \in [0..m_n - 1 -> Int] /\ inside \in [Values -> Int]
<1> SUFFICES ASSUME Cleared
             PROVE  BinsCount /\ m_bins \in [0..m_n - 1 -> Int] /\ inside \in [Values -> Int]
    OBVIOUS
<1> USE DEF Cleared
<1>1. \A S \in SUBSET Values : SumOver(inside, S) = 0
  <2> SUFFICES ASSUME NEW S \in SUBSET Values
               PROVE  SumOver(inside, S) = 0
    OBVIOUS
  <2>1. IsFiniteSet(S)
    BY HistogramAssumption, FS_Subset
  <2> QED
    BY <2>1, SumOfZeros
<1>2. m_bins = [i \in 0..m_n - 1 |-> 0]
    BY DEF Empty
<1>3. SumOf(m_bins) = 0
  <2>1. IsFiniteSet(0..m_n - 1)
    BY FS_Interval
  <2> QED
    BY <1>2, <2>1, SumOfZeros DEF SumOf
<1>5. SumOf(inside) = 0
    BY <1>1 DEF SumOf
<1>6. \A i \in DOMAIN m_bins : m_bins[i] = Among(Lower(i), Upper(i))
    BY <1>1, <1>2 DEF Among
<1> QED
    BY <1>2, <1>3, <1>5, <1>6 DEF BinsCount, Integral

\* The same of the next state.
LEMMA ClearedCountsThen ==
    Cleared' => (BinsCount /\ m_bins \in [0..m_n - 1 -> Int] /\ inside \in [Values -> Int])'
    BY ClearedCounts, PTL

\* add() counts a value in the bin that holds it; it misses the bins only where
\* they do not reach up to m_upper.
LEMMA CountStep ==
    ASSUME HistogramInv, NEW value \in Values, Add(value)
    PROVE  HistogramInv'
<1> DEFINE i == Index(value)
<1>1. /\ HistogramOK /\ BinsCount /\ ~wild /\ m_lower <= value /\ value < m_upper
      /\ inside' = [inside EXCEPT ![value] = @ + 1]
      /\ UNCHANGED shape
    BY DEF HistogramInv, Add
<1>2. /\ m_n \in Nat \ {0} /\ m_lower \in Int /\ m_upper \in Int /\ m_width \in Int
      /\ value \in Int /\ m_width >= 0
    BY <1>1, HistogramAssumption DEF HistogramOK
<1>3. /\ UNCHANGED <<m_n, m_lower, m_upper, m_width>>
      /\ inside \in [Values -> Int] /\ m_bins \in [0..m_n - 1 -> Int]
    BY <1>1 DEF shape, HistogramOK
<1>4. /\ inside' \in [Values -> Int] /\ inside'[value] = inside[value] + 1
      /\ \A v \in Values \ {value} : inside'[v] = inside[v]
    BY <1>1, <1>3
<1>5. CASE m_width # 0 /\ i \in DOMAIN m_bins
  <2>1. m_bins' = [m_bins EXCEPT ![i] = @ + 1] /\ wild' = wild
    BY <1>5 DEF Add
  <2>2. /\ m_bins' \in [0..m_n - 1 -> Int] /\ i \in 0..m_n - 1
        /\ m_bins'[i] = m_bins[i] + 1 /\ \A j \in 0..m_n - 1 : j # i => m_bins'[j] = m_bins[j]
    BY <1>3, <1>5, <2>1
  <2>3. ASSUME NEW j \in 0..m_n - 1
        PROVE  m_bins'[j] = Among(Lower(j), Upper(j))'
    <3> DEFINE B == Between(Lower(j), Upper(j))
    <3>1. j \in Int /\ m_width > 0
      BY <1>2, <1>5
    <3>2. value \in B <=> j = i
      BY <1>1, <3>1, BinOfValue
    <3>3. IsFiniteSet(B) /\ B \subseteq Values
      BY BetweenIsFinite
    <3>4. m_bins[j] = SumOver(inside, B) /\ m_bins[j] \in Int
      BY <1>1, <1>3 DEF BinsCount, Among, Between
    <3>5. Among(Lower(j), Upper(j))' = SumOver(inside', B)
      BY <1>3 DEF Among, Between, Lower, Upper
    <3> HIDE DEF B
    <3>6. SumOver(inside', B) = IF value \in B THEN SumOver(inside, B) + 1 ELSE SumOver(inside, B)
      BY <1>3, <1>4, <3>3, SumGrows
    <3> HIDE DEF i
    <3> QED
      BY <2>2, <3>2, <3>4, <3>5, <3>6
  <2>4. SumOf(m_bins') = SumOf(m_bins) + 1
    <3>1. IsFiniteSet(0..m_n - 1)
      BY <1>2, FS_Interval
    <3>2. DOMAIN m_bins = 0..m_n - 1 /\ DOMAIN m_bins' = 0..m_n - 1
      BY <1>3, <2>2
    <3>3. \A j \in 0..m_n - 1 : m_bins[j] \in Int
      BY <1>3
    <3> HIDE DEF i
    <3>5. PICK S : S = 0..m_n - 1
      OBVIOUS
    <3>6. /\ IsFiniteSet(S) /\ i \in S /\ \A x \in S : m_bins[x] \in Int
          /\ \A x \in S \ {i} : m_bins'[x] = m_bins[x]
      BY <2>2, <3>1, <3>3, <3>5
    <3>7. SumOver(m_bins', S) = SumOver(m_bins, S) + 1
      BY <2>2, <3>6, SumGrows
    <3>4. SumOver(m_bins', 0..m_n - 1) = SumOver(m_bins, 0..m_n - 1) + 1
      BY <3>5, <3>7
    <3> QED
      BY <3>2, <3>4 DEF SumOf
  <2>5. SumOf(inside') = SumOf(inside) + 1
    BY <1>3, <1>4, HistogramAssumption, SumGrows DEF SumOf
  <2>6. SumOf(m_bins) = SumOf(inside)
    BY <1>1 DEF BinsCount, Integral
  <2>7. BinsCount'
    BY <1>1, <2>1, <2>2, <2>3, <2>4, <2>5, <2>6 DEF BinsCount, Integral
  <2>8. HistogramOK'
    BY <1>1, <1>3, <1>4, <2>1, <2>2 DEF HistogramOK
  <2> QED
    BY <2>7, <2>8 DEF HistogramInv
<1>6. CASE ~(m_width # 0 /\ i \in DOMAIN m_bins)
  <2>1. wild' = TRUE /\ m_bins' = m_bins
    BY <1>6 DEF Add
  <2>2. m_n * m_width < m_upper - m_lower
    <3>1. CASE m_width = 0
      BY <1>1, <1>2, <3>1
    <3>2. CASE m_width # 0
      <4>1. i \in Int /\ i \notin 0..m_n - 1
        BY <1>1, <1>2, <1>3, <1>6, <3>2, BinOfValue
      <4>2. PICK a \in Int : a = value - m_lower /\ a >= 0 /\ i = a \div m_width
        BY <1>1, <1>2 DEF Index
      <4>3. i * m_width <= a
        BY <1>2, <3>2, <4>1, <4>2, Division
      <4>4. i >= m_n
        BY <1>2, <3>2, <4>1, <4>2
      <4> HIDE DEF i
      <4>5. PICK k \in Nat : i = m_n + k
        <5>1. i - m_n \in Nat /\ i = m_n + (i - m_n)
          BY <1>2, <4>1, <4>4
        <5> QED
          BY <5>1
      <4>6. i * m_width = m_n * m_width + k * m_width /\ k * m_width >= 0
        BY <1>2, <4>5
      <4>7. m_n * m_width \in Int /\ k * m_width \in Int
        BY <1>2, <4>5
      <4> QED
        BY <1>1, <1>2, <4>2, <4>3, <4>6, <4>7
    <3> QED
      BY <3>1, <3>2
  <2>3. BinsCount'
    BY <1>3, <2>1, <2>2 DEF BinsCount
  <2>4. HistogramOK'
    BY <1>1, <1>3, <1>4, <2>1 DEF HistogramOK
  <2> QED
    BY <2>3, <2>4 DEF HistogramInv
<1> QED
    BY <1>5, <1>6

\* The resets leave an empty histogram.
LEMMA ClearStep ==
    ASSUME HistogramInv, NEW n \in Nat \ {0}, m_n' = n, Clear(n),
           m_lower' \in Int, m_upper' \in Int, m_width' \in Int,
           m_lower' < m_upper' => m_width' >= 0
    PROVE  HistogramInv'
<1>1. wild' = FALSE /\ m_bins' = Empty(n) /\ inside' = [v \in Values |-> 0]
    BY DEF Clear, HistogramInv, HistogramOK
<1> QED
    BY <1>1, ClearedCountsThen DEF Cleared, HistogramInv, HistogramOK

\* Bins have no negative width where lower is below upper.
LEMMA Widths ==
    /\ \A n \in Nat \ {0}, w \in Int : 0 < w * n => w >= 0
    /\ \A n \in Nat \ {0}, l \in Int, u \in Int :
        (u - l) \div n \in Int /\ (l < u => (u - l) \div n >= 0)
    OBVIOUS

\* Every step keeps the invariant of a histogram.
LEMMA HistogramStep == HistogramInv /\ [HistogramNext]_histogramVars => HistogramInv'
<1> SUFFICES ASSUME HistogramInv, [HistogramNext]_histogramVars
             PROVE  HistogramInv'
    OBVIOUS
<1>1. ASSUME NEW n \in Sizes
      PROVE  n \in Nat \ {0}
    BY HistogramAssumption
<1>2. /\ m_n \in Nat \ {0} /\ m_lower \in Int /\ m_upper \in Int /\ m_width \in Int
      /\ m_lower < m_upper => m_width >= 0
    BY DEF HistogramInv, HistogramOK
<1>3. CASE UNCHANGED histogramVars
  <2>1. HistogramOK'
    BY <1>3 DEF HistogramInv, HistogramOK, histogramVars, shape
  <2>2. BinsCount'
    BY <1>3 DEF HistogramInv, BinsCount, Integral, Among, Lower, Upper, histogramVars, shape
  <2> QED
    BY <2>1, <2>2 DEF HistogramInv
<1>4. CASE \E value \in Values : AddOutside(value)
    BY <1>3, <1>4 DEF AddOutside
<1>5. CASE ResetBins
    BY <1>2, <1>5, ClearStep DEF ResetBins, shape
<1>6. CASE \E n \in Sizes : ResetSize(n)
    BY <1>1, <1>2, <1>6, ClearStep DEF ResetSize
<1>7. CASE \E n \in Sizes, width \in BinWidths : ResetWidth(n, width)
  <2>1. PICK n \in Sizes, width \in BinWidths : ResetWidth(n, width)
    BY <1>7
  <2>2. n \in Nat \ {0} /\ width \in Int /\ width * n \in Int /\ (0 < width * n => width >= 0)
    BY <1>1, HistogramAssumption, Widths
  <2> QED
    BY <2>1, <2>2, ClearStep DEF ResetWidth
<1>8. CASE \E n \in Sizes, lower, upper \in Bounds : lower < upper /\ ResetBounds(n, lower, upper)
  <2>1. PICK n \in Sizes, lower \in Bounds, upper \in Bounds : ResetBounds(n, lower, upper)
    BY <1>8
  <2>2. n \in Nat \ {0} /\ lower \in Int /\ upper \in Int
    BY <1>1, HistogramAssumption
  <2> QED
    BY <2>1, <2>2, ClearStep, Widths DEF ResetBounds
<1> QED
    BY <1>3, <1>4, <1>5, <1>6, <1>7, <1>8, CountStep DEF HistogramNext

\* The invariant of a histogram holds initially.
LEMMA HistogramStart == HistogramInit => HistogramInv
<1> SUFFICES ASSUME HistogramInit
             PROVE  HistogramInv
    OBVIOUS
<1>1. m_n \in Nat \ {0}
    BY HistogramAssumption DEF HistogramInit
<1>2. m_bins = Empty(m_n) /\ inside = [v \in Values |-> 0] /\ wild = FALSE
    BY DEF HistogramInit
<1>3. /\ m_lower \in Int /\ m_upper \in Int /\ m_width \in Int
      /\ m_lower < m_upper => m_width >= 0
  <2>1. CASE m_lower = 0 /\ m_upper = 0 /\ m_width = 0
    BY <2>1
  <2>2. CASE m_lower = 0 /\ m_width \in BinWidths /\ m_upper = m_width * m_n
    BY <1>1, <2>2, HistogramAssumption, Widths
  <2>3. CASE /\ m_lower \in Bounds /\ m_upper \in Bounds /\ m_lower < m_upper
             /\ m_width = (m_upper - m_lower) \div m_n
    BY <1>1, <2>3, HistogramAssumption, Widths
  <2> QED
    BY <2>1, <2>2, <2>3 DEF HistogramInit
<1>4. BinsCount /\ m_bins \in [0..m_n - 1 -> Int] /\ inside \in [Values -> Int]
    BY <1>1, <1>2, ClearedCounts DEF Cleared
<1> QED
    BY <1>1, <1>2, <1>3, <1>4 DEF HistogramInv, HistogramOK

\* The inductive invariant of a histogram.
THEOREM HistogramInvariance == HistogramSpec => []HistogramInv
    BY HistogramStart, HistogramStep, PTL DEF HistogramSpec

\* histogram::add and the resets: for any numbers of bins, bounds and widths,
\* every value inside the bounds is counted in the bin that holds it, and a
\* bin that does not exist is written to only where the bins do not reach up
\* to m_upper.
THEOREM ValuesAreInTheirBins == HistogramSpec => []BinsCount
<1>1. HistogramInv => BinsCount
    BY DEF HistogramInv
<1> QED
    BY HistogramInvariance, <1>1, PTL

-------------------------------------------------------------------------------
\* The bins up to the i-th count what lies below its end.
LEMMA BinsUpTo ==
    ASSUME HistogramInv, ~wild, m_width >= 0, NEW i \in 0..m_n - 1
    PROVE  SumOver(m_bins, 0..i) = Among(m_lower, Upper(i))
<1>1. /\ m_n \in Nat \ {0} /\ m_lower \in Int /\ m_width \in Int
      /\ m_bins \in [0..m_n - 1 -> Int] /\ inside \in [Values -> Int]
    BY DEF HistogramInv, HistogramOK
<1>2. ASSUME NEW j \in 0..m_n - 1
      PROVE  /\ m_bins[j] = SumOver(inside, Between(Lower(j), Upper(j)))
             /\ m_bins[j] \in Int /\ j \in Nat
             /\ IsFiniteSet(0..j) /\ \A k \in 0..j : m_bins[k] \in Int
  <2>1. m_bins[j] = Among(Lower(j), Upper(j)) /\ m_bins[j] \in Int
    BY <1>1 DEF HistogramInv, BinsCount
  <2>2. Among(Lower(j), Upper(j)) = SumOver(inside, Between(Lower(j), Upper(j)))
    BY DEF Among, Between
  <2>3. j \in Nat /\ IsFiniteSet(0..j)
    BY <1>1, FS_Interval
  <2>4. \A k \in 0..j : k \in 0..m_n - 1
    BY <1>1
  <2> QED
    BY <1>1, <2>1, <2>2, <2>3, <2>4
<1> DEFINE T == {j \in 0..m_n - 1 : SumOver(m_bins, 0..j) # SumOver(inside, Between(m_lower, Upper(j)))}
<1>3. T = {}
  <2> SUFFICES ASSUME T # {}
               PROVE  FALSE
    OBVIOUS
  <2>1. T \subseteq Nat
    BY <1>1
  <2> HIDE DEF T
  <2>2. PICK m \in T : \A k \in T : m <= k
    BY <2>1, SmallestOf
  <2> USE DEF T
  <2>3. m \in 0..m_n - 1 /\ SumOver(m_bins, 0..m) # SumOver(inside, Between(m_lower, Upper(m)))
    BY <2>2
  <2>4. CASE m = 0
    <3>1. 0..m = {m} /\ m \in 0..m /\ (0..m) \ {m} = {}
      BY <2>4
    <3>2. SumOver(m_bins, 0..m) = m_bins[m] + SumOver(m_bins, {})
      <4>1. PICK S : S = 0..m
        OBVIOUS
      <4>2. IsFiniteSet(S) /\ (\A x \in S : m_bins[x] \in Int) /\ m \in S
        BY <1>2, <2>3, <3>1, <4>1
      <4>3. SumOver(m_bins, S) = m_bins[m] + SumOver(m_bins, S \ {m})
        BY <4>2, SumSplit
      <4> QED
        BY <3>1, <4>1, <4>3
    <3>3. SumOver(m_bins, {}) = 0
      BY FS_EmptySet, SumSplit
    <3>4. Lower(m) = m_lower
      BY <1>1, <2>4 DEF Lower
    <3> QED
      BY <1>2, <2>3, <3>2, <3>3, <3>4
  <2>5. CASE m # 0
    <3>1. PICK k \in 0..m_n - 1 : m = k + 1
      <4>1. m - 1 \in 0..m_n - 1 /\ m = (m - 1) + 1
        BY <1>1, <2>3, <2>5
      <4> QED
        BY <4>1
    <3>2. SumOver(m_bins, 0..k) = SumOver(inside, Between(m_lower, Upper(k)))
      <4>1. k \notin T
        BY <1>1, <2>2, <3>1
      <4> QED
        BY <4>1
    <3>3. (0..m) \ {m} = 0..k /\ m \in 0..m
      BY <1>1, <2>3, <3>1
    <3>4. SumOver(m_bins, 0..m) = m_bins[m] + SumOver(m_bins, 0..k)
      <4>1. PICK S : S = 0..m
        OBVIOUS
      <4>2. IsFiniteSet(S) /\ (\A x \in S : m_bins[x] \in Int) /\ m \in S
        BY <1>2, <2>3, <3>3, <4>1
      <4>3. SumOver(m_bins, S) = m_bins[m] + SumOver(m_bins, S \ {m})
        BY <4>2, SumSplit
      <4> QED
        BY <3>3, <4>1, <4>3
    <3>5. PICK w \in Int : w = k * m_width /\ w >= 0
      BY <1>1, <3>1
    <3>6. /\ Upper(k) = m_lower + w + m_width /\ Lower(m) = m_lower + w + m_width
          /\ Upper(m) = m_lower + w + m_width + m_width
      BY <1>1, <3>1, <3>5 DEF Lower, Upper
    <3> DEFINE A == Between(m_lower, Upper(k))
               B == Between(Lower(m), Upper(m))
    <3>7. A \cup B = Between(m_lower, Upper(m)) /\ A \cap B = {}
      <4>1. PICK a \in Int, b \in Int, d \in Int :
              /\ a = m_lower /\ b = Upper(k) /\ d = Upper(m) /\ Lower(m) = b
              /\ a <= b /\ b <= d
        BY <1>1, <3>5, <3>6
      <4>2. /\ Between(a, b) \cup Between(b, d) = Between(a, d)
            /\ Between(a, b) \cap Between(b, d) = {}
        BY <4>1, HistogramAssumption DEF Between
      <4> QED
        BY <4>1, <4>2
    <3>8. IsFiniteSet(A) /\ IsFiniteSet(B) /\ \A v \in A \cup B : inside[v] \in Int
      BY <1>1, BetweenIsFinite
    <3> HIDE DEF A, B
    <3>9. SumOver(inside, A \cup B) = SumOver(inside, A) + SumOver(inside, B)
      BY <3>7, <3>8, SumOfUnion
    <3>10. SumOver(inside, A) \in Int /\ SumOver(inside, B) \in Int
      BY <3>8, SumSplit
    <3> USE DEF A, B
    <3>11. m_bins[m] = SumOver(inside, B)
      BY <1>2, <2>3
    <3> HIDE DEF A, B
    <3>12. SumOver(m_bins, 0..m) = SumOver(inside, B) + SumOver(inside, A)
      BY <3>2, <3>4, <3>11 DEF A
    <3>13. SumOver(inside, Between(m_lower, Upper(m))) = SumOver(inside, A) + SumOver(inside, B)
      BY <3>7, <3>9
    <3>14. SumOver(inside, A) + SumOver(inside, B) = SumOver(inside, B) + SumOver(inside, A)
      BY <3>10
    <3> QED
      BY <2>3, <3>12, <3>13, <3>14
  <2> QED
    BY <2>4, <2>5
<1>4. Among(m_lower, Upper(i)) = SumOver(inside, Between(m_lower, Upper(i)))
    BY DEF Among, Between
<1> QED
    BY <1>3, <1>4

\* percentile() follows from what the bins count.
LEMMA PercentileLemma ==
    ASSUME HistogramInv, ~wild, NEW edge \in 1..SumOf(inside)
    PROVE  /\ Among(m_lower, Percentile(edge)) < edge
           /\ Among(m_lower, Percentile(edge) + m_width) >= edge
<1>1. /\ m_n \in Nat \ {0} /\ m_lower \in Int /\ m_width \in Int
      /\ m_bins \in [0..m_n - 1 -> Int] /\ inside \in [Values -> Int]
    BY DEF HistogramInv, HistogramOK
<1>2. SumOver(m_bins, 0..m_n - 1) = SumOf(inside)
  <2>1. DOMAIN m_bins = 0..m_n - 1
    BY <1>1
  <2> QED
    BY <2>1 DEF HistogramInv, BinsCount, Integral, SumOf
<1>3. SumOf(inside) \in Int /\ edge \in Int /\ 1 <= edge /\ edge <= SumOf(inside)
  <2>1. SumOf(inside) \in Int
    BY <1>1, HistogramAssumption, SumSplit DEF SumOf
  <2> QED
    BY <2>1
<1>4. m_width >= 0
  <2> SUFFICES ASSUME m_width < 0
               PROVE  FALSE
    BY <1>1
  <2>1. ASSUME NEW j \in 0..m_n - 1
        PROVE  m_bins[j] = 0
    <3>1. PICK l \in Int : l = Lower(j)
      BY <1>1 DEF Lower
    <3>2. Between(Lower(j), Upper(j)) = {}
      BY <1>1, <3>1, HistogramAssumption DEF Between, Upper
    <3>3. m_bins[j] = SumOver(inside, Between(Lower(j), Upper(j)))
      BY <1>1 DEF HistogramInv, BinsCount, Among, Between
    <3> QED
      BY <3>2, <3>3, FS_EmptySet, SumSplit
  <2>2. SumOver(m_bins, 0..m_n - 1) = 0
    <3>1. IsFiniteSet(0..m_n - 1)
      BY <1>1, FS_Interval
    <3> QED
      BY <2>1, <3>1, SumOfZeros
  <2> QED
    BY <1>2, <1>3, <2>2
<1> DEFINE Upto(i) == SumOver(m_bins, 0..i)
           reached == {i \in DOMAIN m_bins : Upto(i) >= edge}
<1>5. \A i \in 0..m_n - 1 : Upto(i) = Among(m_lower, Upper(i)) /\ Upto(i) \in Int
  <2> SUFFICES ASSUME NEW i \in 0..m_n - 1
               PROVE  Upto(i) = Among(m_lower, Upper(i)) /\ Upto(i) \in Int
    OBVIOUS
  <2>3. IsFiniteSet(0..i)
    BY <1>1, FS_Interval
  <2>1. IsFiniteSet(0..i) /\ \A k \in 0..i : k \in 0..m_n - 1
    BY <1>1, <2>3
  <2>2. \A k \in 0..i : m_bins[k] \in Int
    BY <1>1, <2>1
  <2> QED
    BY <1>4, <2>1, <2>2, SumSplit, BinsUpTo
<1>6. m_n - 1 \in reached /\ reached \subseteq Nat /\ reached \subseteq 0..m_n - 1
    BY <1>1, <1>2, <1>3
<1>7. Percentile(edge) = Lower(CHOOSE i \in reached : \A j \in reached : i <= j)
    BY <1>6 DEF Percentile
<1> HIDE DEF reached
<1>8. PICK i \in reached : (\A j \in reached : i <= j) /\ Percentile(edge) = Lower(i)
    BY <1>6, <1>7, SmallestOf
<1>9. i \in 0..m_n - 1 /\ Upto(i) >= edge
    BY <1>6, <1>8 DEF reached
<1> HIDE DEF Upto
<1>10. Among(m_lower, Lower(i) + m_width) >= edge
    BY <1>5, <1>9 DEF Upper
<1>11. Among(m_lower, Lower(i)) < edge
  <2>1. CASE i = 0
    <3>1. Lower(i) = m_lower
      BY <1>1, <2>1 DEF Lower
    <3>2. Between(m_lower, m_lower) = {}
      BY <1>1, HistogramAssumption DEF Between
    <3>3. Among(m_lower, m_lower) = 0
      <4>1. Among(m_lower, m_lower) = SumOver(inside, Between(m_lower, m_lower))
        BY DEF Among, Between
      <4> QED
        BY <3>2, <4>1, FS_EmptySet, SumSplit
    <3> QED
      BY <1>3, <3>1, <3>3
  <2>2. CASE i # 0
    <3>1. PICK k \in 0..m_n - 1 : i = k + 1
      <4>1. i - 1 \in 0..m_n - 1 /\ i = (i - 1) + 1
        BY <1>1, <1>9, <2>2
      <4> QED
        BY <4>1
    <3>2. k \notin reached
      BY <1>1, <1>8, <3>1
    <3>3. ~(Upto(k) >= edge)
      BY <1>1, <3>2 DEF reached
    <3>4. Upper(k) = Lower(i)
      BY <1>1, <3>1 DEF Upper, Lower
    <3>5. Upto(k) = Among(m_lower, Lower(i)) /\ Upto(k) \in Int
      BY <1>5, <3>4
    <3> QED
      BY <1>3, <3>3, <3>5
  <2> QED
    BY <2>1, <2>2
<1> QED
    BY <1>8, <1>10, <1>11

\* percentile() names the first bin up to whose end the given number of
\* values lies, for any histogram none of whose bins was missing.
THEOREM PercentilesCount == HistogramSpec => []PercentileCounts
<1>1. HistogramInv => PercentileCounts
    BY PercentileLemma DEF PercentileCounts
<1> QED
    BY HistogramInvariance, <1>1, PTL

-------------------------------------------------------------------------------
(* The two loops of swap_last.                                             *)
Swaps(f, elements, pairs) ==
    /\ f[0] = elements
    /\ \A k \in 1..Len(pairs) : f[k] = Exchange(f[k - 1], pairs[k])

SwapAll(elements, pairs) == FoldLeft(Exchange, elements, pairs)

\* The greatest of the first numbers is the last of them.
LEMMA MaxIsGreatest ==
    ASSUME NEW k \in Nat \ {0}
    PROVE  Max(1..k) = k
<1>1. k \in 1..k /\ \A j \in 1..k : k >= j
    OBVIOUS
<1>2. \A m \in 1..k : (\A j \in 1..k : m >= j) => m = k
    BY <1>1
<1> QED
    BY <1>1, <1>2 DEF Max

\* What a loop of exchanges leaves is the last of the tables it goes through.
LEMMA FoldIsSwaps ==
    ASSUME NEW D, NEW W, NEW elements \in Table(D, W), NEW pairs \in Seq(D \X D)
    PROVE  \E f : Swaps(f, elements, pairs) /\ SwapAll(elements, pairs) = f[Len(pairs)]
<1> USE DEF Table
<1>1. PICK K \in Nat : K = Len(pairs) /\ DOMAIN pairs = 1..K
    BY SMT
<1> DEFINE S == 1..K
           V == [D -> W]
           Iterates(f) == f = [s \in SUBSET S |-> IF s = {} THEN elements
                                 ELSE Exchange(f[s \ {Max(s)}], pairs[Max(s)])]
           F == CHOOSE f : Iterates(f)
           pick == [s \in SUBSET S |-> Max(s)]
           op == [x \in S |-> [v \in V |-> Exchange(v, pairs[x])]]
<1>2. SwapAll(elements, pairs) = F[S]
    BY <1>1 DEF SwapAll, FoldLeft, MapThenFoldSet
<1>3. ASSUME NEW v \in V, NEW x \in S
      PROVE  Exchange(v, pairs[x]) \in V
  <2>1. pairs[x] \in D \X D
    BY <1>1
  <2>2. v[pairs[x][1]] \in W /\ v[pairs[x][2]] \in W
    BY <2>1
  <2> QED
    BY <2>2 DEF Exchange
<1>4. ASSUME NEW s \in SUBSET S, s # {}
      PROVE  Max(s) \in s
  <2> DEFINE T == {k \in 0..K : K - k \in s}
  <2>1. T \subseteq Nat /\ T # {}
    <3>1. PICK e \in s : e \in 1..K
      BY <1>4
    <3>2. K - e \in 0..K /\ K - (K - e) = e
      BY <3>1
    <3>3. K - e \in T
      BY <3>1, <3>2
    <3>4. T \subseteq 0..K /\ 0..K \subseteq Nat
      OBVIOUS
    <3> QED
      BY <3>3, <3>4
  <2> HIDE DEF T
  <2>2. PICK m \in T : \A k \in T : m <= k
    BY <2>1, SmallestOf
  <2>3. m \in 0..K /\ K - m \in s
    BY <2>2 DEF T
  <2>4. ASSUME NEW j \in s
        PROVE  K - m >= j
    <3>1. K - j \in 0..K /\ K - (K - j) = j
      OBVIOUS
    <3>2. K - j \in T
      BY <3>1 DEF T
    <3> QED
      BY <2>2, <2>3, <3>2
  <2> QED
    BY <2>3, <2>4 DEF Max
<1>5. \E f : Iterates(f)
  <2>1. IsFiniteSet(S)
    BY FS_Interval
  <2>2. Picks(pick, S)
    BY <1>4 DEF Picks
  <2>3. \A x \in S : \A v \in V : op[x][v] = Exchange(v, pairs[x])
    OBVIOUS
  <2>4. \A s \in SUBSET S : pick[s] = Max(s)
    OBVIOUS
  <2> HIDE DEF pick, op, V
  <2>5. Combines(op, S, V)
    BY <1>3, <2>3 DEF Combines
  <2>6. elements \in V
    BY DEF V
  <2>7. PICK f \in [SUBSET S -> V] : Iteration(S, elements, pick, op, f)
    BY <2>1, <2>2, <2>5, <2>6, FoldExists
  <2>8. ASSUME NEW s \in SUBSET S
        PROVE  f[s] = IF s = {} THEN elements ELSE Exchange(f[s \ {Max(s)}], pairs[Max(s)])
    <3>1. CASE s = {}
      BY <2>7, <3>1 DEF Iteration
    <3>2. CASE s # {}
      <4>1. PICK x \in s : x = Max(s) /\ x = pick[s]
        BY <1>4, <2>4, <3>2
      <4>2. f[s] = op[x][f[s \ {x}]]
        BY <2>7, <3>2, <4>1 DEF Iteration
      <4>3. f[s \ {x}] \in V
        OBVIOUS
      <4> QED
        BY <2>3, <3>2, <4>1, <4>2, <4>3
    <3> QED
      BY <3>1, <3>2
  <2>9. f = [s \in SUBSET S |-> f[s]]
    BY <2>7 DEF Iteration
  <2>10. Iterates(f)
    BY <2>8, <2>9
  <2> QED
    BY <2>10
<1>6. ASSUME NEW f, Iterates(f)
      PROVE  /\ f[{}] = elements
             /\ \A k \in 1..K : f[1..k] = Exchange(f[1..k - 1], pairs[k])
  <2>1. f[{}] = elements
    BY <1>6
  <2>2. ASSUME NEW k \in 1..K
        PROVE  f[1..k] = Exchange(f[1..k - 1], pairs[k])
    <3>3. (1..k) \ {k} = 1..k - 1
      OBVIOUS
    <3>4. \A j \in 1..k : j \in 1..K
      OBVIOUS
    <3>5. k \in 1..k
      OBVIOUS
    <3>1. 1..k \in SUBSET S /\ 1..k # {} /\ (1..k) \ {k} = 1..k - 1
      BY <3>3, <3>4, <3>5
    <3>2. Max(1..k) = k
      BY MaxIsGreatest
    <3> QED
      BY <1>6, <3>1, <3>2
  <2> QED
    BY <2>1, <2>2
<1> HIDE DEF Iterates
<1>7. Iterates(F)
    BY <1>5
<1> HIDE DEF F
<1> DEFINE f == [k \in 0..K |-> F[1..k]]
<1>8. f[0] = elements /\ f[K] = F[S]
  <2>1. 1..0 = {}
    OBVIOUS
  <2> QED
    BY <1>6, <1>7, <2>1
<1>9. \A k \in 1..K : f[k] = Exchange(f[k - 1], pairs[k])
  <2> SUFFICES ASSUME NEW k \in 1..K
               PROVE  f[k] = Exchange(f[k - 1], pairs[k])
    OBVIOUS
  <2>1. f[k] = F[1..k] /\ f[k - 1] = F[1..k - 1]
    OBVIOUS
  <2> HIDE DEF f
  <2> QED
    BY <1>6, <1>7, <2>1
<1> QED
    BY <1>1, <1>2, <1>8, <1>9 DEF Swaps

\* Pairs that have no element in common are exchanged one by one.
Apart(pairs) ==
    \A j, k \in 1..Len(pairs) : j # k =>
        {pairs[j][1], pairs[j][2]} \cap {pairs[k][1], pairs[k][2]} = {}

Exchanged(elements, pairs, K, D, after) ==
    /\ \A k \in 1..K : after[pairs[k][1]] = elements[pairs[k][2]]
                       /\ after[pairs[k][2]] = elements[pairs[k][1]]
    /\ \A p \in D : (\A k \in 1..K : p # pairs[k][1] /\ p # pairs[k][2]) => after[p] = elements[p]

\* A loop over pairs that are apart exchanges each of them, and nothing else.
LEMMA ExchangeApart ==
    ASSUME NEW D, NEW W, NEW elements \in Table(D, W), NEW pairs \in Seq(D \X D), Apart(pairs)
    PROVE  /\ SwapAll(elements, pairs) \in Table(D, W)
           /\ Exchanged(elements, pairs, Len(pairs), D, SwapAll(elements, pairs))
<1>1. PICK K \in Nat : K = Len(pairs) /\ DOMAIN pairs = 1..K
    BY SMT
<1>2. PICK f : Swaps(f, elements, pairs) /\ SwapAll(elements, pairs) = f[K]
    BY <1>1, FoldIsSwaps
<1>3. f[0] = elements /\ \A k \in 1..K : f[k] = Exchange(f[k - 1], pairs[k])
    BY <1>1, <1>2 DEF Swaps
<1>4. \A k \in 1..K : pairs[k][1] \in D /\ pairs[k][2] \in D /\ pairs[k] = <<pairs[k][1], pairs[k][2]>>
    BY <1>1
<1> DEFINE Good(n) == f[n] \in Table(D, W) /\ Exchanged(elements, pairs, n, D, f[n])
           T == {n \in 0..K : ~Good(n)}
<1>5. T = {}
  <2> SUFFICES ASSUME T # {}
               PROVE  FALSE
    OBVIOUS
  <2> HIDE DEF Good
  <2>1. T \subseteq Nat
    OBVIOUS
  <2> HIDE DEF T
  <2>2. PICK n \in T : \A k \in T : n <= k
    BY <2>1, SmallestOf
  <2>3. n \in 0..K /\ ~Good(n)
    BY <2>2 DEF T
  <2>4. CASE n = 0
    <3>1. Exchanged(elements, pairs, 0, D, elements)
      BY DEF Exchanged
    <3> QED
      BY <1>3, <2>3, <2>4, <3>1 DEF Good
  <2>5. CASE n # 0
    <3>1. PICK m \in 0..K : n = m + 1 /\ n \in 1..K /\ m = n - 1
      <4>1. n - 1 \in 0..K /\ n = (n - 1) + 1 /\ n \in 1..K
        BY <2>3, <2>5
      <4> QED
        BY <4>1
    <3>2. m \notin T
      BY <2>2, <2>3, <3>1
    <3>3. f[m] \in Table(D, W) /\ Exchanged(elements, pairs, m, D, f[m])
      BY <3>2 DEF Good, T
    <3>4. PICK a \in D, b \in D : a = pairs[n][1] /\ b = pairs[n][2] /\ pairs[n] = <<a, b>>
      BY <1>4, <3>1
    <3>5. PICK v : v = f[m]
      OBVIOUS
    <3>6. PICK r : r = f[n]
      OBVIOUS
    <3>7. r = Exchange(v, pairs[n])
      BY <1>3, <3>1, <3>5, <3>6
    <3>18. r = [[v EXCEPT ![a] = v[b]] EXCEPT ![b] = v[a]]
      BY <3>4, <3>7 DEF Exchange
    <3>17. v \in Table(D, W)
      BY <3>3, <3>5
    <3>8. /\ r \in Table(D, W) /\ r[a] = v[b] /\ r[b] = v[a]
          /\ \A p \in D : p # a /\ p # b => r[p] = v[p]
      BY <3>4, <3>17, <3>18 DEF Table
    <3>9. \A k \in 1..m : k \in 1..K /\ k # n /\ {pairs[k][1], pairs[k][2]} \cap {a, b} = {}
      BY <1>1, <3>1, <3>4 DEF Apart
    <3>10. v[a] = elements[a] /\ v[b] = elements[b]
      BY <3>3, <3>5, <3>9 DEF Exchanged
    <3>11. \A k \in 1..m : r[pairs[k][1]] = elements[pairs[k][2]]
                           /\ r[pairs[k][2]] = elements[pairs[k][1]]
      BY <1>4, <3>3, <3>5, <3>8, <3>9 DEF Exchanged
    <3>12. \A k \in 1..n : k \in 1..m \/ k = n
      BY <3>1
    <3>13. \A k \in 1..m : k \in 1..n
      BY <3>1
    <3>14. n \in 1..n
      BY <3>1
    <3>15. ASSUME NEW p \in D, \A k \in 1..n : p # pairs[k][1] /\ p # pairs[k][2]
           PROVE  r[p] = elements[p]
      <4>1. p # a /\ p # b
        BY <3>4, <3>14, <3>15
      <4>2. v[p] = elements[p]
        BY <3>3, <3>5, <3>13, <3>15 DEF Exchanged
      <4> QED
        BY <3>8, <4>1, <4>2
    <3>16. Exchanged(elements, pairs, n, D, r)
      BY <3>4, <3>8, <3>10, <3>11, <3>12, <3>15 DEF Exchanged
    <3> QED
      BY <2>3, <3>6, <3>8, <3>16 DEF Good
  <2> QED
    BY <2>4, <2>5
<1>6. Good(K)
    BY <1>5
<1> QED
    BY <1>1, <1>2, <1>6

-------------------------------------------------------------------------------
(* Where the elements are.                                                 *)
LEMMA SizeGrows ==
    ASSUME NEW n \in Nat
    PROVE  Size(n) \in Nat /\ 2 * Size(n) = n * n - n /\ Size(n + 1) = Size(n) + n
<1>1. PICK k \in Nat : n = 2 * k \/ n = 2 * k + 1
  <2>1. n \div 2 \in Nat /\ (n = 2 * (n \div 2) \/ n = 2 * (n \div 2) + 1)
    OBVIOUS
  <2> QED
    BY <2>1
<1>2. CASE n = 2 * k
  <2>1. n * n - n = 2 * (2 * (k * k) - k) /\ (n + 1) * (n + 1) - (n + 1) = 2 * (2 * (k * k) + k)
    BY <1>2
  <2>2. PICK s \in Nat : s = k * k /\ s >= k
    <3>1. k * k \in Nat /\ k * k >= k
      OBVIOUS
    <3> QED
      BY <3>1
  <2> QED
    BY <1>2, <2>1, <2>2 DEF Size
<1>3. CASE n = 2 * k + 1
  <2>1. n * n - n = 2 * (2 * (k * k) + k) /\ (n + 1) * (n + 1) - (n + 1) = 2 * (2 * (k * k) + 3 * k + 1)
    BY <1>3
  <2>2. PICK s \in Nat : s = k * k
    OBVIOUS
  <2> QED
    BY <1>3, <2>1, <2>2 DEF Size
<1> QED
    BY <1>1, <1>2, <1>3

\* The elements of a row come before those of the rows after it.
LEMMA SizeIsMonotonic ==
    ASSUME NEW n \in Nat, NEW x \in Nat, x < n
    PROVE  Size(x) + x <= Size(n) /\ Size(x) \in Nat /\ Size(n) \in Nat
<1>1. PICK k \in Nat : n = x + 1 + k
  <2>1. n - x - 1 \in Nat /\ n = x + 1 + (n - x - 1)
    OBVIOUS
  <2> QED
    BY <2>1
<1>2. n * n - n = x * x + x + 2 * (x * k) + k * k + k
    BY <1>1
<1>3. x * k >= 0 /\ k * k >= 0 /\ x * k \in Int /\ k * k \in Int /\ x * x \in Int
    OBVIOUS
<1>4. Size(n) \in Nat /\ 2 * Size(n) = n * n - n /\ Size(x) \in Nat /\ 2 * Size(x) = x * x - x
    BY SizeGrows
<1> QED
    BY <1>2, <1>3, <1>4

\* Every two indices have a position of their own.
LEMMA Positions ==
    ASSUME NEW x \in Nat, NEW y \in Nat, y < x
    PROVE  /\ Position(x, y) = Size(x) + y + 1 /\ Position(y, x) = Position(x, y)
           /\ Position(x, y) \in Nat
           /\ \A n \in Nat : x < n => Position(x, y) \in 1..Size(n)
           /\ \A v, w \in Nat : w < v /\ Position(v, w) = Position(x, y) => v = x /\ w = y
<1>1. \A v, w \in Nat : w < v => Position(v, w) = Size(v) + w + 1 /\ Position(w, v) = Size(v) + w + 1
    BY DEF Position
<1>2. Size(x) \in Nat
    BY SizeGrows
<1>3. ASSUME NEW n \in Nat, x < n
      PROVE  Position(x, y) \in 1..Size(n)
  <2>1. Size(x) + x <= Size(n) /\ Size(n) \in Nat
    BY <1>3, SizeIsMonotonic
  <2> QED
    BY <1>1, <1>2, <2>1
<1>4. ASSUME NEW v \in Nat, NEW w \in Nat, w < v, Position(v, w) = Position(x, y)
      PROVE  v = x /\ w = y
  <2>1. Size(v) \in Nat /\ Size(v) + w + 1 = Size(x) + y + 1
    BY <1>1, <1>4, SizeGrows
  <2>2. CASE v = x
    BY <1>2, <2>1, <2>2
  <2>3. CASE v < x
    <3>1. Size(v) + v <= Size(x)
      BY <2>3, SizeIsMonotonic
    <3> QED
      BY <1>2, <1>4, <2>1, <3>1
  <2>4. CASE x < v
    <3>1. Size(x) + x <= Size(v)
      BY <2>4, SizeIsMonotonic
    <3> QED
      BY <1>2, <1>4, <2>1, <3>1
  <2> QED
    BY <2>2, <2>3, <2>4
<1>5. Position(x, y) \in Nat
    BY <1>1, <1>2
<1> QED
    BY <1>1, <1>3, <1>4, <1>5

\* swap_last(first) exchanges the last two indices, or nothing.
LEMMA SwappedLast ==
    ASSUME NEW W, NEW n \in Nat \ {0}, NEW elements \in Table(1..Size(n), W)
    PROVE  Swapped(elements, n, n - 1) = elements
<1>1. PICK l \in Nat : l = n - 1
  <2>1. n - 1 \in Nat
    OBVIOUS
  <2> QED
    BY <2>1
<1> DEFINE D == 1..Size(n)
           rows == [y \in 1..l |-> <<Position(l, y - 1), Position(l, y - 1)>>]
<1>2. Swapped(elements, n, n - 1) = SwapAll(elements, rows \o <<>>)
  <2>1. [i \in 1..l - l |-> <<Position(l + i, l), Position(l, l + i - 1)>>] = <<>>
    OBVIOUS
  <2> QED
    BY <1>1, <2>1 DEF Swapped, SwapAll
<1>3. ASSUME NEW y \in 1..l
      PROVE  Position(l, y - 1) \in D
  <2>1. y - 1 \in Nat /\ y - 1 < l /\ l < n
    BY <1>1
  <2> QED
    BY <1>1, <2>1, Positions
<1>4. rows \in Seq(D \X D) /\ Len(rows) = l
  <2> HIDE DEF D
  <2> QED
    BY <1>3
<1>5. rows \o <<>> = rows
  <2> HIDE DEF rows, D
  <2> QED
    BY <1>4
<1>6. ASSUME NEW j \in 1..l, NEW k \in 1..l, Position(l, j - 1) = Position(l, k - 1)
      PROVE  j = k
  <2>1. j - 1 \in Nat /\ j - 1 < l /\ k - 1 \in Nat /\ k - 1 < l
    BY <1>1
  <2>2. j - 1 = k - 1
    BY <1>1, <1>6, <2>1, Positions
  <2> QED
    BY <2>2
<1>7. \A k \in 1..l : rows[k][1] = Position(l, k - 1) /\ rows[k][2] = Position(l, k - 1)
    OBVIOUS
<1> HIDE DEF D, rows
<1>8. Apart(rows)
    BY <1>4, <1>6, <1>7 DEF Apart
<1>9. PICK r : r = SwapAll(elements, rows)
    OBVIOUS
<1>10. elements \in Table(D, W)
    BY DEF D
<1>11. r \in Table(D, W) /\ Exchanged(elements, rows, l, D, r)
  <2>1. /\ SwapAll(elements, rows) \in Table(D, W)
        /\ Exchanged(elements, rows, Len(rows), D, SwapAll(elements, rows))
    BY <1>4, <1>8, <1>10, ExchangeApart, Zenon
  <2> QED
    BY <1>4, <1>9, <2>1, Zenon
<1>12. \A p \in D : r[p] = elements[p]
    BY <1>7, <1>11 DEF Exchanged
<1>13. r = elements
  <2>1. r = [p \in D |-> r[p]] /\ elements = [p \in D |-> elements[p]]
    BY <1>10, <1>11 DEF Table
  <2> QED
    BY <1>12, <2>1
<1> QED
    BY <1>2, <1>5, <1>9, <1>13

\* swap_last of the last column but one: the two last columns are exchanged.
LEMMA SwappedLastTwo ==
    ASSUME NEW W, NEW n \in Nat, n > 1, NEW elements \in Table(1..Size(n), W),
           NEW r, r = Swapped(elements, n, n - 2)
    PROVE  /\ r \in Table(1..Size(n), W)
           /\ \A y \in Nat : y < n - 2 =>
                /\ r[Position(n - 2, y)] = elements[Position(n - 1, y)]
                /\ r[Position(n - 1, y)] = elements[Position(n - 2, y)]
           /\ r[Position(n - 1, n - 2)] = elements[Position(n - 1, n - 2)]
           /\ \A x, y \in Nat : y < x /\ x < n - 2 => r[Position(x, y)] = elements[Position(x, y)]
<1>1. PICK l \in Nat, m \in Nat : l = n - 1 /\ m = n - 2 /\ l = m + 1 /\ n = m + 2
  <2>1. n - 1 \in Nat /\ n - 2 \in Nat /\ n - 1 = (n - 2) + 1 /\ n = (n - 2) + 2
    OBVIOUS
  <2> QED
    BY <2>1
<1> DEFINE D == 1..Size(n)
           rows == [y \in 1..m |-> <<Position(m, y - 1), Position(l, y - 1)>>]
           columns == [i \in 1..1 |-> <<Position(m + i, m), Position(l, m + i - 1)>>]
           pairs == rows \o columns
<1>2. Swapped(elements, n, m) = SwapAll(elements, pairs)
  <2>1. l - m = 1
    BY <1>1
  <2> QED
    BY <1>1, <2>1 DEF Swapped, SwapAll
<1>3. ASSUME NEW x \in Nat, NEW y \in Nat, y < x, x < n
      PROVE  Position(x, y) \in D
    BY <1>3, Positions
<1>4. ASSUME NEW y \in 1..m
      PROVE  /\ y - 1 \in Nat /\ y - 1 < m /\ y - 1 < l
             /\ Position(m, y - 1) \in D /\ Position(l, y - 1) \in D
  <2>1. y - 1 \in Nat /\ y - 1 < m /\ y - 1 < l /\ m < n /\ l < n
    BY <1>1
  <2> QED
    BY <1>1, <1>3, <2>1
<1>5. Position(l, m) \in D
    BY <1>1, <1>3
<1>6. columns = <<<<Position(l, m), Position(l, m)>>>>
  <2>1. \A i \in 1..1 : m + i = l /\ m + i - 1 = m
    BY <1>1
  <2>2. columns = [i \in 1..1 |-> <<Position(l, m), Position(l, m)>>]
    BY <2>1
  <2> QED
    BY <2>2
<1> HIDE DEF D, columns
<1>7. rows \in Seq(D \X D) /\ Len(rows) = m
    BY <1>4
<1>8. columns \in Seq(D \X D) /\ Len(columns) = 1 /\ columns[1] = <<Position(l, m), Position(l, m)>>
    BY <1>5, <1>6
<1>9. \A k \in 1..m : rows[k] = <<Position(m, k - 1), Position(l, k - 1)>>
    OBVIOUS
<1> HIDE DEF rows
<1>10. /\ pairs \in Seq(D \X D) /\ Len(pairs) = m + 1
       /\ \A k \in 1..m : pairs[k] = rows[k]
       /\ pairs[m + 1] = columns[1]
  <2> DEFINE S == D \X D
  <2>1. rows \in Seq(S) /\ columns \in Seq(S) /\ Len(rows) = m /\ Len(columns) = 1
    BY <1>7, <1>8
  <2> HIDE DEF S
  <2>2. pairs \in Seq(S)
    BY <2>1, ConcatProperties
  <2>3. Len(pairs) = m + 1
    <3>1. Len(pairs) = Len(rows) + Len(columns)
      BY <2>1, ConcatProperties
    <3> QED
      BY <1>1, <2>1, <3>1
  <2>4. \A k \in 1..m : pairs[k] = rows[k]
    BY <2>1
  <2>5. pairs[m + 1] = columns[1]
    <3>1. m + 1 \in 1..Len(rows) + Len(columns) /\ ~(m + 1 <= Len(rows)) /\ m + 1 - Len(rows) = 1
      BY <1>1, <2>1
    <3> QED
      BY <2>1, <3>1, ConcatProperties
  <2> QED
    BY <2>2, <2>3, <2>4, <2>5 DEF S
<1> HIDE DEF pairs
<1>11. \A k \in 1..m : pairs[k][1] = Position(m, k - 1) /\ pairs[k][2] = Position(l, k - 1)
    BY <1>9, <1>10
<1>12. pairs[m + 1][1] = Position(l, m) /\ pairs[m + 1][2] = Position(l, m)
    BY <1>8, <1>10
<1>13. ASSUME NEW x \in Nat, NEW y \in Nat, y < x, NEW v \in Nat, NEW w \in Nat, w < v,
              Position(x, y) = Position(v, w)
       PROVE  x = v /\ y = w
    BY <1>13, Positions
<1>14. Apart(pairs)
  <2> SUFFICES ASSUME NEW j \in 1..m + 1, NEW k \in 1..m + 1, j # k
               PROVE  {pairs[j][1], pairs[j][2]} \cap {pairs[k][1], pairs[k][2]} = {}
    BY <1>10 DEF Apart
  <2>1. \A i \in 1..m + 1 : i \in 1..m \/ i = m + 1
    BY <1>1
  <2>2. ASSUME NEW i \in 1..m
        PROVE  /\ Position(m, i - 1) # Position(l, m) /\ Position(l, i - 1) # Position(l, m)
    BY <1>1, <1>4, <1>13
  <2>3. ASSUME NEW i \in 1..m, NEW h \in 1..m, i # h
        PROVE  /\ Position(m, i - 1) # Position(m, h - 1) /\ Position(l, i - 1) # Position(l, h - 1)
    <3>1. i - 1 # h - 1
      BY <2>3
    <3> QED
      BY <1>1, <1>4, <1>13, <3>1
  <2>4. ASSUME NEW i \in 1..m, NEW h \in 1..m
        PROVE  Position(m, i - 1) # Position(l, h - 1)
    BY <1>1, <1>4, <1>13
  <2> QED
    BY <1>11, <1>12, <2>1, <2>2, <2>3, <2>4
<1>15. elements \in Table(D, W) /\ r = SwapAll(elements, pairs)
    BY <1>1, <1>2 DEF D
<1>16. r \in Table(D, W) /\ Exchanged(elements, pairs, m + 1, D, r)
  <2>1. /\ SwapAll(elements, pairs) \in Table(D, W)
        /\ Exchanged(elements, pairs, Len(pairs), D, SwapAll(elements, pairs))
    BY <1>10, <1>14, <1>15, ExchangeApart, Zenon
  <2> QED
    BY <1>10, <1>15, <2>1, Zenon
<1>17. ASSUME NEW y \in Nat, y < m
       PROVE  /\ r[Position(m, y)] = elements[Position(l, y)]
              /\ r[Position(l, y)] = elements[Position(m, y)]
  <2>1. y + 1 \in 1..m /\ y + 1 \in 1..m + 1 /\ (y + 1) - 1 = y
    BY <1>1, <1>17
  <2>2. /\ r[pairs[y + 1][1]] = elements[pairs[y + 1][2]]
        /\ r[pairs[y + 1][2]] = elements[pairs[y + 1][1]]
    BY <1>16, <2>1 DEF Exchanged
  <2> QED
    BY <1>11, <2>1, <2>2
<1>18. r[Position(l, m)] = elements[Position(l, m)]
  <2>1. m + 1 \in 1..m + 1
    BY <1>1
  <2> QED
    BY <1>12, <1>16, <2>1 DEF Exchanged
<1>19. ASSUME NEW x \in Nat, NEW y \in Nat, y < x, x < m
       PROVE  r[Position(x, y)] = elements[Position(x, y)]
  <2>1. Position(x, y) \in D
    BY <1>1, <1>3, <1>19
  <2>2. \A k \in 1..m + 1 : k \in 1..m \/ k = m + 1
    BY <1>1
  <2>3. \A k \in 1..m : Position(x, y) # Position(m, k - 1) /\ Position(x, y) # Position(l, k - 1)
    BY <1>1, <1>4, <1>13, <1>19
  <2>4. Position(x, y) # Position(l, m)
    BY <1>1, <1>13, <1>19
  <2> QED
    BY <1>11, <1>12, <1>16, <2>1, <2>2, <2>3, <2>4 DEF Exchanged
<1> QED
    BY <1>1, <1>16, <1>17, <1>18, <1>19 DEF D

-------------------------------------------------------------------------------
(* The matrix.                                                             *)
\* A new label gets a row of elements without a value.
LEMMA ResizeUp ==
    ASSUME NEW n \in Nat, NEW e \in Table(1..Size(n), SUBSET Nat), NEW u \in Nat,
           NEW s, Named(n, s, u), NEW items, items \subseteq SUBSET (1..u),
           InPlace(n, e, s, items)
    PROVE  /\ Resize(e, n + 1) \in Table(1..Size(n + 1), SUBSET Nat)
           /\ Named(n + 1, Append(s, u + 1), u + 1)
           /\ InPlace(n + 1, Resize(e, n + 1), Append(s, u + 1), items)
<1>1. Size(n) \in Nat /\ Size(n + 1) = Size(n) + n /\ n + 1 \in Nat
    BY SizeGrows
<1>2. PICK r : r = Resize(e, n + 1)
    OBVIOUS
<1>3. Len(e) = Size(n)
    BY <1>1 DEF Table
<1>4. /\ r \in Table(1..Size(n + 1), SUBSET Nat)
      /\ \A i \in 1..Size(n + 1) : r[i] = IF i <= Size(n) THEN e[i] ELSE {}
  <2>1. r = [i \in 1..Size(n + 1) |-> IF i <= Size(n) THEN e[i] ELSE {}]
    BY <1>2, <1>3 DEF Resize
  <2>2. \A i \in 1..Size(n + 1) : i <= Size(n) => e[i] \in SUBSET Nat
    BY <1>1 DEF Table
  <2>3. \A i \in 1..Size(n + 1) : (IF i <= Size(n) THEN e[i] ELSE {}) \in SUBSET Nat
    BY <2>2
  <2> QED
    BY <2>1, <2>3 DEF Table
<1>5. PICK t : t = Append(s, u + 1)
    OBVIOUS
<1>6. /\ s \in Seq(1..u) /\ Len(s) = n
      /\ t \in Seq(1..u + 1) /\ Len(t) = n + 1 /\ t[n + 1] = u + 1
      /\ \A i \in 1..n : t[i] = s[i] /\ s[i] \in 1..u
  <2>1. s \in Seq(1..u) /\ Len(s) = n
    BY DEF Named
  <2>2. \A i \in 1..u : i \in 1..u + 1
    OBVIOUS
  <2>3. u + 1 \in 1..u + 1
    OBVIOUS
  <2>4. s \in Seq(1..u + 1)
    BY <2>1, <2>2
  <2>5. t \in Seq(1..u + 1) /\ Len(t) = n + 1
    BY <1>5, <2>1, <2>3, <2>4
  <2>6. t[n + 1] = u + 1 /\ \A i \in 1..n : t[i] = s[i] /\ s[i] \in 1..u
    BY <1>5, <2>1
  <2> QED
    BY <2>1, <2>5, <2>6
<1>7. Named(n + 1, t, u + 1)
  <2> SUFFICES ASSUME NEW i \in 1..n + 1, NEW j \in 1..n + 1, t[i] = t[j]
               PROVE  i = j
    BY <1>6 DEF Named
  <2>1. (i \in 1..n \/ i = n + 1) /\ (j \in 1..n \/ j = n + 1)
    OBVIOUS
  <2>2. u + 1 \notin 1..u
    OBVIOUS
  <2> QED
    BY <1>6, <2>1, <2>2 DEF Named
<1>8. InPlace(n + 1, r, t, items)
  <2> SUFFICES ASSUME NEW x \in Nat, NEW y \in Nat, y < x, x < n + 1
               PROVE  r[Position(x, y)] = Shown(items, t[x + 1], t[y + 1])
    BY DEF InPlace
  <2>1. Position(x, y) \in 1..Size(n + 1)
    BY <1>1, Positions
  <2>2. CASE x < n
    <3>3. Position(x, y) \in 1..Size(n)
      BY <2>2, Positions
    <3>1. Position(x, y) \in 1..Size(n) /\ Position(x, y) <= Size(n)
      BY <1>1, <3>3
    <3>2. x + 1 \in 1..n /\ y + 1 \in 1..n
      BY <2>2
    <3> QED
      BY <1>4, <1>6, <2>1, <2>2, <3>1, <3>2 DEF InPlace
  <2>3. CASE x = n
    <3>1. ~(Position(x, y) <= Size(n))
      BY <1>1, <2>3, Positions
    <3>2. r[Position(x, y)] = {}
      BY <1>4, <2>1, <3>1
    <3>3. t[x + 1] = u + 1 /\ u + 1 \notin 1..u
      BY <1>6, <2>3
    <3> QED
      BY <3>2, <3>3 DEF Shown
  <2> QED
    BY <2>2, <2>3
<1> QED
    BY <1>2, <1>4, <1>5, <1>7, <1>8

\* Without its last label, a matrix has the elements of the others in place.
LEMMA ResizeDown ==
    ASSUME NEW n \in Nat, NEW e \in Table(1..Size(n + 1), SUBSET Nat), NEW u \in Nat,
           NEW s, Named(n + 1, s, u), NEW items, InPlace(n + 1, e, s, items)
    PROVE  /\ Resize(e, n) \in Table(1..Size(n), SUBSET Nat)
           /\ Named(n, Front(s), u)
           /\ InPlace(n, Resize(e, n), Front(s), items)
<1>1. Size(n) \in Nat /\ Size(n + 1) = Size(n) + n /\ n + 1 \in Nat
  <2>1. n + 1 \in Nat
    OBVIOUS
  <2> QED
    BY <2>1, SizeGrows
<1>2. PICK r : r = Resize(e, n)
    OBVIOUS
<1>3. Len(e) = Size(n + 1)
    BY <1>1 DEF Table
<1>4. /\ r \in Table(1..Size(n), SUBSET Nat)
      /\ \A i \in 1..Size(n) : r[i] = e[i]
  <2>1. r = [i \in 1..Size(n) |-> IF i <= Size(n + 1) THEN e[i] ELSE {}]
    BY <1>2, <1>3 DEF Resize
  <2>2. \A i \in 1..Size(n) : i <= Size(n + 1) /\ e[i] \in SUBSET Nat
    BY <1>1 DEF Table
  <2> QED
    BY <2>1, <2>2 DEF Table
<1>5. PICK t : t = Front(s)
    OBVIOUS
<1>6. /\ s \in Seq(1..u) /\ Len(s) = n + 1
      /\ t \in Seq(1..u) /\ Len(t) = n
      /\ \A i \in 1..n : t[i] = s[i]
  <2>1. s \in Seq(1..u) /\ Len(s) = n + 1
    BY DEF Named
  <2>2. t = SubSeq(s, 1, n)
    BY <1>5, <2>1 DEF Front
  <2> QED
    BY <2>1, <2>2
<1>7. Named(n, t, u)
  <2>1. \A i \in 1..n : i \in 1..n + 1
    OBVIOUS
  <2> QED
    BY <1>6, <2>1 DEF Named
<1>8. InPlace(n, r, t, items)
  <2> SUFFICES ASSUME NEW x \in Nat, NEW y \in Nat, y < x, x < n
               PROVE  r[Position(x, y)] = Shown(items, t[x + 1], t[y + 1])
    BY DEF InPlace
  <2>1. Position(x, y) \in 1..Size(n)
    BY Positions
  <2>2. x + 1 \in 1..n /\ y + 1 \in 1..n /\ x < n + 1
    OBVIOUS
  <2> QED
    BY <1>4, <1>6, <2>1, <2>2 DEF InPlace
<1> QED
    BY <1>2, <1>4, <1>5, <1>7, <1>8

\* swap_last of the last index, or of the last two.
LEMMA SwapsLabels ==
    ASSUME NEW n \in Nat \ {0}, NEW u \in Nat, NEW s, Named(n, s, u),
           NEW first \in Nat, first < n
    PROVE  /\ Named(n, SwapLabels(s, n, first), u)
           /\ SwapLabels(s, n, first)[first + 1] = s[n]
           /\ SwapLabels(s, n, first)[n] = s[first + 1]
           /\ \A j \in 1..n : j # first + 1 /\ j # n => SwapLabels(s, n, first)[j] = s[j]
           /\ first + 1 = n => SwapLabels(s, n, first) = s
<1>1. s \in Seq(1..u) /\ Len(s) = n /\ DOMAIN s = 1..n /\ n \in 1..n
    BY DEF Named
<1>2. PICK i \in 1..n : i = first + 1
  <2>1. first + 1 \in 1..n
    OBVIOUS
  <2> QED
    BY <2>1
<1>3. PICK t : t = SwapLabels(s, n, first)
    OBVIOUS
<1>4. t = [s EXCEPT ![i] = s[n], ![n] = s[i]]
    BY <1>2, <1>3 DEF SwapLabels
<1>5. t[i] = s[n] /\ t[n] = s[i] /\ \A j \in 1..n : j # i /\ j # n => t[j] = s[j]
    BY <1>1, <1>2, <1>4
<1>6. s[i] \in 1..u /\ s[n] \in 1..u
    BY <1>1, <1>2
<1>7. t \in Seq(1..u) /\ Len(t) = n
    BY <1>1, <1>2, <1>4, <1>6
<1>8. ASSUME NEW j \in 1..n, NEW k \in 1..n, t[j] = t[k]
      PROVE  j = k
    BY <1>1, <1>2, <1>5, <1>8 DEF Named
<1>9. i = n => t = s
    BY <1>1, <1>4
<1> QED
    BY <1>2, <1>3, <1>5, <1>7, <1>8, <1>9 DEF Named

\* swap_last of one of the last two columns, elements and labels alike, leaves
\* every element in its place.
LEMMA SwapKeepsPlaces ==
    ASSUME NEW n \in Nat, NEW first \in Nat, first = n - 1 \/ first = n - 2,
           NEW e \in Table(1..Size(n), SUBSET Nat), NEW u \in Nat,
           NEW s, Named(n, s, u), NEW items, InPlace(n, e, s, items)
    PROVE  /\ Swapped(e, n, first) \in Table(1..Size(n), SUBSET Nat)
           /\ Named(n, SwapLabels(s, n, first), u)
           /\ InPlace(n, Swapped(e, n, first), SwapLabels(s, n, first), items)
<1>1. PICK t : t = SwapLabels(s, n, first)
    OBVIOUS
<1>2. n \in Nat \ {0} /\ first < n
    OBVIOUS
<1>3. /\ Named(n, t, u)
      /\ t[first + 1] = s[n] /\ t[n] = s[first + 1]
      /\ \A j \in 1..n : j # first + 1 /\ j # n => t[j] = s[j]
      /\ first + 1 = n => t = s
  <2>1. /\ Named(n, SwapLabels(s, n, first), u)
        /\ SwapLabels(s, n, first)[first + 1] = s[n]
        /\ SwapLabels(s, n, first)[n] = s[first + 1]
        /\ \A j \in 1..n : j # first + 1 /\ j # n => SwapLabels(s, n, first)[j] = s[j]
        /\ first + 1 = n => SwapLabels(s, n, first) = s
    BY <1>2, SwapsLabels
  <2> QED
    BY <1>1, <2>1
<1>4. CASE first = n - 1
  <2>1. Swapped(e, n, first) = e
    BY <1>2, <1>4, SwappedLast
  <2>2. t = s
    BY <1>2, <1>3, <1>4
  <2> QED
    BY <1>1, <2>1, <2>2
<1>5. CASE first = n - 2
  <2>1. PICK r : r = Swapped(e, n, n - 2)
    OBVIOUS
  <2>2. n > 1
    BY <1>2, <1>5
  <2>3. /\ r \in Table(1..Size(n), SUBSET Nat)
        /\ \A y \in Nat : y < n - 2 =>
             /\ r[Position(n - 2, y)] = e[Position(n - 1, y)]
             /\ r[Position(n - 1, y)] = e[Position(n - 2, y)]
        /\ r[Position(n - 1, n - 2)] = e[Position(n - 1, n - 2)]
        /\ \A x, y \in Nat : y < x /\ x < n - 2 => r[Position(x, y)] = e[Position(x, y)]
    BY <2>1, <2>2, SwappedLastTwo
  <2>4. InPlace(n, r, t, items)
    <3> SUFFICES ASSUME NEW x \in Nat, NEW y \in Nat, y < x, x < n
                 PROVE  r[Position(x, y)] = Shown(items, t[x + 1], t[y + 1])
      BY DEF InPlace
    <3>1. t[n - 1] = s[n] /\ t[n] = s[n - 1] /\ \A j \in 1..n : j # n - 1 /\ j # n => t[j] = s[j]
      BY <1>3, <1>5
    <3>2. \A v, w \in Nat : w < v /\ v < n =>
            e[Position(v, w)] = Shown(items, s[v + 1], s[w + 1])
      BY DEF InPlace
    <3>3. \A a, b : Shown(items, a, b) = Shown(items, b, a)
      <4>1. \A a, b : {a, b} = {b, a}
        OBVIOUS
      <4> QED
        BY <4>1 DEF Shown
    <3>4. n - 1 \in Nat /\ n - 2 \in Nat /\ n - 2 < n - 1 /\ n - 1 < n /\ n - 2 < n
          /\ (n - 1) + 1 = n /\ (n - 2) + 1 = n - 1
      BY <2>2
    <3>5. CASE x = n - 1 /\ y = n - 2
      <4>1. r[Position(x, y)] = Shown(items, s[n], s[n - 1])
        BY <2>3, <3>2, <3>4, <3>5
      <4> QED
        BY <3>1, <3>3, <3>4, <3>5, <4>1
    <3>6. CASE x = n - 1 /\ y # n - 2
      <4>1. y < n - 2 /\ y + 1 \in 1..n /\ y + 1 # n - 1 /\ y + 1 # n
        BY <2>2, <3>6
      <4>2. r[Position(x, y)] = Shown(items, s[n - 1], s[y + 1])
        BY <2>3, <3>2, <3>4, <3>6, <4>1
      <4> QED
        BY <3>1, <3>4, <3>6, <4>1, <4>2
    <3>7. CASE x = n - 2
      <4>1. y < n - 2 /\ y < n - 1 /\ y + 1 \in 1..n /\ y + 1 # n - 1 /\ y + 1 # n
        BY <2>2, <3>7
      <4>2. r[Position(x, y)] = Shown(items, s[n], s[y + 1])
        BY <2>3, <3>2, <3>4, <3>7, <4>1
      <4> QED
        BY <3>1, <3>4, <3>7, <4>1, <4>2
    <3>8. CASE x < n - 2
      <4>1. /\ y + 1 \in 1..n /\ y + 1 # n - 1 /\ y + 1 # n
            /\ x + 1 \in 1..n /\ x + 1 # n - 1 /\ x + 1 # n
        BY <2>2, <3>8
      <4> QED
        BY <2>3, <3>1, <3>2, <3>8, <4>1
    <3> QED
      BY <2>2, <3>5, <3>6, <3>7, <3>8
  <2> QED
    BY <1>1, <1>3, <1>5, <2>1, <2>3, <2>4
<1> QED
    BY <1>4, <1>5

\* swap_last keeps the invariant of a matrix.
LEMMA SwapLastStep ==
    ASSUME MatrixInv, NEW first \in Nat, SwapLast(first)
    PROVE  MatrixInv'
<1> SUFFICES ASSUME ~shuffled'
             PROVE  MatrixOK'
    BY DEF MatrixInv
<1>1. /\ MatrixOK /\ first < m_columns /\ ~(first < m_columns - 2)
      /\ m_elements' = Swapped(m_elements, m_columns, first)
      /\ labels' = SwapLabels(labels, m_columns, first)
      /\ UNCHANGED <<m_columns, used, placed>>
    BY DEF MatrixInv, SwapLast
<1>2. first = m_columns - 1 \/ first = m_columns - 2
    BY <1>1 DEF MatrixOK
<1>3. /\ Swapped(m_elements, m_columns, first) \in Table(1..Size(m_columns), SUBSET Nat)
      /\ Named(m_columns, SwapLabels(labels, m_columns, first), used)
      /\ InPlace(m_columns, Swapped(m_elements, m_columns, first),
                 SwapLabels(labels, m_columns, first), placed)
    BY <1>1, <1>2, SwapKeepsPlaces DEF MatrixOK
<1> QED
    BY <1>1, <1>3 DEF MatrixOK

\* remove_index keeps the invariant of a matrix.
LEMMA RemoveStep ==
    ASSUME MatrixInv, NEW index \in Nat, RemoveIndex(index)
    PROVE  MatrixInv'
<1> SUFFICES ASSUME ~shuffled'
             PROVE  MatrixOK'
    BY DEF MatrixInv
<1> DEFINE swapped == Swapped(m_elements, m_columns, index)
           cut == Resize(swapped, m_columns - 1)
           kept == Front(SwapLabels(labels, m_columns, index))
<1>1. /\ MatrixOK /\ index < m_columns /\ ~(index < m_columns - 2)
      /\ m_columns' = m_columns - 1
      /\ m_elements' = IF index < m_columns - 1 THEN Swapped(cut, m_columns - 1, index)
                       ELSE Resize(m_elements, m_columns - 1)
      /\ labels' = IF index < m_columns - 1 THEN SwapLabels(kept, m_columns - 1, index) ELSE kept
      /\ UNCHANGED <<used, placed>>
    BY DEF MatrixInv, RemoveIndex
<1>2. PICK n \in Nat : n = m_columns - 1 /\ m_columns = n + 1
  <2>1. m_columns - 1 \in Nat /\ m_columns = (m_columns - 1) + 1
    BY <1>1 DEF MatrixOK
  <2> QED
    BY <2>1
<1>3. /\ m_elements \in Table(1..Size(n + 1), SUBSET Nat) /\ Named(n + 1, labels, used)
      /\ used \in Nat /\ InPlace(n + 1, m_elements, labels, placed)
      /\ n + 1 \in Nat
    BY <1>1, <1>2 DEF MatrixOK
<1>4. index = (n + 1) - 1 \/ index = (n + 1) - 2
    BY <1>1, <1>2
<1>5. PICK e : e = Swapped(m_elements, n + 1, index)
    OBVIOUS
<1>6. PICK s : s = SwapLabels(labels, n + 1, index)
    OBVIOUS
<1>7. /\ e \in Table(1..Size(n + 1), SUBSET Nat) /\ Named(n + 1, s, used)
      /\ InPlace(n + 1, e, s, placed)
    BY <1>3, <1>4, <1>5, <1>6, SwapKeepsPlaces
<1>8. /\ Resize(e, n) \in Table(1..Size(n), SUBSET Nat) /\ Named(n, Front(s), used)
      /\ InPlace(n, Resize(e, n), Front(s), placed)
    BY <1>3, <1>7, ResizeDown
<1>9. CASE index < m_columns - 1
  <2>1. index = n - 1
    BY <1>2, <1>4, <1>9
  <2>2. /\ m_elements' = Swapped(Resize(e, n), n, index)
        /\ labels' = SwapLabels(Front(s), n, index)
    BY <1>1, <1>2, <1>5, <1>6, <1>9
  <2>3. /\ Swapped(Resize(e, n), n, index) \in Table(1..Size(n), SUBSET Nat)
        /\ Named(n, SwapLabels(Front(s), n, index), used)
        /\ InPlace(n, Swapped(Resize(e, n), n, index), SwapLabels(Front(s), n, index), placed)
    BY <1>3, <1>8, <2>1, SwapKeepsPlaces
  <2> QED
    BY <1>1, <1>2, <2>2, <2>3 DEF MatrixOK
<1>10. CASE ~(index < m_columns - 1)
  <2>1. n + 1 \in Nat \ {0} /\ index < n + 1 /\ index + 1 = n + 1
    BY <1>1, <1>2, <1>10
  <2>2. s = labels
    BY <1>3, <1>6, <2>1, SwapsLabels
  <2>3. labels' = Front(labels) /\ m_elements' = Resize(m_elements, n)
    BY <1>1, <1>2, <1>6, <1>10, <2>2
  <2>4. /\ Resize(m_elements, n) \in Table(1..Size(n), SUBSET Nat)
        /\ Named(n, Front(labels), used)
        /\ InPlace(n, Resize(m_elements, n), Front(labels), placed)
    BY <1>3, ResizeDown
  <2> QED
    BY <1>1, <1>2, <2>3, <2>4 DEF MatrixOK
<1> QED
    BY <1>9, <1>10

\* emplace, and the columns it adds, keep the invariant of a matrix.
LEMMA EmplaceStep ==
    ASSUME MatrixInv, NEW x \in Nat, NEW y \in Nat, Emplace(x, y)
    PROVE  MatrixInv'
<1> SUFFICES ASSUME ~shuffled'
             PROVE  MatrixOK'
    BY DEF MatrixInv
<1>1. PICK item : item = {labels[x + 1], labels[y + 1]}
    OBVIOUS
<1>2. /\ MatrixOK /\ x # y /\ x < m_columns /\ y < m_columns
      /\ m_elements' = [m_elements EXCEPT ![Position(x, y)] = item]
      /\ placed' = placed \cup {item}
      /\ UNCHANGED <<m_columns, labels, used>>
    BY <1>1 DEF MatrixInv, Emplace
<1>3. /\ m_columns \in Nat /\ used \in Nat /\ labels \in Seq(1..used) /\ Len(labels) = m_columns
      /\ m_elements \in [1..Size(m_columns) -> SUBSET Nat]
      /\ \A i, j \in 1..m_columns : labels[i] = labels[j] => i = j
    BY <1>2 DEF MatrixOK, Named, Table
<1>4. PICK a \in Nat, b \in Nat :
        /\ b < a /\ a < m_columns /\ Position(x, y) = Position(a, b)
        /\ item = {labels[a + 1], labels[b + 1]}
  <2>1. CASE y < x
    BY <1>1, <1>2, <2>1
  <2>2. CASE x < y
    <3>1. Position(x, y) = Position(y, x)
      BY <2>2, Positions
    <3>2. item = {labels[y + 1], labels[x + 1]}
      BY <1>1
    <3> QED
      BY <1>2, <2>2, <3>1, <3>2
  <2> QED
    BY <1>2, <2>1, <2>2
<1>5. a + 1 \in 1..m_columns /\ b + 1 \in 1..m_columns
    BY <1>3, <1>4
<1>6. item \subseteq 1..used /\ item \subseteq Nat
    BY <1>3, <1>4, <1>5
<1>7. PICK p \in 1..Size(m_columns) : p = Position(a, b)
    BY <1>3, <1>4, Positions
<1>8. m_elements' = [m_elements EXCEPT ![p] = item]
    BY <1>2, <1>4, <1>7
<1>9. /\ m_elements' \in [1..Size(m_columns) -> SUBSET Nat]
      /\ m_elements'[p] = item
      /\ \A q \in 1..Size(m_columns) : q # p => m_elements'[q] = m_elements[q]
    BY <1>3, <1>6, <1>7, <1>8
<1>10. InPlace(m_columns, m_elements', labels, placed')
  <2> SUFFICES ASSUME NEW v \in Nat, NEW w \in Nat, w < v, v < m_columns
               PROVE  m_elements'[Position(v, w)] = Shown(placed', labels[v + 1], labels[w + 1])
    BY DEF InPlace
  <2>1. PICK q \in 1..Size(m_columns) : q = Position(v, w)
    BY <1>3, Positions
  <2>2. m_elements[q] = Shown(placed, labels[v + 1], labels[w + 1])
    BY <1>2, <2>1 DEF MatrixOK, InPlace
  <2>3. CASE v = a /\ w = b
    BY <1>2, <1>4, <1>7, <1>9, <2>1, <2>3 DEF Shown
  <2>4. CASE ~(v = a /\ w = b)
    <3>1. q # p
      BY <1>4, <1>7, <2>1, <2>4, Positions
    <3>2. m_elements'[q] = m_elements[q]
      BY <1>9, <3>1
    <3>3. v + 1 \in 1..m_columns /\ w + 1 \in 1..m_columns
      BY <1>3
    <3>4. {labels[v + 1], labels[w + 1]} # item
      <4> SUFFICES ASSUME {labels[v + 1], labels[w + 1]} = {labels[a + 1], labels[b + 1]}
                   PROVE  FALSE
        BY <1>4
      <4>1. \/ labels[v + 1] = labels[a + 1] /\ labels[w + 1] = labels[b + 1]
            \/ labels[v + 1] = labels[b + 1] /\ labels[w + 1] = labels[a + 1]
        <5>1. labels[v + 1] # labels[w + 1]
          BY <1>3, <3>3
        <5> QED
          BY <5>1
      <4>2. \/ v + 1 = a + 1 /\ w + 1 = b + 1
            \/ v + 1 = b + 1 /\ w + 1 = a + 1
        BY <1>3, <1>5, <3>3, <4>1
      <4> QED
        BY <1>4, <2>4, <4>2
    <3> QED
      BY <1>2, <2>1, <2>2, <3>2, <3>4 DEF Shown
  <2> QED
    BY <2>3, <2>4
<1>11. m_elements' \in Table(1..Size(m_columns), SUBSET Nat)
    BY <1>9 DEF Table
<1>12. placed' \subseteq SUBSET (1..used)
    BY <1>2, <1>6 DEF MatrixOK
<1> QED
    BY <1>2, <1>10, <1>11, <1>12 DEF MatrixOK

\* A matrix without columns has all its elements in place.
LEMMA EmptyMatrix ==
    ASSUME NEW s, NEW items
    PROVE  InPlace(0, <<>>, s, items) /\ <<>> \in Table(1..Size(0), SUBSET Nat)
<1>1. Size(0) = 0
    BY DEF Size
<1>2. <<>> \in [1..0 -> SUBSET Nat]
    BY EmptySeq
<1> QED
    BY <1>1, <1>2 DEF InPlace, Table

\* Every step keeps the invariant of a matrix.
LEMMA MatrixStep == MatrixInv /\ [MatrixNext]_matrixVars => MatrixInv'
<1> SUFFICES ASSUME MatrixInv, [MatrixNext]_matrixVars
             PROVE  MatrixInv'
    OBVIOUS
<1>1. CASE Increase
  <2> SUFFICES ASSUME ~shuffled'
               PROVE  MatrixOK'
    BY DEF MatrixInv
  <2>1. /\ MatrixOK
        /\ m_columns' = m_columns + 1
        /\ m_elements' = Resize(m_elements, m_columns + 1)
        /\ used' = used + 1
        /\ labels' = Append(labels, used + 1)
        /\ placed' = placed
    BY <1>1 DEF MatrixInv, Increase
  <2>2. /\ Resize(m_elements, m_columns + 1) \in Table(1..Size(m_columns + 1), SUBSET Nat)
        /\ Named(m_columns + 1, Append(labels, used + 1), used + 1)
        /\ InPlace(m_columns + 1, Resize(m_elements, m_columns + 1),
                   Append(labels, used + 1), placed)
    BY <2>1, ResizeUp DEF MatrixOK
  <2>3. m_columns + 1 \in Nat /\ used + 1 \in Nat /\ placed \subseteq SUBSET (1..used + 1)
    <3>1. m_columns \in Nat /\ used \in Nat /\ placed \subseteq SUBSET (1..used)
      BY <2>1 DEF MatrixOK
    <3>2. 1..used \subseteq 1..used + 1
      BY <3>1
    <3> QED
      BY <3>1, <3>2
  <2> HIDE DEF MatrixInv
  <2> QED
    BY <2>1, <2>2, <2>3 DEF MatrixOK
<1>2. CASE ResetMatrix
  <2> SUFFICES ASSUME ~shuffled'
               PROVE  MatrixOK'
    BY DEF MatrixInv
  <2>1. /\ MatrixOK /\ m_columns' = 0 /\ m_elements' = <<>> /\ labels' = <<>>
        /\ UNCHANGED <<used, placed>>
    BY <1>2 DEF MatrixInv, ResetMatrix
  <2>2. Named(0, <<>>, used)
    BY EmptySeq DEF Named
  <2> QED
    BY <2>1, <2>2, EmptyMatrix DEF MatrixOK
<1>3. CASE UNCHANGED matrixVars
    BY <1>3 DEF MatrixInv, MatrixOK, matrixVars
<1>4. 0..MaxColumns - 1 \subseteq Nat
    BY MatrixAssumption
<1> QED
    BY <1>1, <1>2, <1>3, <1>4, SwapLastStep, RemoveStep, EmplaceStep DEF MatrixNext

\* The invariant of a matrix holds initially.
LEMMA MatrixStart == MatrixInit => MatrixInv
<1> SUFFICES ASSUME MatrixInit
             PROVE  MatrixOK
    BY DEF MatrixInv
<1>1. /\ m_columns \in Nat /\ used = m_columns /\ placed = {}
      /\ m_elements = [i \in 1..Size(m_columns) |-> {}]
      /\ labels = [i \in 1..m_columns |-> i]
    BY MatrixAssumption DEF MatrixInit
<1>2. labels \in Seq(1..used) /\ Len(labels) = m_columns
    BY <1>1
<1>3. Named(m_columns, labels, used)
    BY <1>1, <1>2 DEF Named
<1>4. m_elements \in Table(1..Size(m_columns), SUBSET Nat)
    BY <1>1 DEF Table
<1>5. InPlace(m_columns, m_elements, labels, placed)
  <2> SUFFICES ASSUME NEW x \in Nat, NEW y \in Nat, y < x, x < m_columns
               PROVE  m_elements[Position(x, y)] = Shown(placed, labels[x + 1], labels[y + 1])
    BY DEF InPlace
  <2>1. Position(x, y) \in 1..Size(m_columns)
    BY <1>1, Positions
  <2> QED
    BY <1>1, <2>1 DEF Shown
<1> QED
    BY <1>1, <1>3, <1>4, <1>5 DEF MatrixOK

\* The inductive invariant of a matrix: as long as swap_last was called for
\* the last two indices only, every index has a label of its own.
THEOREM MatrixInvariance == MatrixSpec => []MatrixInv
    BY MatrixStart, MatrixStep, PTL DEF MatrixSpec

\* upper_matrix: for any number of indices, at(x, y) is the element of the two
\* indices through increase(), emplace(), reset() and removals of the last two.
THEOREM ElementsAreTheirs == MatrixSpec => []ElementsStayInPlace
<1>1. MatrixInv => ElementsStayInPlace
  <2> SUFFICES ASSUME MatrixOK,
                      NEW x \in 1..m_columns - 1, NEW y \in 0..x - 1
               PROVE  LET pair == {labels[x + 1], labels[y + 1]}
                      IN  m_elements[Position(x, y)] = IF pair \in placed THEN pair ELSE {}
    BY DEF MatrixInv, ElementsStayInPlace
  <2>1. x \in Nat /\ y \in Nat /\ y < x /\ x < m_columns
    BY DEF MatrixOK
  <2> QED
    BY <2>1 DEF MatrixOK, InPlace, Shown
<1> QED
    BY MatrixInvariance, <1>1, PTL

-------------------------------------------------------------------------------
\* A loop over K items leaves after[n] of what it had before the n-th; after[n]
\* is a function of that.
Loop(f, K, base, after) ==
    f = [n \in 0..K |-> IF n = 0 THEN base ELSE after[n][f[n - 1]]]

\* The function a loop goes through exists: there is no first item that it
\* could not be built for.
LEMMA LoopExists ==
    ASSUME NEW K \in Nat, NEW V, NEW base \in V, NEW after,
           \A n \in 1..K : \A v \in V : after[n][v] \in V
    PROVE  \E f \in [0..K -> V] : Loop(f, K, base, after)
<1> DEFINE Builds(f, k) == f \in [0..k -> V] /\ Loop(f, k, base, after)
           T == {k \in 0..K : ~\E f : Builds(f, k)}
<1>1. T = {}
  <2> SUFFICES ASSUME T # {}
               PROVE  FALSE
    OBVIOUS
  <2>1. T \subseteq Nat
    OBVIOUS
  <2> HIDE DEF T
  <2>2. PICK k \in T : \A j \in T : k <= j
    BY <2>1, SmallestOf
  <2>3. k \in 0..K /\ ~\E f : Builds(f, k)
    BY <2>2 DEF T
  <2>4. CASE k = 0
    <3> DEFINE f == [n \in 0..k |-> base]
    <3>1. f = [n \in 0..k |-> IF n = 0 THEN base ELSE after[n][f[n - 1]]]
      BY <2>4
    <3> QED
      BY <2>3, <3>1 DEF Loop
  <2>5. CASE k # 0
    <3>1. k - 1 \in 0..K /\ k - 1 < k /\ k \in 1..K
      BY <2>3, <2>5
    <3>2. PICK g : Builds(g, k - 1)
      BY <2>2, <3>1 DEF T
    <3>3. \A n \in 0..k - 1 : g[n] \in V /\ g[n] = IF n = 0 THEN base ELSE after[n][g[n - 1]]
      BY <3>2 DEF Loop
    <3> DEFINE f == [n \in 0..k |-> IF n = k THEN after[k][g[k - 1]] ELSE g[n]]
    <3>4. k - 1 \in 0..k - 1 /\ \A n \in 0..k : n = k \/ n \in 0..k - 1
      BY <2>3, <2>5
    <3>5. f \in [0..k -> V]
      BY <3>1, <3>3, <3>4
    <3>6. ASSUME NEW n \in 0..k
          PROVE  f[n] = IF n = 0 THEN base ELSE after[n][f[n - 1]]
      <4>1. CASE n = k
        <5>1. f[n] = after[k][g[k - 1]] /\ f[k - 1] = g[k - 1]
          BY <2>3, <3>1, <4>1
        <5> QED
          BY <2>5, <4>1, <5>1
      <4>2. CASE n # k
        <5>1. n \in 0..k - 1 /\ f[n] = g[n]
          BY <3>4, <4>2
        <5>2. n # 0 => f[n - 1] = g[n - 1]
          <6>1. n # 0 => n - 1 \in 0..k /\ n - 1 # k
            BY <2>3, <5>1
          <6> QED
            BY <6>1
        <5> QED
          BY <3>3, <5>1, <5>2
      <4> QED
        BY <4>1, <4>2
    <3> HIDE DEF f
    <3>7. Loop(f, k, base, after)
      <4>1. f = [n \in 0..k |-> f[n]]
        BY <3>5
      <4> QED
        BY <3>6, <4>1 DEF Loop
    <3> QED
      BY <2>3, <3>5, <3>7
  <2> QED
    BY <2>4, <2>5
<1>2. K \in 0..K /\ K \notin T
    BY <1>1
<1>3. \E f : Builds(f, K)
    BY <1>2
<1> QED
    BY <1>3

\* Two functions that start alike and go on alike are alike.
LEMMA LoopsAgree ==
    ASSUME NEW K \in Nat, NEW f, NEW g, f[0] = g[0],
           \A n \in 1..K : f[n - 1] = g[n - 1] => f[n] = g[n]
    PROVE  f[K] = g[K]
<1> DEFINE T == {k \in 0..K : f[k] # g[k]}
<1>1. T = {}
  <2> SUFFICES ASSUME T # {}
               PROVE  FALSE
    OBVIOUS
  <2>1. T \subseteq Nat
    OBVIOUS
  <2> HIDE DEF T
  <2>2. PICK k \in T : \A j \in T : k <= j
    BY <2>1, SmallestOf
  <2>3. k \in 0..K /\ f[k] # g[k]
    BY <2>2 DEF T
  <2>4. k \in 1..K /\ k - 1 \in 0..K /\ k - 1 < k
    BY <2>3
  <2>5. f[k - 1] = g[k - 1]
    BY <2>2, <2>4 DEF T
  <2> QED
    BY <2>3, <2>4, <2>5
<1> QED
    BY <1>1

-------------------------------------------------------------------------------
(* Lines.                                                                  *)
\* What Written goes through.
Keeps(f, lines) ==
    /\ f \in [0..Len(lines) -> Seq(Lines)] /\ f[0] = <<>>
    /\ \A n \in 1..Len(lines) :
        f[n] = IF lines[n] = Blank THEN f[n - 1] ELSE Append(f[n - 1], lines[n])

LEMMA WrittenKeeps ==
    ASSUME NEW lines \in Seq(Parts)
    PROVE  \E f : Keeps(f, lines) /\ Written(lines) = f[Len(lines)]
<1> DEFINE Rec(f) == f = [n \in 0..Len(lines) |->
                 IF n = 0 THEN <<>>
                 ELSE IF lines[n] = Blank THEN f[n - 1] ELSE Append(f[n - 1], lines[n])]
           F == CHOOSE f : Rec(f)
<1>1. Written(lines) = F[Len(lines)]
    BY DEF Written
<1>2. PICK K \in Nat : K = Len(lines) /\ \A n \in 1..K : lines[n] \in Parts
    BY SMT
<1> DEFINE V == Seq(Lines)
           after == [n \in 1..K |-> [v \in V |-> IF lines[n] = Blank THEN v ELSE Append(v, lines[n])]]
<1>3. ASSUME NEW n \in 1..K, NEW v \in V
      PROVE  /\ after[n][v] = IF lines[n] = Blank THEN v ELSE Append(v, lines[n])
             /\ after[n][v] \in V
  <2>1. after[n][v] = IF lines[n] = Blank THEN v ELSE Append(v, lines[n])
    OBVIOUS
  <2>2. lines[n] = Blank \/ lines[n] \in Lines
    BY <1>2 DEF Parts
  <2> HIDE DEF after
  <2> QED
    BY <2>1, <2>2
<1>4. <<>> \in V
    OBVIOUS
<1> HIDE DEF after, V
<1>5. PICK f \in [0..K -> V] : Loop(f, K, <<>>, after)
    BY <1>3, <1>4, LoopExists
<1>6. ASSUME NEW n \in 0..K
      PROVE  f[n] = IF n = 0 THEN <<>>
                    ELSE IF lines[n] = Blank THEN f[n - 1] ELSE Append(f[n - 1], lines[n])
  <2>1. f[n] = IF n = 0 THEN <<>> ELSE after[n][f[n - 1]]
    BY <1>5 DEF Loop
  <2>2. n # 0 => n \in 1..K /\ n - 1 \in 0..K
    OBVIOUS
  <2>3. n # 0 => f[n - 1] \in V
    BY <1>5, <2>2
  <2> QED
    BY <1>3, <2>1, <2>2, <2>3
<1>7. Rec(f)
  <2>1. f = [n \in 0..K |-> f[n]]
    BY <1>5
  <2> QED
    BY <1>2, <1>6, <2>1
<1>8. Rec(F)
    BY <1>7
<1>9. ASSUME NEW n \in 0..K
      PROVE  F[n] = IF n = 0 THEN <<>>
                    ELSE IF lines[n] = Blank THEN F[n - 1] ELSE Append(F[n - 1], lines[n])
    BY <1>2, <1>8
<1> HIDE DEF F, Rec
<1>10. F[K] = f[K]
  <2>1. F[0] = f[0]
    BY <1>2, <1>6, <1>9
  <2>2. ASSUME NEW n \in 1..K, F[n - 1] = f[n - 1]
        PROVE  F[n] = f[n]
    <3>1. n \in 0..K /\ n # 0
      OBVIOUS
    <3> QED
      BY <1>6, <1>9, <2>2, <3>1
  <2> QED
    BY <2>1, <2>2, LoopsAgree
<1>11. Keeps(f, lines)
  <2>1. \A n \in 1..K : n \in 0..K /\ n # 0
    OBVIOUS
  <2>2. f \in [0..Len(lines) -> Seq(Lines)]
    BY <1>2, <1>5 DEF V
  <2>3. f[0] = <<>>
    BY <1>6
  <2>4. \A n \in 1..K : f[n] = IF lines[n] = Blank THEN f[n - 1] ELSE Append(f[n - 1], lines[n])
    BY <1>6, <2>1
  <2> QED
    BY <1>2, <2>2, <2>3, <2>4 DEF Keeps
<1> QED
    BY <1>1, <1>2, <1>10, <1>11

\* The lines of contents, with and without what publish() adds.
LEMMA WrittenOfParts ==
    /\ \A lines \in Seq(Parts) : Written(lines) \in Seq(Lines)
    /\ \A lines \in Seq(Parts) : Written(Append(lines, Blank)) = Written(lines)
    /\ Written(<<>>) = <<>> /\ Written(<<Blank>>) = <<>>
<1>1. ASSUME NEW lines \in Seq(Parts)
      PROVE  /\ Written(lines) \in Seq(Lines)
             /\ Written(Append(lines, Blank)) = Written(lines)
             /\ lines = <<>> => Written(lines) = <<>>
  <2>1. PICK f : Keeps(f, lines) /\ Written(lines) = f[Len(lines)]
    BY WrittenKeeps
  <2>2. PICK longer \in Seq(Parts) : longer = Append(lines, Blank)
    <3>1. Blank \in Parts
      BY DEF Parts
    <3>2. Append(lines, Blank) \in Seq(Parts)
      BY <3>1
    <3> QED
      BY <3>2
  <2>3. PICK g : Keeps(g, longer) /\ Written(longer) = g[Len(longer)]
    BY WrittenKeeps
  <2>4. PICK K \in Nat : /\ K = Len(lines) /\ Len(longer) = K + 1 /\ longer[K + 1] = Blank
                         /\ \A n \in 1..K : longer[n] = lines[n]
    BY <2>2
  <2>5. g[0] = <<>> /\ f[0] = <<>>
    BY <2>1, <2>3 DEF Keeps
  <2>6. \A n \in 1..K : f[n] = IF lines[n] = Blank THEN f[n - 1] ELSE Append(f[n - 1], lines[n])
    BY <2>1, <2>4 DEF Keeps
  <2>7. \A n \in 1..K + 1 : g[n] = IF longer[n] = Blank THEN g[n - 1] ELSE Append(g[n - 1], longer[n])
    BY <2>3, <2>4 DEF Keeps
  <2>8. ASSUME NEW n \in 1..K, f[n - 1] = g[n - 1]
        PROVE  f[n] = g[n]
    <3>1. n \in 1..K + 1
      OBVIOUS
    <3> QED
      BY <2>4, <2>6, <2>7, <2>8, <3>1
  <2>9. f[K] = g[K]
    BY <2>5, <2>8, LoopsAgree
  <2>10. g[K + 1] = g[K]
    <3>1. K + 1 \in 1..K + 1 /\ (K + 1) - 1 = K
      OBVIOUS
    <3> QED
      BY <2>4, <2>7, <3>1
  <2>11. f[K] \in Seq(Lines)
    BY <2>1, <2>4 DEF Keeps
  <2>12. lines = <<>> => f[K] = <<>>
    BY <2>4, <2>5
  <2> QED
    BY <2>1, <2>2, <2>3, <2>4, <2>9, <2>10, <2>11, <2>12
<1>2. <<>> \in Seq(Parts) /\ Append(<<>>, Blank) = <<Blank>>
    OBVIOUS
<1> QED
    BY <1>1, <1>2

-------------------------------------------------------------------------------
(* What is due.                                                            *)
\* The part of it that a message makes.
Makes(s, m) == Heard(s, m.topic, Written(m.contents))

LEMMA HeardIsALine ==
    ASSUME NEW s, NEW topic \in Topics, NEW lines \in Seq(Lines)
    PROVE  Heard(s, topic, lines) \in Seq(Heards)
<1>1. CASE <<s, topic>> \in Matching
  <2> DEFINE h == [i \in 1..Len(lines) |-> <<topic, lines[i]>>]
  <2>1. PICK K \in Nat : K = Len(lines) /\ \A i \in 1..K : lines[i] \in Lines
    BY SMT
  <2>2. h \in [1..K -> Heards]
    BY <2>1 DEF Heards
  <2>3. h \in Seq(Heards)
    BY <2>1, <2>2
  <2> QED
    BY <1>1, <2>3 DEF Heard
<1>2. CASE <<s, topic>> \notin Matching
  BY <1>2 DEF Heard
<1> QED
  BY <1>1, <1>2

LEMMA MakesLines ==
    ASSUME NEW s, NEW m \in Messages
    PROVE  Makes(s, m) \in Seq(Heards)
<1>1. m.topic \in Topics /\ m.contents \in Seq(Parts)
  BY DEF Messages
<1>2. Written(m.contents) \in Seq(Lines)
  BY <1>1, WrittenOfParts
<1> QED
  BY <1>1, <1>2, HeardIsALine DEF Makes

\* What Due goes through.
Owes(f, s, messages) ==
    /\ f \in [0..Len(messages) -> Seq(Heards)] /\ f[0] = <<>>
    /\ \A n \in 1..Len(messages) : f[n] = f[n - 1] \o Makes(s, messages[n])

LEMMA DueOwes ==
    ASSUME NEW s, NEW messages \in Seq(Messages)
    PROVE  \E f : Owes(f, s, messages) /\ Due(s, messages) = f[Len(messages)]
<1> DEFINE Rec(f) == f = [n \in 0..Len(messages) |->
                 IF n = 0 THEN <<>> ELSE f[n - 1] \o Makes(s, messages[n])]
           F == CHOOSE f : Rec(f)
<1>1. Due(s, messages) = F[Len(messages)]
    BY DEF Due, Makes
<1>2. PICK K \in Nat : K = Len(messages) /\ \A n \in 1..K : messages[n] \in Messages
    BY SMT
<1> DEFINE V == Seq(Heards)
           after == [n \in 1..K |-> [v \in V |-> v \o Makes(s, messages[n])]]
<1>3. ASSUME NEW n \in 1..K, NEW v \in V
      PROVE  after[n][v] = v \o Makes(s, messages[n]) /\ after[n][v] \in V
  <2>1. after[n][v] = v \o Makes(s, messages[n])
    OBVIOUS
  <2>2. Makes(s, messages[n]) \in Seq(Heards)
    BY <1>2, MakesLines
  <2> HIDE DEF after
  <2> QED
    BY <2>1, <2>2
<1>4. <<>> \in V
    OBVIOUS
<1> HIDE DEF after, V
<1>5. PICK f \in [0..K -> V] : Loop(f, K, <<>>, after)
    BY <1>3, <1>4, LoopExists
<1>6. ASSUME NEW n \in 0..K
      PROVE  f[n] = IF n = 0 THEN <<>> ELSE f[n - 1] \o Makes(s, messages[n])
  <2>1. f[n] = IF n = 0 THEN <<>> ELSE after[n][f[n - 1]]
    BY <1>5 DEF Loop
  <2>2. n # 0 => n \in 1..K /\ n - 1 \in 0..K
    OBVIOUS
  <2>3. n # 0 => f[n - 1] \in V
    BY <1>5, <2>2
  <2> QED
    BY <1>3, <2>1, <2>2, <2>3
<1>7. Rec(f)
  <2>1. f = [n \in 0..K |-> f[n]]
    BY <1>5
  <2> QED
    BY <1>2, <1>6, <2>1
<1>8. Rec(F)
    BY <1>7
<1>9. ASSUME NEW n \in 0..K
      PROVE  F[n] = IF n = 0 THEN <<>> ELSE F[n - 1] \o Makes(s, messages[n])
    BY <1>2, <1>8
<1> HIDE DEF F, Rec
<1>10. F[K] = f[K]
  <2>1. F[0] = f[0]
    <3>1. 0 \in 0..K
      OBVIOUS
    <3>2. F[0] = <<>> /\ f[0] = <<>>
      BY <1>6, <1>9, <3>1
    <3> QED
      BY <3>2
  <2>2. ASSUME NEW n \in 1..K, F[n - 1] = f[n - 1]
        PROVE  F[n] = f[n]
    <3>1. n \in 0..K /\ n # 0
      OBVIOUS
    <3> QED
      BY <1>6, <1>9, <2>2, <3>1
  <2> QED
    BY <2>1, <2>2, LoopsAgree
<1>11. Owes(f, s, messages)
  <2>1. \A n \in 1..K : n \in 0..K /\ n # 0
    OBVIOUS
  <2>2. f \in [0..Len(messages) -> Seq(Heards)]
    BY <1>2, <1>5 DEF V
  <2>3. f[0] = <<>>
    <3>1. 0 \in 0..K
      OBVIOUS
    <3> QED
      BY <1>6, <3>1
  <2>4. \A n \in 1..K : f[n] = f[n - 1] \o Makes(s, messages[n])
    BY <1>6, <2>1
  <2> QED
    BY <1>2, <2>2, <2>3, <2>4 DEF Owes
<1> QED
    BY <1>1, <1>2, <1>10, <1>11

\* What is due of messages and one more.
LEMMA DueGrows ==
    ASSUME NEW s, NEW messages \in Seq(Messages), NEW longer \in Seq(Messages),
           Len(longer) = Len(messages) + 1,
           \A i \in 1..Len(messages) : longer[i] = messages[i]
    PROVE  /\ Due(s, messages) \in Seq(Heards)
           /\ Due(s, longer) = Due(s, messages) \o Makes(s, longer[Len(longer)])
<1>1. PICK f : Owes(f, s, messages) /\ Due(s, messages) = f[Len(messages)]
    BY DueOwes
<1>2. PICK g : Owes(g, s, longer) /\ Due(s, longer) = g[Len(longer)]
    BY DueOwes
<1>3. PICK K \in Nat : /\ K = Len(messages) /\ Len(longer) = K + 1
                       /\ \A i \in 1..K : longer[i] = messages[i]
    BY SMT
<1>4. f[0] = <<>> /\ g[0] = <<>> /\ f[K] \in Seq(Heards)
    BY <1>1, <1>2, <1>3 DEF Owes
<1>5. \A n \in 1..K : f[n] = f[n - 1] \o Makes(s, messages[n])
    BY <1>1, <1>3 DEF Owes
<1>6. \A n \in 1..K + 1 : g[n] = g[n - 1] \o Makes(s, longer[n])
    BY <1>2, <1>3 DEF Owes
<1>7. ASSUME NEW n \in 1..K, f[n - 1] = g[n - 1]
      PROVE  f[n] = g[n]
  <2>1. n \in 1..K + 1
    OBVIOUS
  <2> QED
    BY <1>3, <1>5, <1>6, <1>7, <2>1
<1>8. f[K] = g[K]
  <2>1. f[0] = g[0]
    BY <1>4
  <2> QED
    BY <1>7, <2>1, LoopsAgree
<1>9. K + 1 \in 1..K + 1 /\ (K + 1) - 1 = K
    OBVIOUS
<1>10. g[K + 1] = g[K] \o Makes(s, longer[K + 1])
    BY <1>6, <1>9
<1> QED
    BY <1>1, <1>2, <1>3, <1>4, <1>8, <1>10

LEMMA DueOfNone == \A s : Due(s, <<>>) = <<>>
<1> SUFFICES ASSUME NEW s
             PROVE  Due(s, <<>>) = <<>>
    OBVIOUS
<1>1. <<>> \in Seq(Messages) /\ Len(<<>>) = 0
    OBVIOUS
<1>2. PICK f : Owes(f, s, <<>>) /\ Due(s, <<>>) = f[0]
    BY <1>1, DueOwes
<1> QED
    BY <1>2 DEF Owes

-------------------------------------------------------------------------------
\* The elements of two sequences, one after the other.
LEMMA SetOfBoth ==
    ASSUME NEW S, NEW s \in Seq(S), NEW t \in Seq(S)
    PROVE  ToSet(s \o t) = ToSet(s) \cup ToSet(t)
<1>1. PICK m \in Nat, n \in Nat : m = Len(s) /\ n = Len(t)
    BY SMT
<1>2. PICK u : u = s \o t
    OBVIOUS
<1>3. /\ DOMAIN s = 1..m /\ DOMAIN t = 1..n /\ DOMAIN u = 1..m + n
      /\ \A i \in 1..m : u[i] = s[i]
      /\ \A i \in 1..n : u[m + i] = t[i]
      /\ \A i \in 1..m + n : i > m => u[i] = t[i - m]
    BY <1>1, <1>2
<1>4. ASSUME NEW i \in 1..m + n
      PROVE  u[i] \in ToSet(s) \cup ToSet(t)
  <2>1. CASE i <= m
    <3>1. i \in 1..m
      BY <2>1
    <3> QED
      BY <1>3, <3>1 DEF ToSet
  <2>2. CASE i > m
    <3>1. i - m \in 1..n
      BY <2>2
    <3> QED
      BY <1>3, <2>2, <3>1 DEF ToSet
  <2> QED
    BY <2>1, <2>2
<1>5. ASSUME NEW i \in 1..m
      PROVE  s[i] \in ToSet(u)
  <2>1. i \in 1..m + n
    OBVIOUS
  <2> QED
    BY <1>3, <2>1 DEF ToSet
<1>6. ASSUME NEW i \in 1..n
      PROVE  t[i] \in ToSet(u)
  <2>1. m + i \in 1..m + n
    OBVIOUS
  <2> QED
    BY <1>3, <2>1 DEF ToSet
<1>7. ToSet(u) \subseteq ToSet(s) \cup ToSet(t)
    BY <1>3, <1>4 DEF ToSet
<1>8. ToSet(s) \cup ToSet(t) \subseteq ToSet(u)
    BY <1>3, <1>5, <1>6 DEF ToSet
<1> QED
    BY <1>2, <1>7, <1>8

\* What is due of the first messages, and what each of them makes, is due.
LEMMA DueHas ==
    ASSUME NEW s, NEW messages \in Seq(Messages), NEW k \in Nat, k <= Len(messages)
    PROVE  /\ Due(s, SubSeq(messages, 1, k)) \in Seq(Heards)
           /\ ToSet(Due(s, SubSeq(messages, 1, k))) \subseteq ToSet(Due(s, messages))
           /\ k < Len(messages) =>
                /\ Due(s, SubSeq(messages, 1, k + 1))
                     = Due(s, SubSeq(messages, 1, k)) \o Makes(s, messages[k + 1])
                /\ ToSet(Makes(s, messages[k + 1])) \subseteq ToSet(Due(s, messages))
<1>1. PICK K \in Nat : K = Len(messages) /\ \A n \in 1..K : messages[n] \in Messages
    BY SMT
<1> DEFINE First(n) == SubSeq(messages, 1, n)
<1>2. ASSUME NEW n \in 0..K
      PROVE  First(n) \in Seq(Messages) /\ Len(First(n)) = n
             /\ \A i \in 1..n : First(n)[i] = messages[i]
    BY <1>1
<1>3. First(K) = messages
    BY <1>1
<1> HIDE DEF First
<1>4. ASSUME NEW n \in 0..K, n < K
      PROVE  /\ Due(s, First(n)) \in Seq(Heards)
             /\ Due(s, First(n + 1)) = Due(s, First(n)) \o Makes(s, messages[n + 1])
             /\ Makes(s, messages[n + 1]) \in Seq(Heards)
  <2>1. n + 1 \in 0..K /\ n + 1 \in 1..n + 1 /\ n + 1 \in 1..K
    BY <1>4
  <2>2. PICK longer : longer = First(n + 1)
    OBVIOUS
  <2>3. PICK shorter : shorter = First(n)
    OBVIOUS
  <2>4. /\ longer \in Seq(Messages) /\ Len(longer) = n + 1
        /\ \A i \in 1..n + 1 : longer[i] = messages[i]
    BY <1>2, <2>1, <2>2
  <2>5. /\ shorter \in Seq(Messages) /\ Len(shorter) = n
        /\ \A i \in 1..n : shorter[i] = messages[i]
    BY <1>2, <2>3
  <2>6. \A i \in 1..Len(shorter) : longer[i] = shorter[i]
    <3>1. \A i \in 1..n : i \in 1..n + 1
      OBVIOUS
    <3> QED
      BY <2>4, <2>5, <3>1
  <2>7. /\ Due(s, shorter) \in Seq(Heards)
        /\ Due(s, longer) = Due(s, shorter) \o Makes(s, longer[Len(longer)])
    BY <2>4, <2>5, <2>6, DueGrows
  <2>8. longer[Len(longer)] = messages[n + 1]
    BY <2>1, <2>4
  <2>9. Makes(s, messages[n + 1]) \in Seq(Heards)
    BY <1>1, <2>1, MakesLines
  <2> QED
    BY <2>2, <2>3, <2>7, <2>8, <2>9
<1>5. ASSUME NEW n \in 0..K
      PROVE  Due(s, First(n)) \in Seq(Heards)
  <2>1. PICK f : Owes(f, s, First(n)) /\ Due(s, First(n)) = f[Len(First(n))]
    BY <1>2, DueOwes
  <2>2. Len(First(n)) \in 0..Len(First(n))
    BY <1>2
  <2> QED
    BY <2>1, <2>2 DEF Owes
<1>6. ASSUME NEW n \in 0..K, n < K
      PROVE  /\ ToSet(Due(s, First(n))) \subseteq ToSet(Due(s, First(n + 1)))
             /\ ToSet(Makes(s, messages[n + 1])) \subseteq ToSet(Due(s, First(n + 1)))
  <2>1. PICK u \in Seq(Heards), v \in Seq(Heards) :
            u = Due(s, First(n)) /\ v = Makes(s, messages[n + 1])
    BY <1>4, <1>6
  <2>2. Due(s, First(n + 1)) = u \o v
    BY <1>4, <1>6, <2>1
  <2>3. ToSet(u \o v) = ToSet(u) \cup ToSet(v)
    BY SetOfBoth
  <2> QED
    BY <2>1, <2>2, <2>3
<1> DEFINE T == {d \in 0..K : ~(ToSet(Due(s, First(K - d))) \subseteq ToSet(Due(s, messages)))}
<1>7. T = {}
  <2> SUFFICES ASSUME T # {}
               PROVE  FALSE
    OBVIOUS
  <2>1. T \subseteq Nat
    OBVIOUS
  <2> HIDE DEF T
  <2>2. PICK d \in T : \A j \in T : d <= j
    BY <2>1, SmallestOf
  <2>3. d \in 0..K /\ ~(ToSet(Due(s, First(K - d))) \subseteq ToSet(Due(s, messages)))
    BY <2>2 DEF T
  <2>4. d # 0
    BY <1>3, <2>3
  <2>5. d - 1 \in 0..K /\ d - 1 < d /\ K - d \in 0..K /\ K - d < K /\ K - (d - 1) = (K - d) + 1
    BY <2>3, <2>4
  <2>6. d - 1 \notin T
    BY <2>2, <2>3, <2>5
  <2>7. ToSet(Due(s, First((K - d) + 1))) \subseteq ToSet(Due(s, messages))
    BY <2>5, <2>6 DEF T
  <2> QED
    BY <1>6, <2>3, <2>5, <2>7
<1>8. ASSUME NEW n \in 0..K
      PROVE  ToSet(Due(s, First(n))) \subseteq ToSet(Due(s, messages))
  <2>1. PICK d \in 0..K : n = K - d
    <3>1. K - n \in 0..K /\ n = K - (K - n)
      OBVIOUS
    <3> QED
      BY <3>1
  <2>2. d \notin T
    BY <1>7
  <2> QED
    BY <2>1, <2>2
<1>9. k \in 0..K /\ (k < K => k + 1 \in 0..K)
    BY <1>1
<1> QED
    BY <1>1, <1>4, <1>5, <1>6, <1>8, <1>9 DEF First

-------------------------------------------------------------------------------
\* What is due does not change when something is said after it.
LEMMA PublishStep ==
    ASSUME MessagesInv, NEW topic \in Topics, NEW text \in Seq(Parts), NEW contents \in Seq(Parts),
           Written(text) = Written(contents), Publish(topic, text, contents)
    PROVE  MessagesInv'
<1> MessagesOK /\ Remaining /\ LinesDelivered
    BY DEF MessagesInv
<1>1. PICK m \in Messages : m = [topic |-> topic, contents |-> contents]
    BY DEF Messages
<1>2. PICK message \in [topic : Topics, text : Seq(Parts)] : message = [topic |-> topic, text |-> text]
    OBVIOUS
<1>3. /\ said' = Append(said, m) /\ broker' = Append(broker, message)
      /\ heard' = heard /\ aborted' = aborted /\ again' = again /\ ~aborted
    BY <1>1, <1>2 DEF Publish
<1>4. Carries(message, m)
    BY <1>1, <1>2 DEF Carries
<1>5. PICK K \in Nat, L \in Nat : K = Len(said) /\ L = Len(broker) /\ L <= K
    BY DEF MessagesOK, Remaining
<1>6. /\ said' \in Seq(Messages) /\ Len(said') = K + 1 /\ said'[K + 1] = m
      /\ \A i \in 1..K : said'[i] = said[i]
    BY <1>3, <1>5 DEF MessagesOK
<1>7. /\ broker' \in Seq([topic : Topics, text : Seq(Parts)]) /\ Len(broker') = L + 1
      /\ broker'[L + 1] = message /\ \A i \in 1..L : broker'[i] = broker[i]
  <2> DEFINE M == [topic : Topics, text : Seq(Parts)]
  <2>1. broker \in Seq(M) /\ message \in M
    BY DEF MessagesOK
  <2> HIDE DEF M
  <2> DEFINE longer == Append(broker, message)
  <2>2. /\ longer \in Seq(M) /\ Len(longer) = L + 1 /\ longer[L + 1] = message
        /\ \A i \in 1..L : longer[i] = broker[i]
    BY <1>5, <2>1
  <2> QED
    BY <1>3, <2>2 DEF M
<1>8. MessagesOK'
    BY <1>3, <1>6, <1>7 DEF MessagesOK, Listeners
<1>9. Remaining'
  <2>1. L + 1 <= K + 1
    BY <1>5
  <2>2. ASSUME NEW i \in 1..L + 1
        PROVE  Carries(broker'[i], said'[(K + 1) - (L + 1) + i])
    <3>1. CASE i = L + 1
      <4>1. (K + 1) - (L + 1) + i = K + 1
        BY <3>1
      <4> QED
        BY <1>4, <1>6, <1>7, <3>1, <4>1
    <3>2. CASE i # L + 1
      <4>1. i \in 1..L /\ (K + 1) - (L + 1) + i = K - L + i /\ K - L + i \in 1..K
        BY <1>5, <3>2
      <4>2. Carries(broker[i], said[K - L + i])
        BY <1>5, <4>1 DEF Remaining
      <4> QED
        BY <1>6, <1>7, <4>1, <4>2
    <3> QED
      BY <3>1, <3>2
  <2> QED
    BY <1>6, <1>7, <2>1, <2>2 DEF Remaining, Carries
<1>10. PICK n \in Nat : n = K - L /\ n <= K
  <2>1. K - L \in Nat /\ K - L <= K
    BY <1>5
  <2> QED
    BY <2>1
<1>11. (K + 1) - (L + 1) = n
    BY <1>10
<1>12. SubSeq(said', 1, n) = SubSeq(said, 1, n)
  <2>1. said \in Seq(Messages)
    BY DEF MessagesOK
  <2> QED
    BY <1>3, <1>5, <1>10, <2>1
<1>13. ASSUME NEW s
       PROVE  ToSet(Due(s, said)) \subseteq ToSet(Due(s, said'))
  <2>1. SubSeq(said', 1, K) = said
    <3>1. said \in Seq(Messages)
      BY DEF MessagesOK
    <3> QED
      BY <1>3, <1>5, <3>1
  <2>2. K <= Len(said')
    BY <1>6
  <2> QED
    BY <1>6, <2>1, <2>2, DueHas
<1>14. LinesDelivered'
  <2>1. Len(said') - Len(broker') = n /\ Len(said) - Len(broker) = n
    BY <1>5, <1>6, <1>7, <1>10, <1>11
  <2> DEFINE due(s) == Due(s, SubSeq(said, 1, n))
  <2>2. \A l \in Listeners :
            IF again THEN /\ ToSet(due(l[1])) \subseteq ToSet(heard[l])
                          /\ ToSet(heard[l]) \subseteq ToSet(Due(l[1], said))
            ELSE heard[l] = due(l[1])
    BY <1>3, <2>1 DEF LinesDelivered
  <2> HIDE DEF due
  <2>3. \A l \in Listeners :
            IF again THEN /\ ToSet(due(l[1])) \subseteq ToSet(heard[l])
                          /\ ToSet(heard[l]) \subseteq ToSet(Due(l[1], said'))
            ELSE heard[l] = due(l[1])
    BY <1>13, <2>2
  <2>4. \A s : due(s) = Due(s, SubSeq(said', 1, Len(said') - Len(broker')))
    BY <1>12, <2>1 DEF due
  <2>5. \A l \in Listeners :
            IF again THEN /\ ToSet(Due(l[1], SubSeq(said', 1, Len(said') - Len(broker'))))
                               \subseteq ToSet(heard[l])
                          /\ ToSet(heard[l]) \subseteq ToSet(Due(l[1], said'))
            ELSE heard[l] = Due(l[1], SubSeq(said', 1, Len(said') - Len(broker')))
    BY <2>3, <2>4
  <2> QED
    BY <1>3, <2>5 DEF LinesDelivered
<1> QED
    BY <1>8, <1>9, <1>14 DEF MessagesInv

\* A callback that has heard what was due has heard what is due, once the
\* broker's next message is split into lines.
LEMMA DeliverStep ==
    ASSUME MessagesInv, Deliver
    PROVE  MessagesInv'
<1> MessagesOK /\ Remaining /\ LinesDelivered
    BY DEF MessagesInv
<1>1. ~aborted /\ broker # <<>> /\ said' = said /\ Receive(Head(broker))
    BY DEF Deliver
<1>2. (broker' = Tail(broker) /\ again' = again) \/ (broker' = broker /\ again' = TRUE /\ ~again)
    BY DEF Deliver
<1> DEFINE M == [topic : Topics, text : Seq(Parts)]
<1>3. broker \in Seq(M)
    BY DEF MessagesOK
<1> HIDE DEF M
<1>4. PICK K \in Nat, L \in Nat : K = Len(said) /\ L = Len(broker) /\ L <= K /\ L > 0
    BY <1>1, <1>3 DEF MessagesOK, Remaining
<1>5. PICK rest : /\ rest = Tail(broker) /\ rest \in Seq(M) /\ Len(rest) = L - 1
                  /\ \A i \in 1..L - 1 : rest[i] = broker[i + 1]
  <2>1. Tail(broker) \in Seq(M) /\ Len(Tail(broker)) = L - 1
    BY <1>1, <1>3, <1>4
  <2>2. \A i \in 1..L - 1 : Tail(broker)[i] = broker[i + 1]
    BY <1>1, <1>3, <1>4
  <2> QED
    BY <2>1, <2>2
<1>6. PICK n \in Nat : n = K - L /\ n < K /\ n + 1 = K - (L - 1) /\ n + 1 \in 1..K
  <2>1. K - L \in Nat /\ K - L < K /\ (K - L) + 1 = K - (L - 1) /\ (K - L) + 1 \in 1..K
    BY <1>4
  <2> QED
    BY <2>1
<1>7. PICK message \in M : message = Head(broker) /\ message = broker[1]
    BY <1>1, <1>3, <1>4
<1>8. PICK m \in Messages : m = said[n + 1]
    BY <1>4, <1>6 DEF MessagesOK
<1>9. Carries(message, m)
  <2>1. 1 \in 1..L /\ K - L + 1 = n + 1
    BY <1>4, <1>6
  <2> QED
    BY <1>4, <1>7, <1>8, <2>1 DEF Remaining
<1>10. ASSUME NEW s
       PROVE  /\ Heard(s, message.topic, Split(message.text)) = Makes(s, m)
              /\ Makes(s, m) \in Seq(Heards)
    BY <1>9, MakesLines DEF Carries, Split, Makes
<1>11. Remaining'
  <2>1. CASE broker' = broker
    BY <1>1, <2>1 DEF Remaining, Carries
  <2>2. CASE broker' = Tail(broker)
    <3>1. Len(broker') = L - 1 /\ Len(said') = K /\ L - 1 <= K
      BY <1>1, <1>4, <1>5, <2>2
    <3>2. ASSUME NEW i \in 1..L - 1
          PROVE  Carries(broker'[i], said'[K - (L - 1) + i])
      <4>1. i + 1 \in 1..L /\ K - L + (i + 1) = K - (L - 1) + i
        BY <1>4
      <4>2. Carries(broker[i + 1], said[K - L + (i + 1)])
        BY <1>4, <4>1 DEF Remaining
      <4> QED
        BY <1>1, <1>5, <2>2, <4>1, <4>2
    <3> QED
      BY <3>1, <3>2 DEF Remaining, Carries
  <2> QED
    BY <1>2, <2>1, <2>2
<1>12. broker' \in Seq(M)
    BY <1>2, <1>3, <1>5
<1>13. CASE message.text = <<Blank>>
  <2>1. aborted' = TRUE /\ heard' = heard
    BY <1>1, <1>7, <1>13 DEF Receive
  <2>2. Written(m.contents) = <<>>
    BY <1>9, <1>13, WrittenOfParts DEF Carries
  <2>3. n + 1 \in DOMAIN said'
    BY <1>1, <1>4, <1>6 DEF MessagesOK
  <2>4. MessagesOK'
    BY <1>1, <1>12, <2>1 DEF MessagesOK, M, Listeners
  <2>5. LinesDelivered'
    <3>1. \E i \in DOMAIN said' : Written(said'[i].contents) = <<>>
      BY <1>1, <1>8, <2>2, <2>3
    <3> QED
      BY <2>1, <3>1 DEF LinesDelivered
  <2> QED
    BY <1>11, <2>4, <2>5 DEF MessagesInv
<1>14. CASE message.text # <<Blank>>
  <2>1. /\ aborted' = aborted
        /\ heard' = [l \in Listeners |->
                        heard[l] \o Heard(l[1], message.topic, Split(message.text))]
    BY <1>1, <1>7, <1>14 DEF Receive
  <2>2. ASSUME NEW l \in Listeners
        PROVE  heard'[l] = heard[l] \o Makes(l[1], m) /\ heard[l] \in Seq(Heards)
    BY <1>10, <2>1 DEF MessagesOK
  <2>3. heard' \in [Listeners -> Seq(Heards)]
    <3>1. ASSUME NEW l \in Listeners
          PROVE  heard[l] \o Makes(l[1], m) \in Seq(Heards)
      <4>1. PICK u \in Seq(Heards), v \in Seq(Heards) : u = heard[l] /\ v = Makes(l[1], m)
        BY <1>10, <2>2
      <4>2. u \o v \in Seq(Heards)
        OBVIOUS
      <4> QED
        BY <4>1, <4>2
    <3>2. heard' = [l \in Listeners |-> heard'[l]]
      BY <2>1
    <3> QED
      BY <2>2, <3>1, <3>2
  <2>4. MessagesOK'
    BY <1>1, <1>12, <2>3 DEF MessagesOK, M, Listeners
  <2>5. said \in Seq(Messages)
    BY DEF MessagesOK
  <2> DEFINE due(s) == Due(s, SubSeq(said, 1, n))
             next(s) == Due(s, SubSeq(said, 1, n + 1))
  <2>6. ASSUME NEW s
        PROVE  /\ due(s) \in Seq(Heards) /\ next(s) = due(s) \o Makes(s, m)
               /\ ToSet(due(s)) \subseteq ToSet(Due(s, said))
               /\ ToSet(Makes(s, m)) \subseteq ToSet(Due(s, said))
    <3>1. n \in Nat /\ n <= Len(said) /\ n < Len(said)
      BY <1>4, <1>6
    <3>2. /\ Due(s, SubSeq(said, 1, n)) \in Seq(Heards)
          /\ ToSet(Due(s, SubSeq(said, 1, n))) \subseteq ToSet(Due(s, said))
          /\ Due(s, SubSeq(said, 1, n + 1))
                = Due(s, SubSeq(said, 1, n)) \o Makes(s, said[n + 1])
          /\ ToSet(Makes(s, said[n + 1])) \subseteq ToSet(Due(s, said))
      BY <2>5, <3>1, DueHas
    <3> QED
      BY <1>8, <3>2
  <2>7. \A l \in Listeners :
            IF again THEN /\ ToSet(due(l[1])) \subseteq ToSet(heard[l])
                          /\ ToSet(heard[l]) \subseteq ToSet(Due(l[1], said))
            ELSE heard[l] = due(l[1])
    BY <1>1, <1>4, <1>6 DEF LinesDelivered
  <2> HIDE DEF due, next
  <2>8. CASE broker' = Tail(broker) /\ again' = again
    <3>1. Len(said') - Len(broker') = n + 1
      BY <1>1, <1>4, <1>5, <1>6, <2>8
    <3>2. ASSUME NEW l \in Listeners
          PROVE  IF again THEN /\ ToSet(next(l[1])) \subseteq ToSet(heard'[l])
                               /\ ToSet(heard'[l]) \subseteq ToSet(Due(l[1], said))
                 ELSE heard'[l] = next(l[1])
      <4>1. CASE ~again
        BY <2>2, <2>6, <2>7, <4>1
      <4>2. CASE again
        <5>1. /\ ToSet(next(l[1])) = ToSet(due(l[1])) \cup ToSet(Makes(l[1], m))
              /\ ToSet(heard'[l]) = ToSet(heard[l]) \cup ToSet(Makes(l[1], m))
          <6>1. PICK u \in Seq(Heards), v \in Seq(Heards), w \in Seq(Heards) :
                    u = heard[l] /\ v = Makes(l[1], m) /\ w = due(l[1])
            BY <1>10, <2>2, <2>6
          <6>2. heard'[l] = u \o v /\ next(l[1]) = w \o v
            BY <2>2, <2>6, <6>1
          <6>3. ToSet(u \o v) = ToSet(u) \cup ToSet(v) /\ ToSet(w \o v) = ToSet(w) \cup ToSet(v)
            BY SetOfBoth
          <6> QED
            BY <6>1, <6>2, <6>3
        <5> QED
          BY <2>6, <2>7, <4>2, <5>1
      <4> QED
        BY <4>1, <4>2
    <3>3. \A s : next(s) = Due(s, SubSeq(said', 1, Len(said') - Len(broker')))
      BY <1>1, <3>1 DEF next
    <3>4. \A l \in Listeners :
            IF again THEN /\ ToSet(Due(l[1], SubSeq(said', 1, Len(said') - Len(broker'))))
                               \subseteq ToSet(heard'[l])
                          /\ ToSet(heard'[l]) \subseteq ToSet(Due(l[1], said'))
            ELSE heard'[l] = Due(l[1], SubSeq(said', 1, Len(said') - Len(broker')))
      BY <1>1, <3>2, <3>3
    <3>5. LinesDelivered'
      BY <1>1, <2>1, <2>8, <3>4 DEF LinesDelivered
    <3> QED
      BY <1>11, <2>4, <3>5 DEF MessagesInv
  <2>9. CASE broker' = broker /\ again' = TRUE /\ ~again
    <3>1. Len(said') - Len(broker') = n
      BY <1>1, <1>4, <1>6, <2>9
    <3>2. ASSUME NEW l \in Listeners
          PROVE  /\ ToSet(due(l[1])) \subseteq ToSet(heard'[l])
                 /\ ToSet(heard'[l]) \subseteq ToSet(Due(l[1], said))
      <4>1. ToSet(heard'[l]) = ToSet(heard[l]) \cup ToSet(Makes(l[1], m))
        <5>1. PICK u \in Seq(Heards), v \in Seq(Heards) : u = heard[l] /\ v = Makes(l[1], m)
          BY <1>10, <2>2
        <5>2. heard'[l] = u \o v
          BY <2>2, <5>1
        <5>3. ToSet(u \o v) = ToSet(u) \cup ToSet(v)
          BY SetOfBoth
        <5> QED
          BY <5>1, <5>2, <5>3
      <4>2. heard[l] = due(l[1])
        BY <2>7, <2>9
      <4> QED
        BY <2>6, <4>1, <4>2
    <3>3. \A s : due(s) = Due(s, SubSeq(said', 1, Len(said') - Len(broker')))
      BY <1>1, <3>1 DEF due
    <3>4. \A l \in Listeners :
            /\ ToSet(Due(l[1], SubSeq(said', 1, Len(said') - Len(broker'))))
                    \subseteq ToSet(heard'[l])
            /\ ToSet(heard'[l]) \subseteq ToSet(Due(l[1], said'))
      BY <1>1, <3>2, <3>3
    <3>5. LinesDelivered'
      BY <1>1, <2>1, <2>9, <3>4 DEF LinesDelivered
    <3> QED
      BY <1>11, <2>4, <3>5 DEF MessagesInv
  <2> QED
    BY <1>2, <2>8, <2>9
<1> QED
    BY <1>13, <1>14

LEMMA MessagesStep == MessagesInv /\ [MessagesNext]_messagesVars => MessagesInv'
<1> SUFFICES ASSUME MessagesInv, [MessagesNext]_messagesVars
             PROVE  MessagesInv'
    OBVIOUS
<1>1. ASSUME UNCHANGED <<broker, heard, aborted, said, again>>
      PROVE  MessagesInv'
    BY <1>1 DEF MessagesInv, MessagesOK, Remaining, LinesDelivered, Listeners, Carries
<1>2. CASE Toggle \/ (\E topic \in Topics : Register(topic)) \/ UNCHANGED messagesVars
    BY <1>1, <1>2 DEF Toggle, Register, messagesVars
<1>3. ASSUME NEW topic \in Topics, NEW line \in Parts, PublishOne(topic, line)
      PROVE  MessagesInv'
  <2>1. PICK text \in Seq(Parts) : text = <<line>>
    <3>1. <<line>> \in Seq(Parts)
      OBVIOUS
    <3> QED
      BY <3>1
  <2> QED
    BY <1>3, <2>1, PublishStep DEF PublishOne
<1>4. ASSUME NEW topic \in Topics, NEW contents \in Seq(Parts), PublishAll(topic, contents)
      PROVE  MessagesInv'
  <2>1. Blank \in Parts
    BY DEF Parts
  <2>2. PICK text \in Seq(Parts) : text = Append(contents, Blank)
    <3>1. Append(contents, Blank) \in Seq(Parts)
      BY <2>1
    <3> QED
      BY <3>1
  <2>3. Written(text) = Written(contents)
    BY <2>2, WrittenOfParts
  <2> QED
    BY <1>4, <2>2, <2>3, PublishStep DEF PublishAll, Joined
<1>5. SeqOf(Parts, MaxContents) \subseteq Seq(Parts)
    BY MessagesAssumption DEF SeqOf
<1> QED
    BY <1>2, <1>3, <1>4, <1>5, DeliverStep DEF MessagesNext, Parts

LEMMA MessagesStart == MessagesInit => MessagesInv
<1> SUFFICES ASSUME MessagesInit
             PROVE  MessagesInv
    OBVIOUS
<1>1. /\ broker = <<>> /\ said = <<>> /\ ~aborted /\ ~again
      /\ heard = [l \in Listeners |-> <<>>]
    BY DEF MessagesInit
<1>2. MessagesOK
  <2>1. said \in Seq(Messages) /\ broker \in Seq([topic : Topics, text : Seq(Parts)])
    BY <1>1
  <2>2. <<>> \in Seq(Heards)
    OBVIOUS
  <2> QED
    BY <1>1, <2>1, <2>2 DEF MessagesOK
<1>3. Remaining
    BY <1>1 DEF Remaining
<1>4. LinesDelivered
  <2>1. SubSeq(said, 1, Len(said) - Len(broker)) = <<>>
    BY <1>1
  <2> QED
    BY <1>1, <2>1, DueOfNone DEF LinesDelivered
<1> QED
    BY <1>2, <1>3, <1>4 DEF MessagesInv

\* The inductive invariant of the messages.
THEOREM MessagesInvariance == MessagesSpec => []MessagesInv
    BY MessagesStart, MessagesStep, PTL DEF MessagesSpec

\* publish and callback_message: for any topics, subscribers, callbacks and
\* contents, whichever way they are published and whenever the connection is
\* lost, every callback hears the contents that are due to it, each a line, in
\* order, once unless the broker delivers again.
THEOREM LinesAreDelivered == MessagesSpec => []LinesDelivered
<1>1. MessagesInv => LinesDelivered
    BY DEF MessagesInv
<1> QED
    BY MessagesInvariance, <1>1, PTL
===============================================================================
