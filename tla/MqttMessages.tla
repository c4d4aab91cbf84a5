----------------------------- MODULE MqttMessages -----------------------------
(***************************************************************************)
(* What muonpi::link::mqtt makes of messages: a publisher joins contents   *)
(* with newlines, callback_message splits them again and hands the lines   *)
(* to the callbacks of every subscriber whose topic matches.  A text is    *)
(* the sequence of its parts between newlines.                             *)
(***************************************************************************)
EXTENDS Naturals, Sequences, FiniteSets, SequencesExt

CONSTANTS
    Topics,         \* topics published on, subtopics included
    Subscribers,    \* the topics in m_subscribers
    Matching,       \* external: <<subscriber, topic>> of mosquitto_topic_matches_sub2
    Callbacks,      \* per subscriber, how many callbacks it has
    Lines, Blank,   \* lines that say something, and the empty one
    MaxMessages,    \* bound: contents published
    MaxContents     \* bound: contents published together

ASSUME MessagesAssumption ==
    /\ Matching \subseteq Subscribers \X Topics
    /\ Callbacks \in [Subscribers -> Nat]
    /\ Blank \notin Lines /\ MaxMessages \in Nat /\ MaxContents \in Nat

VARIABLES
    connected,      \* m_status is Connected
    m_publishers,
    broker,         \* external: the messages it still has to deliver
    heard,          \* what each callback was called with
    aborted,        \* an exception left callback_message through the C library
    said,           \* history: the contents publish() accepted
    again           \* history: the broker has delivered a message twice

messagesVars == <<connected, m_publishers, broker, heard, aborted, said, again>>
Listeners == UNION {{s} \X (1..Callbacks[s]) : s \in Subscribers}

MessagesInit ==
    /\ connected = TRUE /\ m_publishers = {} /\ broker = <<>>
    /\ heard = [l \in Listeners |-> <<>>]
    /\ aborted = FALSE /\ said = <<>> /\ again = FALSE

\* external: the connection is lost, or made again
Toggle == ~aborted /\ connected' = ~connected /\ UNCHANGED <<m_publishers, broker, heard, aborted, said, again>>

\* publish(topic) throws while there is no connection.
Register(topic) ==
    /\ ~aborted /\ connected
    /\ m_publishers' = m_publishers \cup {topic}
    /\ UNCHANGED <<connected, broker, heard, aborted, said, again>>

\* publish(vector): every content ends with a newline.
Joined(contents) == Append(contents, Blank)

\* publish(topic, content); its publisher may be on a topic above it.
Publish(topic, text, contents) ==
    /\ ~aborted /\ connected
    /\ m_publishers # {} /\ Len(said) < MaxMessages
    /\ broker' = Append(broker, [topic |-> topic, text |-> text])
    /\ said' = Append(said, [topic |-> topic, contents |-> contents])
    /\ UNCHANGED <<connected, m_publishers, heard, aborted, again>>

PublishOne(topic, line) == Publish(topic, <<line>>, <<line>>)
PublishAll(topic, contents) == Publish(topic, Joined(contents), contents)

\* The lines that say something.
Written(lines) ==
    LET kept[n \in 0..Len(lines)] ==
            IF n = 0 THEN <<>>
            ELSE IF lines[n] = Blank THEN kept[n - 1] ELSE Append(kept[n - 1], lines[n])
    IN  kept[Len(lines)]

\* Mutant: only a newline ends a line.
SplitAtNewlines(text) == Written(Front(text))

\* The loop over getline().
Split(text) == Written(text)

\* push_message(): what a subscriber on s calls its callbacks with.
Heard(s, topic, lines) ==
    IF <<s, topic>> \in Matching THEN [i \in 1..Len(lines) |-> <<topic, lines[i]>>] ELSE <<>>

\* callback_message(): a message without a payload has a null pointer for one.
Receive(message) ==
    IF message.text = <<Blank>>
    THEN aborted' = TRUE /\ UNCHANGED heard
    ELSE /\ heard' = [l \in Listeners |->
                        heard[l] \o Heard(l[1], message.topic, Split(message.text))]
         /\ UNCHANGED aborted

\* The broker delivers in order, and after a lost connection maybe twice.
Deliver ==
    /\ ~aborted /\ connected /\ broker # <<>>
    /\ Receive(Head(broker))
    /\ \/ broker' = Tail(broker) /\ UNCHANGED again
       \/ again' = TRUE /\ ~again /\ UNCHANGED broker
    /\ UNCHANGED <<connected, m_publishers, said>>

MessagesNext ==
    \/ Toggle \/ Deliver
    \/ \E topic \in Topics :
        \/ Register(topic)
        \/ \E line \in Lines \cup {Blank} : PublishOne(topic, line)
        \/ \E contents \in SeqOf(Lines \cup {Blank}, MaxContents) : PublishAll(topic, contents)

MessagesSpec == MessagesInit /\ [][MessagesNext]_messagesVars

-------------------------------------------------------------------------------
\* What a subscriber on s is to hear of messages.
Due(s, messages) ==
    LET due[n \in 0..Len(messages)] ==
            IF n = 0 THEN <<>>
            ELSE due[n - 1] \o Heard(s, messages[n].topic, Written(messages[n].contents))
    IN  due[Len(messages)]

\* Every callback hears every content that is not empty, published on a topic
\* that matches, once, in order and as a line of its own, whichever way it was
\* published; more than once only after the broker has delivered again.  The
\* program ends in callback_message only for the one content that is empty
\* altogether.
LinesDelivered ==
    /\ aborted => \E i \in DOMAIN said : Written(said[i].contents) = <<>>
    /\ ~aborted => \A l \in Listeners :
        LET due == Due(l[1], SubSeq(said, 1, Len(said) - Len(broker)))
            all == Due(l[1], said)
        IN  IF again THEN ToSet(due) \subseteq ToSet(heard[l]) /\ ToSet(heard[l]) \subseteq ToSet(all)
            ELSE heard[l] = due
===============================================================================
