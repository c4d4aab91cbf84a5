------------------------------ MODULE InfluxLink ------------------------------
(***************************************************************************)
(* muonpi::link::influx: an entry gathers tags and fields, and commit()    *)
(* sends them as a line to a database.  A line is the sequence of what was *)
(* streamed into m_tags: tags, and what a commit appended to them.         *)
(***************************************************************************)
EXTENDS HttpRequest, Sequences, SequencesExt

CONSTANTS
    Tags, Fields,
    Unwritable,     \* fields whose text is no field of a line (no value was
                    \* written for the type, a character that is not escaped)
    MaxAdds,        \* bound: tags and fields added to an entry
    MaxCommits      \* bound: calls of commit()

ASSUME InfluxAssumption ==
    Tags \cap Fields = {} /\ Unwritable \subseteq Fields /\ MaxAdds \in Nat /\ MaxCommits \in Nat

VARIABLES
    m_tags, m_fields,
    committing,     \* commit() waits for send_string()
    result,         \* what the last commit() came to
    commits,        \* history: calls of commit(), which also is the timestamp
    database        \* external: the points written

influxVars == <<m_tags, m_fields, committing, result, commits, database, requestVars>>
entry == <<m_tags, m_fields, commits>>

\* measurement()
InfluxInit ==
    /\ RequestInit
    /\ m_tags = <<>> /\ m_fields = <<>>
    /\ committing = FALSE /\ result = "none" /\ commits = 0
    /\ database = <<>>

Adding == ~committing /\ Len(m_tags) - commits + Len(m_fields) < MaxAdds

AddTag(tag) ==
    /\ Adding
    /\ m_tags' = Append(m_tags, [tag |-> tag])
    /\ UNCHANGED <<m_fields, committing, result, commits, database, requestVars>>

AddField(field) ==
    /\ Adding
    /\ m_fields' = Append(m_fields, field)
    /\ UNCHANGED <<m_tags, committing, result, commits, database, requestVars>>

CommitEmpty ==
    /\ ~committing /\ m_fields = <<>>
    /\ result' = "false"
    /\ UNCHANGED <<entry, committing, database, requestVars>>

Appended == [fields |-> m_fields, timestamp |-> commits]

\* Mutant: the line is put together on the side, so that a commit that
\* failed can be tried again.
CommitOnTheSide ==
    /\ ~committing /\ m_fields # <<>> /\ commits < MaxCommits
    /\ committing' = TRUE /\ commits' = commits + 1
    /\ Request(Append(m_tags, Appended), FALSE)
    /\ UNCHANGED <<m_tags, m_fields, result, database>>

\* commit() up to the request: what it appends stays in m_tags.
Commit ==
    /\ ~committing /\ m_fields # <<>> /\ commits < MaxCommits
    /\ committing' = TRUE /\ commits' = commits + 1
    /\ m_tags' = Append(m_tags, Appended)
    /\ Request(m_tags', FALSE)
    /\ UNCHANGED <<m_fields, result, database>>

\* send_string() from the response on; an exception passes through.
SendReturns ==
    /\ committing /\ stage = "idle"
    /\ result' = CASE outcome = "no_content" -> "true"
                   [] outcome = "throws" -> "throws"
                   [] OTHER -> "false"
    /\ committing' = FALSE
    /\ UNCHANGED <<entry, database, requestVars>>

\* A line is its tags, one group of fields and one timestamp.
Accepted(line) ==
    /\ \A i \in 1..Len(line) - 1 : line[i] \in [tag : Tags]
    /\ Last(line) \notin [tag : Tags]
    /\ ToSet(Last(line).fields) \cap Unwritable = {}

\* The database writes a line that is one, or reports an error.
Store(r) ==
    /\ Accepted(r.body)
    /\ database' = Append(database, r.body)
    /\ Answer(r, "no_content")
    /\ UNCHANGED <<entry, committing, result>>

Refuse(r) ==
    /\ Answer(r, "error")
    /\ UNCHANGED <<entry, committing, result, database>>

InfluxNext ==
    \/ \E tag \in Tags : AddTag(tag)
    \/ \E field \in Fields : AddField(field)
    \/ CommitEmpty \/ Commit \/ SendReturns
    \/ RequestNext /\ UNCHANGED <<entry, committing, result, database>>
    \/ \E r \in arriving : Store(r) \/ Refuse(r)

InfluxSpec == InfluxInit /\ [][InfluxNext]_influxVars

-------------------------------------------------------------------------------
\* However often commit() is called, and wherever in the request something
\* threw, an entry is written at most once: by the first commit that had
\* fields, with all its tags and fields.  A commit that answers true has
\* written it; after one that failed no other can.
WrittenOnce ==
    /\ Len(database) <= 1
    /\ result = "true" => Len(database) = 1
    /\ \A i \in DOMAIN database : LET line == database[i]
        IN  IsPrefix(line, m_tags) /\ IsPrefix(Last(line).fields, m_fields) /\ Last(line).timestamp = 0
===============================================================================
