----------------------------- MODULE MCSequential -----------------------------
(***************************************************************************)
(* Small instances of the parts that one thread uses and that share        *)
(* nothing: the two containers, the entry of a database link with its      *)
(* requests, the options of a program, the messages of the mqtt link.  A   *)
(* behaviour uses one of them while the others stay as they were made.     *)
(***************************************************************************)
EXTENDS Histogram, UpperMatrix, InfluxLink, Configuration, MqttMessages

CONSTANTS a, b, ab  \* subscribers on a, on b and on both

VARIABLE using

sequentialVars ==
    <<histogramVars, matrixVars, influxVars, configurationVars, messagesVars, using>>

Init ==
    /\ HistogramInit /\ MatrixInit /\ InfluxInit /\ ConfigurationInit /\ MessagesInit
    /\ using \in {"histogram", "matrix", "influx", "https", "configuration", "messages"}
    /\ using # "histogram" => m_n = 1 /\ m_upper = 0
    /\ using # "matrix" => m_columns = 0

\* http_request() called by a user, with TLS.
SecureRequest == number < 1 /\ Request(<<"text">>, TRUE)
SecureAnswer == \E r \in arriving : Answer(r, "ok")

\* Bound: a matrix is no longer followed once it is shuffled and
\* ElementsStayInPlace says nothing of it.
Orderly == ~shuffled

Next ==
    \/ /\ using = "histogram"
       /\ HistogramNext
       /\ UNCHANGED <<matrixVars, influxVars, configurationVars, messagesVars, using>>
    \/ /\ using = "matrix"
       /\ Orderly /\ MatrixNext
       /\ UNCHANGED <<histogramVars, influxVars, configurationVars, messagesVars, using>>
    \/ /\ using = "influx"
       /\ InfluxNext
       /\ UNCHANGED <<histogramVars, matrixVars, configurationVars, messagesVars, using>>
    \/ /\ using = "https"
       /\ SecureRequest \/ RequestNext \/ SecureAnswer
       /\ UNCHANGED <<entry, committing, result, database>>
       /\ UNCHANGED <<histogramVars, matrixVars, configurationVars, messagesVars, using>>
    \/ /\ using = "configuration"
       /\ ConfigurationNext
       /\ UNCHANGED <<histogramVars, matrixVars, influxVars, messagesVars, using>>
    \/ /\ using = "messages"
       /\ MessagesNext
       /\ UNCHANGED <<histogramVars, matrixVars, influxVars, configurationVars, using>>

Spec == Init /\ [][Next]_sequentialVars

MCBounds == {-2, 1, 3}
MCValues == -2..3
MCMatching == {<<a, a>>, <<b, b>>, <<ab, a>>, <<ab, b>>}
MCCallbacks == [s \in {a, b, ab} |-> IF s = ab THEN 2 ELSE 1]
===============================================================================
