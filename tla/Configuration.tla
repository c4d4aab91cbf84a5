----------------------------- MODULE Configuration ----------------------------
(***************************************************************************)
(* muonpi::config: setup() opens an initialisation, commit() stores its    *)
(* options, and the commit that finds no other initialisation open in the  *)
(* whole program has the options of its configuration notified.            *)
(***************************************************************************)
EXTENDS Integers

CONSTANTS
    Configs,
    MaxSetups,      \* bound: calls of setup()
    MaxTries        \* bound: calls of commit() of an initialisation

ASSUME ConfigurationAssumption == MaxSetups \in Nat /\ MaxTries \in Nat

VARIABLES
    s_instances,    \* below 0 for the large number it wraps around to
    initialisations,    \* history: the configuration each was opened for
    stored,         \* m_options: the initialisations whose options it has
    notified,       \* the initialisations whose options were notified
    tries, done     \* history: the commits of each, and those that returned

configurationVars == <<s_instances, initialisations, stored, notified, tries, done>>
Ids == 1..MaxSetups

ConfigurationInit ==
    /\ s_instances = 0
    /\ initialisations = [i \in {} |-> 0]
    /\ stored = [c \in Configs |-> {}] /\ notified = [c \in Configs |-> {}]
    /\ tries = [i \in Ids |-> 0] /\ done = [i \in Ids |-> 0]

Opened == DOMAIN initialisations

Setup(c, i) ==
    /\ i \in Ids /\ Opened = 1..i - 1
    /\ s_instances' = s_instances + 1
    /\ initialisations' = [j \in Opened \cup {i} |-> IF j = i THEN c ELSE initialisations[j]]
    /\ UNCHANGED <<stored, notified, tries, done>>

Try(i) ==
    /\ i \in Opened /\ tries[i] < MaxTries
    /\ tries' = [tries EXCEPT ![i] = @ + 1]
    /\ UNCHANGED initialisations

\* Mutant: the options are notified before this commit is counted.
CommitCountsLate(i) ==
    LET c == initialisations[i]
    IN  /\ Try(i)
        /\ stored' = [stored EXCEPT ![c] = @ \cup {i}]
        /\ s_instances' = s_instances - 1
        /\ notified' = IF s_instances = 0 THEN [notified EXCEPT ![c] = stored'[c]] ELSE notified
        /\ done' = [done EXCEPT ![i] = @ + 1]

\* Both commits: of a command line and of a file.
CommitOptions(i) ==
    LET c == initialisations[i]
    IN  /\ Try(i)
        /\ stored' = [stored EXCEPT ![c] = @ \cup {i}]
        /\ s_instances' = s_instances - 1
        /\ notified' = IF s_instances' = 0 THEN [notified EXCEPT ![c] = stored'[c]] ELSE notified
        /\ done' = [done EXCEPT ![i] = @ + 1]

\* No file, or options that cannot be parsed: the initialisation stays open.
CommitThrows(i) == Try(i) /\ UNCHANGED <<s_instances, stored, notified, done>>

ConfigurationNext ==
    \E i \in Ids :
        \/ \E c \in Configs : Setup(c, i)
        \/ CommitOptions(i) \/ CommitThrows(i)

ConfigurationSpec == ConfigurationInit /\ [][ConfigurationNext]_configurationVars

-------------------------------------------------------------------------------
\* While no initialisation has been committed twice, no configuration is
\* notified before all its initialisations are committed; and once all there
\* are have been, also after tries that threw, the options of the
\* configuration committed last were notified, and of every configuration if
\* there is only one.
OptionsNotified ==
    (\A i \in Opened : done[i] <= 1) =>
        /\ \A c \in Configs : notified[c] # {} =>
            \E n \in Opened : notified[c] = {i \in 1..n : initialisations[i] = c}
        /\ (Opened # {} /\ \A i \in Opened : done[i] = 1) =>
            \E i \in Opened : LET c == initialisations[i] IN notified[c] = stored[c]
===============================================================================
