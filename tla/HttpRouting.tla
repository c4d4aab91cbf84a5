------------------------------ MODULE HttpRouting -----------------------------
(***************************************************************************)
(* How muonpi::http::http_server finds the handler of a request: a target  *)
(* is split at '/', and a tree of path_handlers is descended one part at a *)
(* time.  A target is a sequence of what is between its slashes: "/a/" is  *)
(* <<"", "a", "">>.                                                        *)
(***************************************************************************)
EXTENDS Integers, Sequences, SequencesExt

CONSTANTS
    Handlers,   \* the path_handlers, children included
    Root,       \* stands for m_handler, the list at the top
    Tree        \* handler -> [matches, requires_auth, accepts, children]

ASSUME HandlersAssumption ==
    /\ Root \notin Handlers
    /\ \A h \in Handlers \cup {Root} : Tree[h].children \in Seq(Handlers)
    /\ \A p, q \in Handlers \cup {Root} :
        ToSet(Tree[p].children) \cap ToSet(Tree[q].children) # {} => p = q
    /\ \A h \in Handlers : {"none", "short"} \cap Tree[h].accepts = {}

\* An answer: its status and the handler whose handle() wrote it.
Answer(status, by) == [status |-> status, by |-> by]
Refuse(status) == Answer(status, Root)

\* std::getline gives no part for what follows a final '/'.
Split(target) == IF Last(target) = "" THEN Front(target) ELSE target

Malformed(target) ==
    \/ Len(target) = 1
    \/ target[1] # ""
    \/ \E i \in DOMAIN target : target[i] = ".."

\* Mutant: a header is enough, the result of authenticate() is not looked at.
AuthorisationUnchecked(h, credentials) ==
    IF Tree[h].requires_auth /\ credentials = "none" THEN "unauthorized" ELSE "ok"

\* The first half of handle(req, path, hand).  substr(6) throws on a header
\* that is shorter.
Authorisation(h, credentials) ==
    IF ~Tree[h].requires_auth \/ credentials \in Tree[h].accepts THEN "ok"
    ELSE IF credentials = "short" THEN "throws"
    ELSE "unauthorized"

\* The handlers of h, of which only the first top are installed at the root.
List(h, top) ==
    IF h = Root THEN SubSeq(Tree[h].children, 1, top) ELSE Tree[h].children

\* The next part that is not empty from part i on, and the first of the
\* handlers that matches it: 0 if there is none.
NextPart(path, i) == SelectInSubSeq(path, i, Len(path), LAMBDA part : part # "")
FirstMatch(handlers, part) == SelectInSeq(handlers, LAMBDA h : part \in Tree[h].matches)

\* handle(req, path, handlers) and handle(req, path, hand), with part i of the
\* path at the front and the handlers of h, where rest[j][g] is what the call
\* for the parts from j on answers with the handlers of g.
HandleAt(path, i, h, credentials, top, rest) ==
    LET j == NextPart(path, i)
        k == FirstMatch(List(h, top), path[j])
        g == List(h, top)[k]
    IN  IF j = 0 \/ k = 0
        THEN Refuse("bad_request")
        ELSE IF Authorisation(g, credentials) # "ok"
        THEN Refuse(Authorisation(g, credentials))
        ELSE IF List(g, top) = <<>> \/ j = Len(path)
        THEN Answer("handled", g)
        ELSE rest[j + 1][g]

\* The first handler that matches is the only one tried.
Dispatch(path, credentials, top) ==
    LET handle[i \in 1..Len(path) + 1] ==
            [h \in Handlers \cup {Root} |->
                HandleAt(path, i, h, credentials, top, handle)]
    IN  handle[1][Root]

\* handle(req) with the first top handlers installed.
Handle(req, top) ==
    IF Malformed(req.target) THEN Refuse("bad_request")
    ELSE IF top = 0 THEN Refuse("service_unavailable")
    ELSE Dispatch(Split(req.target), req.credentials, top)

\* The handlers above h and h itself: all that a set has in it which has h
\* and, of every handler, the one whose child it is.
Upward(S) == \A h \in Handlers : (\E g \in S : g \in ToSet(Tree[h].children)) => h \in S
Above == [h \in Handlers |->
            {g \in Handlers : \A S \in SUBSET Handlers : h \in S /\ Upward(S) => g \in S}]
===============================================================================
