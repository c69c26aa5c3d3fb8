-------------------------------- MODULE MCWeb --------------------------------
(* The HTTP client, the web edge, pagination and the JSON:API documents    *)
(* share one run: a bench names the part that moves, the others stay in a  *)
(* single initial state.                                                   *)
EXTENDS HttpClient, WebEdge, CursorPages, Documents

CONSTANTS Benches, get, post

VARIABLE bench

benchVars == <<bench, vars, edgeVars, pagesVars, documentsVars>>

(* Two requests at a time, one of a method that is retried and one of a    *)
(* method that is not; lifetimes short and long against the buffer.        *)
MCTasks == {get, post}
MCIdempotent == {get}
MCLifetimes == {3, 5}

(* The application maps two exception classes to a status. *)
MCMapped == {<<"Forbidden", 403>>, <<"ExpiredCursorError", 410>>}

MCInit ==
  /\ bench \in Benches
  /\ Init
  /\ EdgeInit
  /\ \/ bench = "edge"
     \/ /\ style = "middleware" /\ pool = {}
        /\ \A r \in Requests : req[r] = Fresh(CHOOSE t \in BearerTokens : TRUE)
  /\ PagesInit /\ (bench = "pages" \/ docs = {})
  /\ DocumentsInit

MCNext ==
  /\ UNCHANGED bench
  /\ \/ bench = "http" /\ Next /\ UNCHANGED <<edgeVars, pagesVars, documentsVars>>
     \/ bench = "edge" /\ EdgeNext /\ UNCHANGED <<vars, pagesVars, documentsVars>>
     \/ bench = "pages" /\ PagesNext /\ UNCHANGED <<vars, edgeVars, documentsVars>>
     \/ bench = "documents" /\ DocumentsNext /\ UNCHANGED <<vars, edgeVars, pagesVars>>

MCSpec == MCInit /\ [][MCNext]_benchVars

(* The type invariants of the benches (client/, web/, jsonapi/). *)
WebTypeOK == TypeOK /\ EdgeTypeOK /\ PagesTypeOK /\ DocumentsTypeOK
===============================================================================
