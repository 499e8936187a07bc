------------------------------ MODULE Registry ------------------------------
(***************************************************************************)
(* The register of the bot's handlers (egobot/ircregistry): for each       *)
(* service the list of those that provide it, in order of priority.  An    *)
(* event is handed to the first handler of a service and passed on, port   *)
(* by port, by each handler to the next.                                   *)
(***************************************************************************)
EXTENDS Naturals, Sequences, SequencesExt

NoHandler == "none"

\* registerService: appended, then sorted by priority with a stable sort.
RegisterService(list, port, priority) ==
  SelectSeq(list, LAMBDA e : e.priority <= priority)
    \o << [port |-> port, priority |-> priority] >>
    \o SelectSeq(list, LAMBDA e : e.priority > priority)

\* A handler is its port with the priority of each service it lists.
InstantiateHandler(table, handler) ==
  [s \in DOMAIN table |->
     IF s \in DOMAIN handler.services
     THEN RegisterService(table[s], handler.port, handler.services[s])
     ELSE table[s]]

\* The register after a sequence of handlers was instantiated.
TableOf(services, handlers) ==
  FoldLeft(InstantiateHandler, [s \in services |-> <<>>], handlers)

GetFirstHandler(table, service) ==
  IF table[service] = <<>> THEN NoHandler ELSE table[service][1].port

\* A port that does not provide the service gets its first handler.
GetNextHandler(table, port, service) ==
  LET list == table[service]
      i == SelectInSeq(list, LAMBDA e : e.port = port)
  IN  IF i > 0 /\ i = Len(list) THEN NoHandler ELSE list[i + 1].port
=============================================================================
