------------------------------- MODULE MCMail -------------------------------
(* Small instances of the mail services. *)
EXTENDS Mail, Mime

L(dots, rest) == Line(dots, rest, TRUE)
Bare(dots, rest) == Line(dots, rest, FALSE)
Plain == <<L(0, 1)>>

Base == [ops |-> {}, clients |-> {"c1"}, crashes |-> 0, messages |-> 3, endings |-> {TRUE}, txns |-> 1, sizes |-> {0}, maxBytes |-> 0, maxRecipients |-> 1,
         drafts |-> {Plain}, auth |-> "relaxed", queries |-> {}, page |-> 2, ephemeral |-> FALSE]

\* Message framing: dots, bare line feeds, sizes, half lines, both kinds of client.
Framing ==
    [Base EXCEPT !.messages = 2, !.ops = {"Hangup"}, !.endings = BOOLEAN, !.txns = 2, !.sizes = {0, 20}, !.maxBytes = 12,
                 !.drafts = {<<>>, <<L(1, 0), L(0, 1)>>, <<L(0, 1), Bare(0, 1), L(1, 0)>>, <<Bare(0, 1), L(1, 0), L(2, 1)>>,
                             <<L(0, 0), Bare(1, 0), Bare(1, 0), L(0, 1)>>,
                             <<Bare(1, 0), Bare(0, 1)>>, <<Bare(2, 1)>>}]
\* Transactions in one session, with authentication and resets.
Dialogues ==
    [Base EXCEPT !.ops = {"Auth", "Rset", "Fail", "Hangup"}, !.auth = "strict", !.txns = 3, !.maxRecipients = 2]
\* Two clients, deletions, crashes in the middle of an append.
Storing ==
    [Base EXCEPT !.clients = {"c1", "c2"}, !.crashes = 1, !.ops = {"Delete", "DeleteAll", "Fail"}, !.drafts = {Plain, <<L(1, 0)>>}]
Leaving == [Base EXCEPT !.ops = {"Shutdown"}, !.ephemeral = TRUE, !.clients = {"c1", "c2"}, !.crashes = 1]
\* Lists while messages come and go.
Listing0 ==
    [Base EXCEPT !.ops = {"List", "Read", "DeleteAll", "Delete"}, !.txns = 2, !.drafts = {Plain, <<>>}, !.queries = {<<>>}, !.page = 1]
\* Event streams that keep up, fall behind and reconnect.
Watching == [Base EXCEPT !.ops = {"Subscribe", "DeleteAll"}, !.txns = 3]
\* Nothing but the message structures.
Reading == [Base EXCEPT !.clients = {}]

Leaves == {Leaf("text"), Leaf("html"), Leaf("file")}
Over(nodes) ==
    {Multi(kind, parts, closed) : kind \in {"mixed", "alternative"}, closed \in BOOLEAN,
                                  parts \in {<<>>} \cup {<<a>> : a \in nodes} \cup {<<a, b>> : a \in nodes, b \in nodes}}
MCStructures ==
    LET one == {n \in Over(Leaves) : n.closed \/ n.kind = "mixed"}
        two == Over(Leaves \cup {n \in one : n.closed /\ Len(n.parts) = 2} \cup {Multi("mixed", <<Leaf("text")>>, FALSE)})
    IN Leaves \cup one \cup two \cup {Multi("mixed", <<Leaf("text"), Multi("alternative", <<n, Leaf("text")>>, TRUE)>>, TRUE) : n \in one}
              \cup {[n EXCEPT !.boundary = FALSE] : n \in one}

\* Every structure is read whole, alike and within bounds.
StructuresShown == workload.clients = {} => \A node \in Structures : LeavesShown(node)
StructuresAgree == workload.clients = {} => \A node \in Structures : ReadingsAgree(node)
StructuresBounded == workload.clients = {} => \A node \in Structures : PartsBounded(node)

MCWorkloads == {Framing, Dialogues, Storing, Leaving, Listing0, Watching, Reading}

\* What is shown of the store: streams without gaps, pages with every message once, and the
\* parts of a message, each in one place and within the limits.
ReadersServed == NoGap /\ ListingRight /\ StructuresShown /\ StructuresAgree /\ StructuresBounded
=============================================================================
