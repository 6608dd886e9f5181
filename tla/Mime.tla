-------------------------------- MODULE Mime --------------------------------
(***************************************************************************)
(* How a message's MIME structure is read, three times over: when it is    *)
(* received (mail/src/parser.rs), when the mailbox shows it                *)
(* (mailbox/src/mime.rs) and for clients of MailHog's API                  *)
(* (mailbox/src/mailhog.rs).  A message is a tree; a leaf has a content    *)
(* that is not empty and is known by its path.                             *)
(***************************************************************************)
EXTENDS Integers, FiniteSets, Sequences, SequencesExt

CONSTANTS
    MaxParts,       \* parts looked at (1000 in the code)
    MaxDepth,       \* nesting followed by the mailbox (32; MailHog's 8 and the parser's 64 are taken equal)
    Structures      \* the trees looked at

ASSUME MimeAssumption == {MaxParts, MaxDepth} \subseteq Nat

Leaf(kind) == [kind |-> kind, parts |-> <<>>, closed |-> TRUE, boundary |-> TRUE]
Multi(kind, parts, closed) == [kind |-> kind, parts |-> parts, closed |-> closed, boundary |-> TRUE]
IsMulti(node) == node.kind \in {"mixed", "alternative"}

Lesser(a, b) == IF a < b THEN a ELSE b
Upto(n) == [i \in 1..n |-> i]

Room(count) == count < MaxParts

(***************************************************************************)
(* The mailbox: mime::parse and walk.                                      *)
(***************************************************************************)
Nothing == [count |-> 0, text |-> <<>>, html |-> <<>>, files |-> <<>>, warned |-> FALSE]

\* A multipart too deep is one opaque file; one without a boundary is text.
KindAt(node, depth) ==
    IF ~IsMulti(node) THEN node.kind ELSE IF depth >= MaxDepth THEN "file" ELSE "text"

\* The first branch of an alternative with text is the text; the others are renderings of it.
Suppresses(kind, before, after) == kind = "alternative" /\ before # after

ShowLeaf(mail, kind, path, suppress) ==
    CASE kind = "file" -> [mail EXCEPT !.files = Append(@, path)]
      [] kind = "html" -> [mail EXCEPT !.html = IF @ = <<>> THEN <<path>> ELSE @]
      [] OTHER         -> IF suppress THEN mail ELSE [mail EXCEPT !.text = Append(@, path)]

\* multipart_parts: an unterminated last part is kept; at most as many as the limit leaves.
PartsRead(node, room) == Upto(Lesser(Len(node.parts), room))

RECURSIVE Walk(_, _, _, _)
Walk(node, path, mail, suppress) ==
    IF ~Room(mail.count) THEN [mail EXCEPT !.warned = TRUE]
    ELSE LET here == [mail EXCEPT !.count = @ + 1] IN
         IF ~(IsMulti(node) /\ Len(path) < MaxDepth /\ node.boundary)
         THEN ShowLeaf(here, KindAt(node, Len(path)), path, suppress)
         ELSE LET Step(acc, i) ==
                      LET next == Walk(node.parts[i], Append(path, i), acc.mail, acc.suppress) IN
                      [mail |-> next,
                       suppress |-> acc.suppress \/ Suppresses(node.kind, acc.mail.text, next.text)]
                  parts == PartsRead(node, MaxParts - here.count)
                  done == FoldLeft(Step, [mail |-> here, suppress |-> suppress], parts).mail
              IN [done EXCEPT !.warned = @ \/ ~node.closed \/ Len(parts) < Len(node.parts)]
Parse(node) == Walk(node, <<>>, Nothing, FALSE)

(***************************************************************************)
(* Receiving: parse_message keeps the first text and the first HTML.  A    *)
(* part that no delimiter ends is not looked at.                           *)
(***************************************************************************)
FirstOnly(found, kind, path) ==
    CASE kind = "html" /\ found.html = <<>> -> [found EXCEPT !.html = <<path>>]
      [] kind = "text" /\ found.text = <<>> -> [found EXCEPT !.text = <<path>>]
      [] OTHER -> found

RECURSIVE FillPart(_, _, _)
FillPart(node, path, found) ==
    IF Len(path) > MaxDepth THEN [found EXCEPT !.failed = TRUE]
    ELSE IF ~IsMulti(node) THEN FirstOnly(found, node.kind, path)
    ELSE IF ~node.boundary THEN found
    ELSE FoldLeft(LAMBDA acc, i : FillPart(node.parts[i], Append(path, i), acc), found,
                  Upto(IF node.closed \/ node.parts = <<>> THEN Len(node.parts) ELSE Len(node.parts) - 1))

\* fill_message_body: a message of one part is text unless it is HTML.
ParseMessage(node) ==
    LET nothing == [text |-> <<>>, html |-> <<>>, failed |-> FALSE] IN
    IF IsMulti(node) THEN FillPart(node, <<>>, nothing)
    ELSE FirstOnly(nothing, IF node.kind = "html" THEN "html" ELSE "text", <<>>)

(***************************************************************************)
(* MailHog's shape: every chunk between delimiters is a part, what follows *)
(* the closing one included.                                               *)
(***************************************************************************)
RECURSIVE Content(_, _, _)
Content(node, depth, count) ==
    IF ~(IsMulti(node) /\ node.boundary /\ depth < MaxDepth /\ Room(count + 1)) THEN count + 1
    ELSE LET chunks == node.parts \o (IF node.closed THEN <<Leaf("text")>> ELSE <<>>) IN
         FoldLeft(LAMBDA n, part : IF ~Room(n) THEN n ELSE Content(part, depth + 1, n), count + 1, chunks)

(***************************************************************************)
(* What the readings promise.                                              *)
(***************************************************************************)
RECURSIVE LeavesIn(_, _)
LeavesIn(node, path) ==
    IF ~IsMulti(node) THEN {[path |-> path, kind |-> node.kind]}
    ELSE UNION {LeavesIn(node.parts[i], Append(path, i)) : i \in 1..Len(node.parts)}
RECURSIVE Nodes(_)
Nodes(node) == 1 + FoldLeft(LAMBDA n, part : n + Nodes(part), 0, node.parts)
RECURSIVE Depth(_)
Depth(node) == IF node.parts = <<>> THEN 0
               ELSE 1 + (CHOOSE d \in {Depth(p) : p \in Range(node.parts)} : \A p \in Range(node.parts) : Depth(p) <= d)
RECURSIVE NodeAt(_, _)
NodeAt(node, path) == IF path = <<>> THEN node ELSE NodeAt(node.parts[Head(path)], Tail(path))
RECURSIVE AllClosed(_)
AllClosed(node) == node.closed /\ \A p \in Range(node.parts) : AllClosed(p)

RECURSIVE WellFormed(_)
WellFormed(node) == IsMulti(node) => node.boundary /\ node.parts # <<>> /\ \A p \in Range(node.parts) : WellFormed(p)

Fits(node) == Nodes(node) <= MaxParts /\ Depth(node) <= MaxDepth /\ WellFormed(node)
\* Another rendering of an earlier text: under an alternative, after a branch that has text.
Rendering(node, path) ==
    \E n \in 0..Len(path) - 1 :
        LET over == NodeAt(node, SubSeq(path, 1, n)) IN
        over.kind = "alternative"
          /\ \E i \in 1..path[n + 1] - 1 : \E leaf \in LeavesIn(over.parts[i], <<>>) : leaf.kind = "text"

\* Within the limits nothing of a message is lost: every file is an attachment, every text is shown
\* once unless it is another rendering of one that is (mime.rs walk).
LeavesShown(node) ==
    Fits(node) =>
        LET mail == Parse(node)
            Of(kind) == {leaf.path : leaf \in {l \in LeavesIn(node, <<>>) : l.kind = kind}}
        IN /\ Range(mail.files) = Of("file") /\ Len(mail.files) = Cardinality(Of("file"))
           /\ Range(mail.text) = {p \in Of("text") : ~Rendering(node, p)}
           /\ Len(mail.text) = Cardinality(Range(mail.text))
           /\ (mail.html = <<>>) = (Of("html") = {})

\* The search preview made on receipt and the mailbox's view begin with the same text and show the
\* same HTML (parser.rs fill_message_body_part, mime.rs walk).
ReadingsAgree(node) ==
    Fits(node) /\ AllClosed(node) /\ IsMulti(node) =>
        LET mail == Parse(node)  first == ParseMessage(node) IN
        /\ first.text = IF mail.text = <<>> THEN <<>> ELSE <<mail.text[1]>>
        /\ first.html = mail.html

\* No message makes a reading look at more than MaxParts parts, and one cut short says so.
PartsBounded(node) ==
    /\ Parse(node).count <= MaxParts
    /\ Content(node, 0, 0) <= MaxParts
    /\ Nodes(node) > MaxParts /\ Depth(node) <= MaxDepth /\ WellFormed(node) => Parse(node).warned
=============================================================================
