--------------------------- MODULE ParameterStore ---------------------------
(***************************************************************************)
(* What the SSM service promises a client: parameters that exist or not;   *)
(* each put of a name makes its next version, keeps the type and the       *)
(* description it does not mention, and replaces the value; each deletion  *)
(* removes one name.  Nothing else ever happens to a parameter.            *)
(***************************************************************************)
EXTENDS Naturals

CONSTANTS Names, Puts
VARIABLE contents       \* the parameters there are

Exists(n) == n \in DOMAIN contents

NextVersion(old, new, req) ==
    /\ new.version = old.version + 1
    /\ new.value = req.value
    /\ new.kind = (IF req.kind = "" THEN old.kind ELSE req.kind)
    /\ new.description = (IF req.description = "" THEN old.description ELSE req.description)
FirstVersion(new, req) ==
    new.version = 1 /\ new.value = req.value /\ new.kind = req.kind /\ new.description = req.description

OthersKept(n) == \A m \in Names \ {n} : /\ Exists(m) <=> m \in DOMAIN contents'
                                        /\ Exists(m) => contents'[m] = contents[m]

PutOne(req) ==
    /\ req.name \in DOMAIN contents'
    /\ OthersKept(req.name)
    /\ IF Exists(req.name) THEN req.overwrite /\ NextVersion(contents[req.name], contents'[req.name], req)
       ELSE FirstVersion(contents'[req.name], req)
DeleteOne(n) == Exists(n) /\ n \notin DOMAIN contents' /\ OthersKept(n)

Init == contents = <<>>
Next == (\E req \in Puts : PutOne(req)) \/ (\E n \in Names : DeleteOne(n))
Spec == Init /\ [][Next]_contents
=============================================================================
