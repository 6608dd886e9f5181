----------------------------- MODULE SsmProofs -----------------------------
(***************************************************************************)
(* Proofs about the parameter store: what clients were told is kept, a     *)
(* version is one value, secrets stay hidden, paging is complete, and the  *)
(* service implements ParameterStore.                                      *)
(***************************************************************************)
EXTENDS Ssm, FiniteSetTheorems, WellFoundedInduction, TLAPS

IsParameter(p) ==
    /\ p.kind \in Kinds
    /\ p.version \in 1..MaxVersion
    /\ p.value.size \in 1..Limit(p.tier)
    /\ p.keyId # "" <=> p.kind = "SecureString"

IsStore(f) ==
    /\ f = [n \in DOMAIN f |-> f[n]]
    /\ DOMAIN f \subseteq Names
    /\ IsFiniteSet(DOMAIN f)
    /\ \A n \in DOMAIN f : IsParameter(f[n])

\* Memory and disk are what clients were told, whenever there is a process.
StoreInv ==
    /\ up \in BOOLEAN
    /\ IsStore(told)
    /\ disk = told
    /\ params = IF up THEN told ELSE <<>>

\* What reads showed of a name that lives is about versions up to its current one.
SeenInv ==
    /\ seen = [n \in Names |-> seen[n]]
    /\ \A n \in Names : \A r \in seen[n] :
          /\ n \in DOMAIN told
          /\ r.version \in 1..told[n].version
          /\ r.version = told[n].version => r.shown.of = told[n].value.text
    /\ VersionIsOneValue

\* The client and the store agree on which parameters are secret.
SecretInv ==
    /\ secretly \in [Names -> BOOLEAN]
    /\ \A n \in DOMAIN told : secretly[n] <=> told[n].kind = "SecureString"
    /\ SecretsHidden

Listing == [state : {"listing", "done"}, stable : SUBSET Names, pages : Seq(SUBSET Names), token : Nat]
Listed(pages) == UNION {pages[i] : i \in DOMAIN pages}
Ascending(pages) ==
    \A i, j \in DOMAIN pages : i < j => \A m \in pages[i], n \in pages[j] : m < n

\* Up to the token everything stable has been listed, and nothing beyond it.
PagerInv ==
    \/ pager = Idle
    \/ /\ pager \in Listing
       /\ Ascending(pager.pages)
       /\ pager.state = "done" => pager.stable \subseteq Listed(pager.pages)
       /\ pager.state = "listing" =>
             /\ pager.stable \subseteq DOMAIN told
             /\ \A m \in Listed(pager.pages) : m <= pager.token
             /\ \A m \in pager.stable : m <= pager.token => m \in Listed(pager.pages)

Inv == StoreInv /\ SeenInv /\ SecretInv /\ PagerInv
-----------------------------------------------------------------------------
(* The store's operators. *)

\* A put of a well-formed parameter leaves a well-formed store.
LEMMA PutIsStore ==
  ASSUME NEW f, IsStore(f), NEW n \in Names, NEW v, IsParameter(v)
  PROVE  IsStore(Put(f, n, v))
<1>1. IsFiniteSet(DOMAIN f \cup {n})
  BY FS_AddElement DEF IsStore
<1> QED
  BY <1>1 DEF IsStore, Put

\* So does a deletion.
LEMMA WithoutIsStore ==
  ASSUME NEW f, IsStore(f), NEW n
  PROVE  IsStore(Without(f, n))
<1>1. IsFiniteSet(DOMAIN f \ {n})
  BY FS_Subset DEF IsStore
<1> QED
  BY <1>1 DEF IsStore, Without

\* No parameter is taken for the absence of one.
LEMMA ParametersAreSome ==
  ASSUME NEW p, IsParameter(p)
  PROVE  p # None
<1>1. p.kind \in Kinds
  BY DEF IsParameter
<1>2. None.kind \notin Kinds
  BY DEF None, Kinds
<1> QED
  BY <1>1, <1>2

\* What a failed save puts back is the store as it was.
LEMMA PutUndone ==
  ASSUME NEW f, IsStore(f), NEW n, NEW v,
         NEW previous, previous = IF n \in DOMAIN f THEN f[n] ELSE None
  PROVE  PutBack(n, previous, Put(f, n, v)) = f
<1>1. CASE n \in DOMAIN f
  <2>1. previous = f[n] /\ previous # None
    BY <1>1, ParametersAreSome DEF IsStore
  <2> QED
    BY <1>1, <2>1 DEF PutBack, Put, IsStore
<1>2. CASE n \notin DOMAIN f
  BY <1>2 DEF PutBack, Put, Without, IsStore
<1> QED
  BY <1>1, <1>2

LEMMA DeleteUndone ==
  ASSUME NEW f, IsStore(f), NEW n \in DOMAIN f
  PROVE  PutBack(n, f[n], Without(f, n)) = f
<1>1. f[n] # None
  BY ParametersAreSome DEF IsStore
<1> QED
  BY <1>1 DEF PutBack, Put, Without, IsStore

-----------------------------------------------------------------------------
(* Pages. *)

\* A finite set of numbers that is not empty has a least element ...
LEMMA LeastExists ==
  ASSUME NEW S \in SUBSET Nat, S # {}
  PROVE  \E x \in S : \A y \in S : x <= y
<1>1. PICK x \in S : \A y \in S : ~(<<y, x>> \in OpToRel(<, Nat))
  BY WFMin, NatLessThanWellFounded
<1>2. \A y \in S : ~(y < x)
  BY <1>1 DEF OpToRel
<1> QED
  BY <1>2

\* ... and a greatest one, which Max chooses.
LEMMA MaxIsGreatest ==
  ASSUME NEW S \in SUBSET Nat, IsFiniteSet(S), S # {}
  PROVE  Max(S) \in S /\ \A y \in S : y <= Max(S)
<1> DEFINE Above(x) == {y \in S : y > x}
           Counts == {Cardinality(Above(x)) : x \in S}
<1>0. \A x \in S : x \in Nat
  OBVIOUS
<1>1. \A x \in S : IsFiniteSet(Above(x)) /\ Cardinality(Above(x)) \in Nat
  BY FS_Subset, FS_CardinalityType
<1>2. PICK x \in S : \A z \in S : Cardinality(Above(x)) <= Cardinality(Above(z))
  <2>1. Counts \in SUBSET Nat /\ Counts # {}
    BY <1>1
  <2>2. PICK c \in Counts : \A d \in Counts : c <= d
    BY <2>1, LeastExists
  <2> QED
    BY <2>2
<1>3. \A y \in S : y <= x
  <2> SUFFICES ASSUME NEW y \in S, y > x PROVE FALSE
    BY <1>0
  <2>1. ~(y > y) /\ \A z \in S : z > y => z > x
    BY <1>0
  <2>2. Above(y) \subseteq Above(x) /\ y \in Above(x) /\ y \notin Above(y)
    BY <2>1, Zenon
  <2>3. /\ Cardinality(Above(y)) <= Cardinality(Above(x))
        /\ Cardinality(Above(x)) # Cardinality(Above(y))
    BY <1>1, <2>2, FS_Subset, Zenon
  <2> HIDE DEF Above
  <2> QED
    BY <1>1, <1>2, <2>3
<1>4. \E z \in S : \A y \in S : z >= y
  BY <1>3
<1> QED
  BY <1>4 DEF Max

\* A page holds, with a name, every one that comes before it; it is all that
\* is left when that fits, and it is never empty when something is left.
LEMMA PageIsFirst ==
  ASSUME NEW S \in SUBSET Nat, IsFiniteSet(S), NEW size \in Nat \ {0}
  PROVE  /\ FirstOf(S, size) \subseteq S
         /\ \A x \in FirstOf(S, size), y \in S : y <= x => y \in FirstOf(S, size)
         /\ Cardinality(S) <= size => FirstOf(S, size) = S
         /\ S # {} => FirstOf(S, size) # {}
<1> DEFINE Upto(x) == {y \in S : y <= x}
<1>0. \A x \in S : x \in Nat
  OBVIOUS
<1>1. \A x \in S : /\ IsFiniteSet(Upto(x)) /\ Cardinality(Upto(x)) \in Nat
                  /\ Cardinality(Upto(x)) <= Cardinality(S)
  BY FS_Subset, FS_CardinalityType
<1>2. FirstOf(S, size) = {x \in S : Cardinality(Upto(x)) <= size}
  BY DEF FirstOf
<1>3. ASSUME NEW x \in FirstOf(S, size), NEW y \in S, y <= x
      PROVE  y \in FirstOf(S, size)
  <2>1. x \in S /\ Cardinality(Upto(x)) <= size
    BY <1>2
  <2>2. \A z \in S : z <= y => z <= x
    BY <1>0, <1>3, <2>1
  <2>3. Upto(y) \subseteq Upto(x)
    BY <2>2, Zenon
  <2>4. Cardinality(Upto(y)) <= Cardinality(Upto(x))
    BY <1>1, <2>1, <2>3, FS_Subset, Zenon
  <2> HIDE DEF Upto
  <2>5. Cardinality(Upto(y)) <= size
    BY <1>1, <2>1, <2>4
  <2> QED
    BY <1>2, <2>5, Zenon
<1>4. Cardinality(S) \in Nat
  BY FS_CardinalityType
<1>5. ASSUME Cardinality(S) <= size PROVE FirstOf(S, size) = S
  <2> HIDE DEF Upto
  <2>1. \A x \in S : Cardinality(Upto(x)) <= size
    BY <1>1, <1>4, <1>5
  <2> QED
    BY <1>2, <2>1, Zenon
<1>6. ASSUME S # {} PROVE FirstOf(S, size) # {}
  <2>1. PICK x \in S : \A y \in S : x <= y
    BY <1>6, LeastExists
  <2>2. x <= x /\ \A y \in S : y <= x => y = x
    BY <1>0, <2>1
  <2> Upto(x) = {x}
    BY <2>2, Zenon
  <2>3. Cardinality(Upto(x)) = 1
    BY FS_Singleton
  <2> QED
    BY <1>2, <2>3
<1> QED
  BY <1>2, <1>3, <1>5, <1>6

-----------------------------------------------------------------------------
(* Each operation keeps the invariant. *)

LEMMA BoundsAreNumbers ==
  /\ MaxVersion \in Nat /\ MaxPage \in Nat
  /\ \A tier : Limit(tier) \in Nat
  /\ \A req \in Puts : req.value.size \in Nat
BY SsmAssumption DEF Limit

LEMMA InitInv == Init => Inv
<1> SUFFICES ASSUME Init PROVE Inv
  OBVIOUS
<1>1. IsFiniteSet({}) /\ DOMAIN told = {}
  BY FS_EmptySet DEF Init
<1>2. StoreInv
  BY <1>1 DEF Init, StoreInv, IsStore
<1>3. SeenInv /\ SecretInv /\ PagerInv
  BY <1>1 DEF Init, SeenInv, VersionIsOneValue, SecretInv, SecretsHidden, PagerInv
<1> QED
  BY <1>2, <1>3 DEF Inv

\* The parameter a put stores: well-formed, one version further, secret if the
\* request says so or, when it says nothing, if it was.
LEMMA PutStores ==
  ASSUME Inv, up = TRUE, NEW req \in Puts, ValidPut(req), Allowed(req), VersionAfter(req.name) <= MaxVersion
  PROVE  /\ req.name \in Names
         /\ IsParameter(Parameter(req))
         /\ Parameter(req).value = req.value
         /\ IF req.name \in DOMAIN told
            THEN /\ Parameter(req).version = told[req.name].version + 1
                 /\ Parameter(req).kind = IF req.kind = "" THEN told[req.name].kind ELSE req.kind
            ELSE /\ Parameter(req).version = 1
                 /\ Parameter(req).kind = req.kind
                 /\ req.kind # ""
<1>1. params = told /\ IsStore(told)
  BY DEF Inv, StoreInv
<1>2. req.name \in Names /\ req.kind \in Kinds \cup {""}
  BY DEF ValidPut, ValidName
<1>3. Parameter(req).value = req.value /\ Parameter(req).version = VersionAfter(req.name)
      /\ Parameter(req).kind = KindAfter(req) /\ Parameter(req).tier = TierOf(req.tier)
  BY DEF Parameter
<1>4. Parameter(req).keyId # "" <=> KindAfter(req) = "SecureString"
  BY DEF Parameter
<1>5. req.value.size \in 1..Limit(TierOf(req.tier))
  <2>1. req.value.size > 0 /\ req.value.size <= Limit(TierOf(req.tier))
    BY DEF ValidPut
  <2> QED
    BY <2>1, BoundsAreNumbers
<1>6. CASE req.name \in DOMAIN told
  <2>1. Previous(req.name) = told[req.name] /\ IsParameter(told[req.name])
    BY <1>1, <1>6 DEF Previous, IsStore
  <2>0. told[req.name].version \in 1..MaxVersion
    BY <2>1 DEF IsParameter
  <2>2. Previous(req.name) # None
    BY <2>1, ParametersAreSome
  <2>3. VersionAfter(req.name) = told[req.name].version + 1
    BY <2>1, <2>2 DEF VersionAfter
  <2>4. VersionAfter(req.name) \in 1..MaxVersion
    BY <2>0, <2>3, BoundsAreNumbers
  <2>5. KindAfter(req) = (IF req.kind = "" THEN told[req.name].kind ELSE req.kind) /\ KindAfter(req) \in Kinds
    BY <1>2, <2>1 DEF KindAfter, IsParameter
  <2> QED
    BY <1>2, <1>3, <1>4, <1>5, <1>6, <2>3, <2>4, <2>5 DEF IsParameter
<1>7. CASE req.name \notin DOMAIN told
  <2>1. Previous(req.name) = None
    BY <1>1, <1>7 DEF Previous
  <2>2. req.kind # "" /\ KindAfter(req) = req.kind
    BY <2>1 DEF Allowed, KindAfter
  <2>3. VersionAfter(req.name) = 1
    BY <2>1 DEF VersionAfter
  <2>4. 1 \in 1..MaxVersion
    BY <2>3, BoundsAreNumbers
  <2> QED
    BY <1>2, <1>3, <1>4, <1>5, <1>7, <2>2, <2>3, <2>4 DEF IsParameter
<1> QED
  BY <1>6, <1>7

\* A put that was saved, whether or not the process lived to answer it.
LEMMA SavedPut ==
  ASSUME Inv, up = TRUE, NEW req \in Puts, ValidPut(req), Allowed(req),
         VersionAfter(req.name) <= MaxVersion,
         told' = Put(params, req.name, Parameter(req)), secretly' = Meant(req), UNCHANGED <<seen, pager>>
  PROVE  IsStore(told') /\ SeenInv' /\ SecretInv' /\ PagerInv'
<1> DEFINE name == req.name
           new == Parameter(req)
<1>1. params = told /\ IsStore(told) /\ name \in Names /\ IsParameter(new)
  BY PutStores DEF Inv, StoreInv
<1>2. told' = Put(told, name, new) /\ IsStore(told')
  BY <1>1, PutIsStore
<1>3. DOMAIN told' = DOMAIN told \cup {name}
      /\ \A n \in DOMAIN told' : told'[n] = IF n = name THEN new ELSE told[n]
  BY <1>2 DEF Put
<1>4. name \in DOMAIN told => new.version = told[name].version + 1 /\ told[name].version \in Nat
  <2> SUFFICES ASSUME name \in DOMAIN told
               PROVE  new.version = told[name].version + 1 /\ told[name].version \in Nat
    OBVIOUS
  <2>1. new.version = told[name].version + 1
    BY PutStores
  <2>2. told[name].version \in 1..MaxVersion
    BY <1>1 DEF IsStore, IsParameter
  <2> QED
    BY <2>1, <2>2
<1> HIDE DEF new, name
<1>5. SeenInv'
  <2>1. seen' = [n \in Names |-> seen'[n]] /\ VersionIsOneValue'
    BY DEF Inv, SeenInv, VersionIsOneValue
  <2>2. ASSUME NEW n \in Names, NEW r \in seen[n]
        PROVE  /\ n \in DOMAIN told'
               /\ r.version \in 1..told'[n].version
               /\ r.version = told'[n].version => r.shown.of = told'[n].value.text
    <3>1. /\ n \in DOMAIN told
          /\ r.version \in 1..told[n].version
          /\ r.version = told[n].version => r.shown.of = told[n].value.text
      BY <2>2 DEF Inv, SeenInv
    <3>2. CASE n = name
      <4>1. told'[n].version = told[n].version + 1 /\ told[n].version \in Nat /\ n \in DOMAIN told'
        BY <1>3, <1>4, <3>1, <3>2
      <4>2. r.version \in 1..told'[n].version /\ r.version # told'[n].version
        BY <3>1, <4>1
      <4> QED
        BY <4>1, <4>2
    <3>3. CASE n # name
      BY <1>3, <3>1, <3>3
    <3> QED
      BY <3>2, <3>3
  <2> QED
    BY <2>1, <2>2 DEF SeenInv
<1>6. SecretInv'
  <2>1. secretly \in [Names -> BOOLEAN] /\ \A n \in DOMAIN told : secretly[n] <=> told[n].kind = "SecureString"
    BY DEF Inv, SecretInv
  <2>2. secretly' \in [Names -> BOOLEAN]
    BY <2>1 DEF Meant
  <2>3. SecretsHidden'
    BY DEF Inv, SecretInv, SecretsHidden
  <2>4. ASSUME NEW n \in DOMAIN told' PROVE secretly'[n] <=> told'[n].kind = "SecureString"
    <3>1. CASE n # name
      <4>1. n \in DOMAIN told /\ told'[n] = told[n] /\ n \in Names
        BY <1>1, <1>3, <2>4, <3>1 DEF IsStore
      <4>2. secretly'[n] = secretly[n]
        BY <2>1, <3>1, <4>1 DEF Meant, name
      <4> QED
        BY <2>1, <4>1, <4>2
    <3>2. CASE n = name /\ req.kind = ""
      <4>1. n \in DOMAIN told /\ new.kind = told[n].kind
        BY <3>2, PutStores DEF name, new
      <4> QED
        BY <1>3, <2>1, <2>4, <3>2, <4>1 DEF Meant
    <3>3. CASE n = name /\ req.kind # ""
      <4>1. new.kind = req.kind
        BY <3>3, PutStores DEF name, new
      <4>2. secretly'[n] = (req.kind = "SecureString")
        BY <1>1, <2>1, <3>3 DEF Meant, name
      <4> QED
        BY <1>3, <2>4, <3>3, <4>1, <4>2
    <3> QED
      BY <3>1, <3>2, <3>3
  <2> QED
    BY <2>2, <2>3, <2>4 DEF SecretInv
<1>7. PagerInv'
  <2>1. DOMAIN told \subseteq DOMAIN told'
    BY <1>3
  <2> QED
    BY <2>1 DEF Inv, PagerInv, Ascending, Listed, Listing
<1> QED
  BY <1>2, <1>5, <1>6, <1>7

\* A deletion that was saved, whether or not the process lived to answer it.
LEMMA SavedDelete ==
  ASSUME Inv, up = TRUE, NEW name \in Names,
         told' = Without(params, name), seen' = [seen EXCEPT ![name] = {}],
         pager' = IF pager.state = "listing" THEN [pager EXCEPT !.stable = @ \ {name}] ELSE pager,
         UNCHANGED secretly
  PROVE  IsStore(told') /\ SeenInv' /\ SecretInv' /\ PagerInv'
<1>1. params = told /\ IsStore(told)
  BY DEF Inv, StoreInv
<1>2. told' = Without(told, name) /\ IsStore(told')
  BY <1>1, WithoutIsStore
<1>3. DOMAIN told' = DOMAIN told \ {name} /\ \A n \in DOMAIN told' : told'[n] = told[n]
  BY <1>2 DEF Without
<1>4. seen' = [n \in Names |-> seen'[n]] /\ \A n \in Names : seen'[n] = IF n = name THEN {} ELSE seen[n]
  BY DEF Inv, SeenInv
<1>5. SeenInv'
  <2>1. VersionIsOneValue'
    BY <1>4 DEF Inv, SeenInv, VersionIsOneValue
  <2> QED
    BY <1>3, <1>4, <2>1 DEF Inv, SeenInv
<1>6. SecretInv'
  BY <1>3, <1>4 DEF Inv, SecretInv, SecretsHidden
<1>7. PagerInv'
  <2>1. CASE pager = Idle
    BY <2>1 DEF Idle, PagerInv
  <2>2. CASE pager \in Listing /\ pager.state = "done"
    BY <2>2 DEF Inv, PagerInv, Idle, Ascending, Listed
  <2>3. CASE pager \in Listing /\ pager.state = "listing"
    <3>1. pager' \in Listing /\ pager'.state = "listing" /\ pager'.pages = pager.pages
          /\ pager'.token = pager.token /\ pager'.stable = pager.stable \ {name}
      BY <2>3 DEF Listing
    <3>2. /\ pager.stable \subseteq DOMAIN told
          /\ \A m \in Listed(pager.pages) : m <= pager.token
          /\ \A m \in pager.stable : m <= pager.token => m \in Listed(pager.pages)
          /\ Ascending(pager.pages)
      BY <2>3 DEF Inv, PagerInv, Idle
    <3>3. pager'.stable \subseteq DOMAIN told'
      BY <1>3, <3>1, <3>2
    <3> QED
      BY <3>1, <3>2, <3>3 DEF PagerInv
  <2> QED
    BY <2>1, <2>2, <2>3 DEF Inv, PagerInv, Listing
<1> QED
  BY <1>2, <1>5, <1>6, <1>7

\* A read shows the current version, in clear only when that was asked for or
\* the parameter is no secret.
LEMMA GetKeeps ==
  ASSUME Inv, NEW name \in Names, NEW selector, NEW decryption \in BOOLEAN,
         GetParameter(name, selector, decryption)
  PROVE  Inv'
<1> DEFINE p == params[name]
           r == [version |-> p.version, shown |-> Shown(p, decryption), hidden |-> secretly[name] /\ ~decryption]
<1>1. /\ up /\ name \in DOMAIN params
      /\ seen' = [seen EXCEPT ![name] = @ \cup {r}]
      /\ UNCHANGED <<params, disk, up, told, secretly, pager, faults>>
  BY DEF GetParameter
<1>2. params = told /\ IsStore(told)
  BY <1>1 DEF Inv, StoreInv
<1>3. p.version \in 1..MaxVersion
  BY <1>1, <1>2 DEF IsStore, IsParameter
<1>4. r.version = p.version /\ r.shown.of = p.value.text
      /\ (r.hidden => p.kind = "SecureString" /\ r.shown.text = "digest")
  BY <1>1, <1>2 DEF Inv, SecretInv, Shown
<1>5. seen' = [n \in Names |-> seen'[n]]
      /\ \A n \in Names : seen'[n] = IF n = name THEN seen[n] \cup {r} ELSE seen[n]
  BY <1>1 DEF Inv, SeenInv
<1> HIDE DEF r
<1>6. \A n \in Names : \A s \in seen'[n] :
          /\ n \in DOMAIN told
          /\ s.version \in 1..told[n].version
          /\ s.version = told[n].version => s.shown.of = told[n].value.text
  <2> SUFFICES ASSUME NEW n \in Names, NEW s \in seen'[n]
               PROVE  /\ n \in DOMAIN told
                      /\ s.version \in 1..told[n].version
                      /\ s.version = told[n].version => s.shown.of = told[n].value.text
    OBVIOUS
  <2>1. CASE s \in seen[n]
    BY <2>1 DEF Inv, SeenInv
  <2>2. CASE n = name /\ s = r
    BY <1>1, <1>2, <1>3, <1>4, <2>2
  <2> QED
    BY <1>5, <2>1, <2>2
<1>7. VersionIsOneValue'
  <2> SUFFICES ASSUME NEW n \in Names, NEW a \in seen'[n], NEW b \in seen'[n], a.version = b.version
               PROVE  a.shown.of = b.shown.of
    BY DEF VersionIsOneValue
  <2>1. CASE a \in seen[n] /\ b \in seen[n]
    BY <2>1 DEF Inv, SeenInv, VersionIsOneValue
  <2>2. CASE n = name /\ (a = r \/ b = r)
    <3>1. a.version = told[n].version /\ b.version = told[n].version
      BY <1>2, <1>4, <2>2
    <3> QED
      BY <1>6, <3>1
  <2> QED
    BY <1>5, <2>1, <2>2
<1>8. SeenInv'
  BY <1>1, <1>5, <1>6, <1>7 DEF SeenInv
<1>9. SecretInv'
  BY <1>1, <1>4, <1>5 DEF Inv, SecretInv, SecretsHidden
<1>10. StoreInv' /\ PagerInv'
  BY <1>1 DEF Inv, StoreInv, PagerInv
<1> QED
  BY <1>8, <1>9, <1>10 DEF Inv

\* A page goes on after the token and leaves nothing out up to the next one.
LEMMA DescribeKeeps ==
  ASSUME Inv, NEW size \in 1..MaxPage, DescribeParameters(size)
  PROVE  Inv'
<1> DEFINE token == IF pager.state = "idle" THEN 0 ELSE pager.token
           stable == IF pager.state = "idle" THEN DOMAIN params ELSE pager.stable
           pages == IF pager.state = "idle" THEN <<>> ELSE pager.pages
           left == Following(token)
           listed == FirstOf(left, size)
           more == Cardinality(left) > size
<1>1. /\ up /\ pager.state \in {"idle", "listing"}
      /\ pager' = [state |-> IF more THEN "listing" ELSE "done", stable |-> stable,
                   pages |-> Append(pages, listed), token |-> IF more THEN Max(listed) ELSE 0]
      /\ UNCHANGED <<params, disk, up, told, secretly, seen, faults>>
  BY DEF DescribeParameters
<1>2. params = told /\ IsStore(told)
  BY <1>1 DEF Inv, StoreInv
<1>3. /\ token \in Nat /\ stable \in SUBSET Names /\ pages \in Seq(SUBSET Names) /\ Ascending(pages)
      /\ stable \subseteq DOMAIN told
      /\ \A m \in Listed(pages) : m <= token
      /\ \A m \in stable : m <= token => m \in Listed(pages)
  <2>1. CASE pager = Idle
    <3>1. pager.state = "idle" /\ token = 0 /\ stable = DOMAIN told /\ pages = <<>>
      BY <1>2, <2>1 DEF Idle
    <3>2. DOMAIN pages = {} /\ Listed(pages) = {} /\ Ascending(pages) /\ pages \in Seq(SUBSET Names)
      BY <3>1 DEF Listed, Ascending
    <3>3. \A m \in stable : ~(m <= token)
      BY <1>2, <3>1, SsmAssumption DEF IsStore
    <3> QED
      BY <1>2, <3>1, <3>2, <3>3 DEF IsStore
  <2>2. CASE pager \in Listing
    <3>1. pager.state = "listing" /\ token = pager.token /\ stable = pager.stable /\ pages = pager.pages
      BY <1>1, <2>2 DEF Listing
    <3> QED
      BY <2>2, <3>1 DEF Inv, PagerInv, Listing, Idle
  <2> QED
    BY <2>1, <2>2 DEF Inv, PagerInv
<1> HIDE DEF token, stable, pages
<1>3a. \A m \in Listed(pages) : m \in Nat
  <2>1. \A i \in DOMAIN pages : pages[i] \in SUBSET Names
    BY <1>3
  <2> QED
    BY <2>1, SsmAssumption DEF Listed
<1>4. /\ left \in SUBSET Nat /\ IsFiniteSet(left) /\ left \subseteq Names
      /\ \A m \in left : m > token
      /\ \A m \in DOMAIN told : m \in Nat /\ (m <= token \/ m \in left)
  <2>1. left \in SUBSET DOMAIN told /\ DOMAIN told \subseteq Names /\ DOMAIN told \in SUBSET Nat
    BY <1>2, SsmAssumption DEF Following, IsStore
  <2>2. IsFiniteSet(left)
    BY <1>2, <2>1, FS_Subset DEF IsStore
  <2>3. \A m \in DOMAIN told : m > token => m \in left
    BY <1>2 DEF Following
  <2>4. \A m \in left : m > token
    BY DEF Following
  <2> QED
    BY <1>3, <2>1, <2>2, <2>3, <2>4
<1> HIDE DEF left
<1>5. size \in Nat \ {0}
  BY BoundsAreNumbers
<1>6. /\ listed \subseteq left
      /\ \A x \in listed, y \in left : y <= x => y \in listed
      /\ Cardinality(left) <= size => listed = left
      /\ left # {} => listed # {}
  BY <1>4, <1>5, PageIsFirst
<1>7. Cardinality(left) \in Nat /\ IsFiniteSet(listed)
  BY <1>4, <1>6, FS_CardinalityType, FS_Subset
<1>8. more => /\ Max(listed) \in listed
              /\ \A m \in listed : m <= Max(listed)
  <2> SUFFICES ASSUME more PROVE Max(listed) \in listed /\ \A m \in listed : m <= Max(listed)
    OBVIOUS
  <2>1. left # {}
    BY <1>5, FS_EmptySet
  <2> QED
    BY <1>4, <1>6, <1>7, <2>1, MaxIsGreatest
<1> HIDE DEF listed
<1>9. /\ Append(pages, listed) \in Seq(SUBSET Names)
      /\ Listed(Append(pages, listed)) = Listed(pages) \cup listed
      /\ Ascending(Append(pages, listed))
  <2>1. listed \in SUBSET Names
    BY <1>4, <1>6
  <2>2. /\ Append(pages, listed) \in Seq(SUBSET Names)
        /\ DOMAIN Append(pages, listed) = DOMAIN pages \cup {Len(pages) + 1}
        /\ DOMAIN pages = 1..Len(pages) /\ Len(pages) \in Nat
        /\ \A i \in DOMAIN pages : Append(pages, listed)[i] = pages[i]
        /\ Append(pages, listed)[Len(pages) + 1] = listed
    BY <1>3, <2>1
  <2> HIDE DEF pages
  <2>3. Listed(Append(pages, listed)) = Listed(pages) \cup listed
    BY <2>2 DEF Listed
  <2>4. \A i \in DOMAIN pages : \A m \in pages[i] : m \in Nat /\ m <= token
    BY <1>3, <1>3a DEF Listed
  <2>5. ASSUME NEW i \in DOMAIN Append(pages, listed), NEW j \in DOMAIN Append(pages, listed), i < j,
               NEW m \in Append(pages, listed)[i], NEW n \in Append(pages, listed)[j]
        PROVE  m < n
    <3>1. CASE j \in DOMAIN pages
      <4>1. i \in DOMAIN pages
        BY <2>2, <2>5, <3>1
      <4> QED
        BY <1>3, <2>2, <2>5, <3>1, <4>1 DEF Ascending
    <3>2. CASE j = Len(pages) + 1
      <4>1. i \in DOMAIN pages
        BY <2>2, <2>5, <3>2
      <4>2. m \in pages[i] /\ n \in listed
        BY <2>2, <2>5, <3>2, <4>1
      <4>3. m \in Nat /\ m <= token /\ n \in Nat /\ n > token
        BY <1>4, <1>6, <2>4, <4>1, <4>2
      <4> QED
        BY <1>3, <4>3
    <3> QED
      BY <2>2, <2>5, <3>1, <3>2
  <2> QED
    BY <2>2, <2>3, <2>5 DEF Ascending
<1>10. PagerInv'
  <2>1. CASE more
    <3>1. pager'.state = "listing" /\ pager'.stable = stable /\ pager'.pages = Append(pages, listed)
          /\ pager'.token = Max(listed) /\ pager' \in Listing
      BY <1>1, <1>3, <1>4, <1>6, <1>8, <1>9, <2>1 DEF Listing
    <3>2. Max(listed) \in Nat /\ Max(listed) > token
      BY <1>4, <1>6, <1>8, <2>1
    <3>3. ASSUME NEW m \in Listed(pages) \cup listed PROVE m <= Max(listed)
      <4>1. CASE m \in listed
        BY <1>8, <2>1, <4>1
      <4>2. CASE m \in Listed(pages)
        <5>1. m <= token /\ m \in Nat
          BY <1>3, <1>3a, <4>2
        <5> QED
          BY <1>3, <3>2, <5>1
      <4> QED
        BY <4>1, <4>2
    <3>4. ASSUME NEW m \in stable, m <= Max(listed) PROVE m \in Listed(pages) \cup listed
      <4>1. m \in DOMAIN told
        BY <1>3, Zenon
      <4>2. m \in Nat /\ (m <= token \/ m \in left)
        BY <1>4, <4>1, Zenon
      <4> QED
        BY <1>3, <1>6, <1>8, <2>1, <3>4, <4>2
    <3>5. stable \subseteq DOMAIN told'
      BY <1>1, <1>3
    <3> QED
      BY <1>9, <3>1, <3>3, <3>4, <3>5 DEF PagerInv
  <2>2. CASE ~more
    <3>1. pager'.state = "done" /\ pager'.stable = stable /\ pager'.pages = Append(pages, listed)
          /\ pager' \in Listing
      BY <1>1, <1>3, <1>9, <2>2 DEF Listing
    <3>2. listed = left
      BY <1>5, <1>6, <1>7, <2>2
    <3>3. stable \subseteq Listed(pages) \cup listed
      <4>1. \A m \in stable : m \in DOMAIN told
        BY <1>3, Zenon
      <4>2. \A m \in stable : m <= token \/ m \in listed
        BY <1>4, <3>2, <4>1, Zenon
      <4> QED
        BY <1>3, <4>2, Zenon
    <3> QED
      BY <1>9, <3>1, <3>3 DEF PagerInv
  <2> QED
    BY <2>1, <2>2
<1>11. StoreInv' /\ SeenInv' /\ SecretInv'
  BY <1>1 DEF Inv, StoreInv, SeenInv, VersionIsOneValue, SecretInv, SecretsHidden
<1> QED
  BY <1>10, <1>11 DEF Inv

\* A step of the service keeps the invariant.
LEMMA NextKeeps == Inv /\ [Next]_vars => Inv'
<1> SUFFICES ASSUME Inv, [Next]_vars PROVE Inv'
  OBVIOUS
<1>1. ASSUME NEW req \in Puts, PutParameter(req) PROVE Inv'
  <2> DEFINE after == Put(params, req.name, Parameter(req))
  <2>1. /\ up = TRUE /\ up' = TRUE /\ UNCHANGED <<seen, pager>>
        /\ ValidPut(req) /\ Allowed(req) /\ VersionAfter(req.name) <= MaxVersion
    BY <1>1 DEF PutParameter, Inv, StoreInv
  <2>2. params = told /\ disk = told /\ IsStore(told)
    BY <2>1 DEF Inv, StoreInv
  <2>3. CASE disk' = after /\ params' = after /\ told' = after /\ secretly' = Meant(req)
    BY <2>1, <2>3, SavedPut DEF Inv, StoreInv
  <2>4. CASE UNCHANGED disk /\ params' = PutBack(req.name, Previous(req.name), after) /\ UNCHANGED <<told, secretly>>
    <3>1. params' = told
      BY <2>2, <2>4, PutUndone DEF Previous
    <3> QED
      BY <2>1, <2>2, <2>4, <3>1 DEF Inv, StoreInv, SeenInv, VersionIsOneValue, SecretInv, SecretsHidden, PagerInv
  <2> QED
    BY <1>1, <2>3, <2>4 DEF PutParameter, Persist, PersistFails
<1>2. ASSUME NEW req \in Puts, Refuse(req) PROVE Inv'
  BY <1>2 DEF Refuse, vars, Inv, StoreInv, SeenInv, VersionIsOneValue, SecretInv, SecretsHidden, PagerInv
<1>3. ASSUME NEW req \in Puts, CrashAfterSave(req) PROVE Inv'
  <2>1. /\ up = TRUE /\ up' = FALSE /\ params' = <<>> /\ disk' = told' /\ UNCHANGED <<seen, pager>>
        /\ ValidPut(req) /\ Allowed(req) /\ VersionAfter(req.name) <= MaxVersion
        /\ told' = Put(params, req.name, Parameter(req)) /\ secretly' = Meant(req)
    BY <1>3 DEF CrashAfterSave, Inv, StoreInv
  <2> QED
    BY <2>1, SavedPut DEF Inv, StoreInv
<1>4. ASSUME NEW name \in Names, DeleteParameter(name) PROVE Inv'
  <2> DEFINE after == Without(params, name)
  <2>1. /\ up = TRUE /\ up' = TRUE /\ UNCHANGED secretly /\ name \in DOMAIN params
    BY <1>4 DEF DeleteParameter, Inv, StoreInv
  <2>2. params = told /\ disk = told /\ IsStore(told)
    BY <2>1 DEF Inv, StoreInv
  <2>3. CASE disk' = after /\ params' = after /\ told' = after /\ seen' = [seen EXCEPT ![name] = {}]
    <3>1. params' # params
      BY <2>1, <2>3 DEF Without
    <3>2. pager' = IF pager.state = "listing" THEN [pager EXCEPT !.stable = @ \ {name}] ELSE pager
      BY <1>4, <3>1 DEF DeleteParameter
    <3> QED
      BY <2>1, <2>3, <3>2, SavedDelete DEF Inv, StoreInv
  <2>4. CASE UNCHANGED disk /\ params' = PutBack(name, params[name], after) /\ UNCHANGED <<told, seen>>
    <3>1. params' = told
      BY <2>1, <2>2, <2>4, DeleteUndone
    <3>2. pager' = pager
      BY <1>4, <2>2, <3>1 DEF DeleteParameter
    <3> QED
      BY <2>1, <2>2, <2>4, <3>1, <3>2 DEF Inv, StoreInv, SeenInv, VersionIsOneValue, SecretInv, SecretsHidden, PagerInv
  <2> QED
    BY <1>4, <2>3, <2>4 DEF DeleteParameter, Persist, PersistFails
<1>5. ASSUME NEW name \in Names, CrashAfterDelete(name) PROVE Inv'
  <2>1. /\ up = TRUE /\ up' = FALSE /\ params' = <<>> /\ disk' = told' /\ UNCHANGED secretly
        /\ told' = Without(params, name) /\ seen' = [seen EXCEPT ![name] = {}]
        /\ pager' = IF pager.state = "listing" THEN [pager EXCEPT !.stable = @ \ {name}] ELSE pager
    BY <1>5 DEF CrashAfterDelete, Inv, StoreInv
  <2> QED
    BY <2>1, SavedDelete DEF Inv, StoreInv
<1>6. ASSUME NEW name \in Names, NEW v \in 0..MaxVersion, NEW d \in BOOLEAN, GetParameter(name, v, d) PROVE Inv'
  BY <1>6, GetKeeps
<1>7. ASSUME NEW size \in 1..MaxPage, DescribeParameters(size) PROVE Inv'
  BY <1>7, DescribeKeeps
<1>8. CASE Crash
  BY <1>8 DEF Crash, Inv, StoreInv, SeenInv, VersionIsOneValue, SecretInv, SecretsHidden, PagerInv
<1>9. CASE Start
  BY <1>9 DEF Start, Inv, StoreInv, SeenInv, VersionIsOneValue, SecretInv, SecretsHidden, PagerInv
<1>10. CASE UNCHANGED vars
  BY <1>10 DEF vars, Inv, StoreInv, SeenInv, VersionIsOneValue, SecretInv, SecretsHidden, PagerInv
<1> QED
  BY <1>1, <1>2, <1>3, <1>4, <1>5, <1>6, <1>7, <1>8, <1>9, <1>10 DEF Next

\* The invariant of the parameter store: memory and state.json are what clients
\* were told, reads stay behind the current version, and pages up to the token.
THEOREM StoreInvariant == Spec => []Inv
<1> QED
  BY InitInv, NextKeeps, PTL DEF Spec

\* What put_parameter and delete_parameter answered is kept across failed saves,
\* crashes and restarts; a version shows one value, secrets are shown in clear
\* only on request, and describe_parameters pages through every name.
THEOREM AnswersAreKept == Spec => []ParametersKept
<1>1. Inv => ParametersKept
  <2> SUFFICES ASSUME Inv PROVE ParametersKept
    OBVIOUS
  <2>1. IsStore(told) /\ disk = told /\ (up => params = told) /\ (~up => params = <<>>)
    BY DEF Inv, StoreInv
  <2>2. DOMAIN params \subseteq DOMAIN told /\ \A n \in DOMAIN params : params[n] = told[n]
    BY <2>1
  <2>3. TypeOK
    BY <2>1, <2>2 DEF TypeOK, IsStore, IsParameter
  <2>4. PagingComplete
    BY DEF Inv, PagerInv, Idle, Listing, PagingComplete, Ascending, Listed
  <2> QED
    BY <2>1, <2>3, <2>4 DEF Inv, SeenInv, SecretInv, ParametersKept, AnsweredIsKept
<1> QED
  BY <1>1, StoreInvariant, PTL

-----------------------------------------------------------------------------
(* The service implements ParameterStore. *)

\* The refinement mapping gives what clients were told.
LEMMA ContentsAreTold == Inv => Contents = told
BY DEF Inv, StoreInv, Contents

\* A put that was saved is one put of the abstract store ...
LEMMA SavedPutIsPut ==
  ASSUME Inv, up = TRUE, NEW req \in Puts, ValidPut(req), Allowed(req),
         VersionAfter(req.name) <= MaxVersion,
         Contents' = Put(params, req.name, Parameter(req))
  PROVE  Store!PutOne(req)
<1> DEFINE name == req.name
           new == Parameter(req)
<1>1. params = told /\ Contents = told /\ IsStore(told)
  BY ContentsAreTold DEF Inv, StoreInv
<1>2. /\ DOMAIN Contents' = DOMAIN told \cup {name}
      /\ Contents'[name] = new
      /\ \A m \in DOMAIN told \ {name} : Contents'[m] = told[m]
  BY <1>1 DEF Put
<1>3. new.value = req.value
  BY PutStores
<1>4. Store!OthersKept(name)
  BY <1>1, <1>2 DEF Store!OthersKept, Store!Exists
<1>5. CASE name \in DOMAIN told
  <2>1. Previous(name) = told[name] /\ Previous(name) # None
    BY <1>1, <1>5, ParametersAreSome DEF Previous, IsStore
  <2>2. req.overwrite
    BY <2>1 DEF Allowed
  <2>3. new.version = told[name].version + 1
    BY <1>5, PutStores
  <2>4. new.kind = IF req.kind = "" THEN told[name].kind ELSE req.kind
    BY <1>5, PutStores
  <2>5. new.description = IF req.description = "" THEN told[name].description ELSE req.description
    BY <2>1 DEF Parameter
  <2>6. Store!NextVersion(told[name], new, req)
    BY <1>3, <2>3, <2>4, <2>5 DEF Store!NextVersion
  <2> QED
    BY <1>1, <1>2, <1>4, <1>5, <2>2, <2>6 DEF Store!PutOne, Store!Exists
<1>6. CASE name \notin DOMAIN told
  <2>1. Previous(name) = None
    BY <1>1, <1>6 DEF Previous
  <2>2. new.version = 1
    BY <1>6, PutStores
  <2>3. new.kind = req.kind
    BY <1>6, PutStores
  <2>4. new.description = req.description
    BY <2>1 DEF Parameter
  <2>5. Store!FirstVersion(new, req)
    BY <1>3, <2>2, <2>3, <2>4 DEF Store!FirstVersion
  <2> QED
    BY <1>1, <1>2, <1>4, <1>6, <2>5 DEF Store!PutOne, Store!Exists
<1> QED
  BY <1>5, <1>6

\* ... and a deletion that was saved one deletion.
LEMMA SavedDeleteIsDelete ==
  ASSUME Inv, up = TRUE, NEW name \in DOMAIN params, Contents' = Without(params, name)
  PROVE  Store!DeleteOne(name)
<1>1. params = told /\ Contents = told
  BY ContentsAreTold DEF Inv, StoreInv
<1>2. DOMAIN Contents' = DOMAIN told \ {name} /\ \A m \in DOMAIN Contents' : Contents'[m] = told[m]
  BY <1>1 DEF Without
<1> QED
  BY <1>1, <1>2 DEF Store!DeleteOne, Store!OthersKept, Store!Exists

\* Every step of the service, a failed save, a crash and a restart included, is
\* one of the abstract store or changes nothing a client can see.
LEMMA StepsAreStoreSteps == Inv /\ Inv' /\ [Next]_vars => [Store!Next]_Contents
<1> SUFFICES ASSUME Inv, Inv', [Next]_vars PROVE Store!Next \/ Contents' = Contents
  OBVIOUS
<1>1. Contents = told /\ Contents' = told'
  BY ContentsAreTold DEF Inv, StoreInv, Contents
<1>2. ASSUME NEW req \in Puts, PutParameter(req) PROVE Store!Next \/ Contents' = Contents
  <2>1. /\ up = TRUE /\ ValidPut(req) /\ Allowed(req) /\ VersionAfter(req.name) <= MaxVersion
    BY <1>2 DEF PutParameter, Inv, StoreInv
  <2>2. CASE told' = Put(params, req.name, Parameter(req))
    BY <1>1, <2>1, <2>2, SavedPutIsPut DEF Store!Next
  <2>3. CASE told' = told
    BY <1>1, <2>3
  <2> QED
    BY <1>2, <2>2, <2>3 DEF PutParameter
<1>3. ASSUME NEW req \in Puts, CrashAfterSave(req) PROVE Store!Next \/ Contents' = Contents
  <2>1. /\ up = TRUE /\ ValidPut(req) /\ Allowed(req) /\ VersionAfter(req.name) <= MaxVersion
        /\ told' = Put(params, req.name, Parameter(req))
    BY <1>3 DEF CrashAfterSave, Inv, StoreInv
  <2> QED
    BY <1>1, <2>1, SavedPutIsPut DEF Store!Next
<1>4. ASSUME NEW name \in Names, DeleteParameter(name) \/ CrashAfterDelete(name)
      PROVE  Store!Next \/ Contents' = Contents
  <2>1. up = TRUE /\ name \in DOMAIN params /\ (told' = Without(params, name) \/ told' = told)
    BY <1>4 DEF DeleteParameter, CrashAfterDelete, Inv, StoreInv
  <2> QED
    BY <1>1, <2>1, SavedDeleteIsDelete DEF Store!Next
<1>5. ASSUME \/ \E req \in Puts : Refuse(req)
             \/ \E n \in Names, v \in 0..MaxVersion, d \in BOOLEAN : GetParameter(n, v, d)
             \/ \E size \in 1..MaxPage : DescribeParameters(size)
             \/ Crash \/ Start \/ UNCHANGED vars
      PROVE  Contents' = Contents
  <2>1. told' = told
    BY <1>5 DEF Refuse, GetParameter, DescribeParameters, Crash, Start, vars
  <2> QED
    BY <1>1, <2>1
<1> QED
  BY <1>2, <1>3, <1>4, <1>5 DEF Next

\* Every behaviour of the service, seen through what is in memory or, while the
\* process is down, on disk, is one of a store without processes and files.
THEOREM Refines == Spec => ImplementsStore
<1>1. Init => Store!Init
  BY DEF Init, Store!Init, Contents
<1> QED
  BY <1>1, StoreInvariant, StepsAreStoreSteps, PTL DEF Spec, ImplementsStore, Store!Spec
=============================================================================
