-------------------------- MODULE ModuleLifetimeProofs --------------------------
(***************************************************************************)
(* Proofs about ModuleLifetime, for any entities, Roots, typed children,    *)
(* instances and pending requests.                                          *)
(***************************************************************************)
EXTENDS ModuleLifetime, TLAPS

LoaderType ==
    [registry : 0 .. MaxInstances, made : 0 .. MaxInstances, loaded : SUBSET Instances,
     owner : [Instances -> Tokens \cup {Vacant}], parent : [Tokens -> 0 .. MaxInstances],
     holds : SUBSET Tokens, roots : SUBSET Roots]

-----------------------------------------------------------------------------
(* The operators on the loader's books keep their type *)

LEMMA ClaimType ==
  ASSUME NEW l \in LoaderType, NEW i \in 0 .. MaxInstances, NEW t \in Tokens
  PROVE  Claim(l, i, t) \in LoaderType
  BY DEF Claim, LoaderType

\* Room for one more instance, when there is none.
RoomIn(l) == l.registry # 0 \/ l.made < MaxInstances

LEMMA BootstrapType ==
  ASSUME NEW l \in LoaderType, RoomIn(l)
  PROVE  /\ Bootstrap(l) \in LoaderType
         /\ Bootstrap(l).registry \in Instances
<1>1. CASE l.registry # 0 BY <1>1 DEF Bootstrap, LoaderType, Instances
<1>2. CASE l.registry = 0
  <2>1. PICK n \in Instances : n = l.made + 1 /\ n \in 0 .. MaxInstances
    BY <1>2, ModuleAssumption DEF RoomIn, LoaderType, Instances
  <2>2. Bootstrap(l) = [l EXCEPT !.made = n, !.registry = n, !.loaded = l.loaded \cup {n}]
    BY <1>2, <2>1 DEF Bootstrap
  <2> HIDE DEF Bootstrap
  <2>3. l.loaded \cup {n} \in SUBSET Instances BY DEF LoaderType
  <2>4. Bootstrap(l) \in LoaderType BY <2>1, <2>2, <2>3 DEF LoaderType
  <2>5. Bootstrap(l).registry = n BY <2>2 DEF LoaderType
  <2>6. QED BY <2>4, <2>5
<1>3. QED BY <1>1, <1>2

LEMMA AttachType ==
  ASSUME NEW l \in LoaderType, NEW t \in Tokens, RoomIn(l)
  PROVE  AttachModule(l, t) \in LoaderType
<1> DEFINE b == Bootstrap(l)
           a == [b EXCEPT !.parent[t] = b.registry, !.roots = @ \cup ({t} \cap Roots)]
           c == [a EXCEPT !.holds = @ \ {a.owner[b.registry]}]
<1>1. b \in LoaderType /\ b.registry \in Instances BY BootstrapType
<1> HIDE DEF b
<1>2. a \in LoaderType BY <1>1 DEF LoaderType, Instances
<1>3. c \in LoaderType
  <2> HIDE DEF a
  <2>1. QED BY <1>2 DEF LoaderType
<1>4. AttachModule(l, t) \in {l, a, Claim(a, b.registry, t), Claim(c, b.registry, t)}
  BY DEF AttachModule, b
<1>5. QED
  <2> HIDE DEF a, c
  <2>1. b.registry \in 0 .. MaxInstances BY <1>1 DEF Instances
  <2>2. QED BY <1>2, <1>3, <1>4, <2>1, ClaimType

LEMMA PromoteType ==
  ASSUME NEW l \in LoaderType, NEW t \in Tokens, NEW heir \in Tokens \cup {Vacant}
  PROVE  /\ PromoteOrVacate(l, t, heir) \in LoaderType
         /\ Detached(PromoteOrVacate(l, t, heir), t) \in LoaderType
<1> DEFINE p == PromoteOrVacate(l, t, heir)
<1>1. p \in LoaderType
  <2>1. l.parent[t] \in 0 .. MaxInstances BY DEF LoaderType
  <2>2. [l EXCEPT !.owner[l.parent[t]] = Vacant] \in LoaderType BY <2>1 DEF LoaderType
  <2>3. heir \in Tokens => Claim(l, l.parent[t], heir) \in LoaderType BY <2>1, ClaimType
  <2>4. QED BY <2>2, <2>3 DEF PromoteOrVacate
<1> HIDE DEF p
<1>2. Detached(p, t) \in LoaderType
  <2>1. 0 \in 0 .. MaxInstances BY ModuleAssumption
  <2>2. QED BY <1>1, <2>1 DEF Detached, LoaderType
<1>3. QED BY <1>1, <1>2 DEF p

LEMMA UnloadType ==
  ASSUME NEW l \in LoaderType, NEW i \in Instances, NEW heir \in Tokens \cup {Vacant},
         l.roots # {} => heir \in Tokens
  PROVE  Unload(l, i, heir) \in LoaderType
<1>1. i \in 0 .. MaxInstances /\ 0 \in 0 .. MaxInstances BY ModuleAssumption DEF Instances
<1>2. [l EXCEPT !.registry = 0, !.loaded = @ \ {i}] \in LoaderType BY <1>1 DEF LoaderType
<1>3. QED BY <1>1, <1>2, ClaimType DEF Unload

-----------------------------------------------------------------------------
(* They keep the books in order *)

LEMMA BootstrapBooks ==
  ASSUME NEW l \in LoaderType, NEW a, Books(l, a), RoomIn(l)
  PROVE  LET b == Bootstrap(l)
         IN Books(b, a) /\ b.registry \in b.loaded
<1>1. CASE l.registry # 0 BY <1>1 DEF Bootstrap, Books, TopLevel
<1>2. CASE l.registry = 0
  <2>1. PICK n \in Instances : n = l.made + 1
    BY <1>2, ModuleAssumption DEF RoomIn, LoaderType, Instances
  <2>2. Bootstrap(l) = [l EXCEPT !.made = n, !.registry = n, !.loaded = l.loaded \cup {n}]
    BY <1>2, <2>1 DEF Bootstrap
  <2>3. n # 0 /\ n <= n BY DEF Instances
  <2>4. l.loaded = {} BY <1>2 DEF Books, TopLevel
  <2>5. \A i \in Instances : l.owner[i] = Vacant BY <1>2 DEF Books, Instances, TopLevel
  <2>6. \A t \in TopLevel : l.parent[t] = 0 BY <1>2 DEF Books, TopLevel
  <2> HIDE DEF Bootstrap
  <2>7. QED BY <2>2, <2>3, <2>4, <2>5, <2>6 DEF Books, LoaderType, Tokens, TopLevel
<1>3. QED BY <1>1, <1>2

LEMMA AttachBooks ==
  ASSUME NEW l \in LoaderType, NEW a, Books(l, a), RoomIn(l), NEW t \in Tokens,
         t \in Entities => t \in a
  PROVE  Books(AttachModule(l, t), a)
<1> DEFINE b == Bootstrap(l)
           i == b.registry
           m == [b EXCEPT !.parent[t] = i, !.roots = @ \cup ({t} \cap Roots)]
<1> SUFFICES ASSUME l.parent[t] = 0 PROVE Books(AttachModule(l, t), a)
  BY DEF AttachModule
<1>1. b \in LoaderType /\ i \in Instances /\ i # 0 /\ Books(b, a) /\ i \in b.loaded
  BY BootstrapType, BootstrapBooks DEF Instances
<1>2. b.parent[t] = 0 BY DEF Bootstrap
<1>3. t \in TopLevel => t \notin b.holds BY <1>1, <1>2 DEF Books, TopLevel
<1>4. AttachModule(l, t) = IF m.owner[i] = Vacant THEN Claim(m, i, t)
                           ELSE IF m.owner[i] \in Roots /\ t \notin Roots
                                THEN Claim([m EXCEPT !.holds = @ \ {m.owner[i]}], i, t)
                           ELSE m
  BY DEF AttachModule
<1> HIDE DEF b
<1>5. /\ m.registry = b.registry /\ m.made = b.made /\ m.loaded = b.loaded
      /\ m.owner = b.owner /\ m.holds = b.holds
      /\ m.parent = [b.parent EXCEPT ![t] = i]
      /\ m.roots = b.roots \cup ({t} \cap Roots)
  BY <1>1 DEF LoaderType
<1>6. CASE m.owner[i] = Vacant \/ (m.owner[i] \in Roots /\ t \notin Roots)
  <2> DEFINE c == AttachModule(l, t)
  <2>1. /\ c.registry = b.registry /\ c.made = b.made /\ c.loaded = b.loaded
        /\ c.owner = [b.owner EXCEPT ![i] = t]
        /\ c.holds = (b.holds \ {b.owner[i]}) \cup {t}
        /\ c.parent = [b.parent EXCEPT ![t] = i]
        /\ c.roots = b.roots \cup ({t} \cap Roots)
    <3>1. CASE m.owner[i] = Vacant
      <4>1. Vacant \notin b.holds BY <1>1, ModuleAssumption DEF LoaderType, Tokens, TopLevel, Vacant
      <4>2. QED BY <1>1, <1>4, <1>5, <3>1, <4>1 DEF Claim, LoaderType
    <3>2. CASE m.owner[i] # Vacant /\ m.owner[i] \in Roots /\ t \notin Roots
      BY <1>1, <1>4, <1>5, <3>2 DEF Claim, LoaderType
    <3>3. QED BY <1>6, <3>1, <3>2
  <2> HIDE DEF c, m
  <2>2. \A e \in Entities : b.parent[e] # 0 => b.owner[i] \notin Roots \cup {Vacant}
    BY <1>1 DEF Books, Tokens, TopLevel
  <2>3. \A e \in Entities : c.parent[e] # 0 => e \in a /\ c.owner[c.parent[e]] \notin Roots \cup {Vacant}
    <3>1. \A e \in Entities : e # t => b.parent[e] = 0
      BY <1>5, <1>6, <2>2
    <3>2. QED BY <1>1, <2>1, <3>1, ModuleAssumption DEF Vacant, Books, LoaderType, Tokens, TopLevel
  <2>4. \A x \in TopLevel : c.parent[x] \in {0, c.registry} BY <1>1, <2>1 DEF Books, LoaderType, TopLevel
  <2>5. \A j \in Instances : c.owner[j] # Vacant =>
          j = c.registry /\ (c.owner[j] \in TopLevel => c.parent[c.owner[j]] = j)
    BY <1>1, <2>1 DEF Books, LoaderType, TopLevel
  <2>6. \A x \in TopLevel : x \in c.holds <=> c.parent[x] # 0 /\ c.owner[c.parent[x]] = x
    BY <1>1, <2>1 DEF Books, LoaderType, TopLevel
  <2>7. \A r \in Roots : c.parent[r] # 0 <=> r \in c.roots
    BY <1>1, <2>1 DEF Books, LoaderType, Tokens, TopLevel
  <2>8. c.registry <= c.made /\ c.loaded = {c.registry} \ {0} BY <1>1, <2>1 DEF Books, TopLevel
  <2>9. Books(c, a) BY <2>3, <2>4, <2>5, <2>6, <2>7, <2>8 DEF Books, TopLevel
  <2>10. QED BY <2>9 DEF c
<1>7. CASE m.owner[i] # Vacant /\ ~(m.owner[i] \in Roots /\ t \notin Roots)
  <2>1. AttachModule(l, t) = m BY <1>4, <1>7
  <2> HIDE DEF m
  <2>2. t \in Entities => b.owner[i] \notin Roots \cup {Vacant}
    BY <1>5, <1>7, ModuleAssumption DEF Vacant
  <2>3. Books(m, a) BY <1>1, <1>2, <1>3, <1>5, <1>7, <2>2 DEF Books, LoaderType, Tokens, TopLevel
  <2>4. QED BY <2>1, <2>3
<1>8. QED BY <1>6, <1>7

\* t gives up in favour of another that is there, or of nobody when there is
\* nobody else; without it the books are in order.
LEMMA GiveUpBooks ==
  ASSUME NEW l \in LoaderType, NEW a, a \subseteq Entities, Books(l, a),
         NEW t \in TopLevel, l.parent[t] # 0,
         NEW candidates, candidates = (IF t \in Roots THEN l.roots ELSE a),
         NEW heir \in Heirs(l, t, candidates),
         NEW c, c = [Detached(PromoteOrVacate(l, t, heir), t) EXCEPT !.roots = @ \ {t}]
  PROVE  Books(c, a \ {t})
<1> DEFINE i == l.parent[t]
<1>1. i = l.registry /\ i \in Instances /\ i # 0
  BY DEF Books, LoaderType, Instances, TopLevel
<1>2. candidates \subseteq TopLevel /\ TopLevel \subseteq Tokens BY DEF Tokens, TopLevel, LoaderType
<1>3. IF candidates \ {t} = {} THEN heir = Vacant
      ELSE heir \in candidates \ {t}
  <2>1. \A x \in candidates \ {t} : l.parent[x] \in {0, i} BY <1>1, <1>2 DEF Books, TopLevel
  <2>2. QED BY <2>1 DEF Heirs
<1>4. t # Vacant /\ \A x \in Tokens : x # Vacant BY ModuleAssumption DEF Tokens, TopLevel, Vacant
<1>5. CASE t \notin l.holds
  <2>1. /\ c.registry = l.registry /\ c.made = l.made /\ c.loaded = l.loaded
        /\ c.owner = l.owner /\ c.holds = l.holds
        /\ c.parent = [l.parent EXCEPT ![t] = 0] /\ c.roots = l.roots \ {t}
    BY <1>5 DEF PromoteOrVacate, Detached, LoaderType
  <2>2. l.owner[i] # t BY <1>1, <1>5 DEF Books, TopLevel
  <2>3. QED BY <1>1, <1>4, <2>1, <2>2 DEF Books, LoaderType, Tokens, TopLevel
<1>6. CASE t \in l.holds /\ heir = Vacant
  <2>1. /\ c.registry = l.registry /\ c.made = l.made /\ c.loaded = l.loaded
        /\ c.owner = [l.owner EXCEPT ![i] = Vacant] /\ c.holds = l.holds \ {t}
        /\ c.parent = [l.parent EXCEPT ![t] = 0] /\ c.roots = l.roots \ {t}
    BY <1>6 DEF PromoteOrVacate, Detached, LoaderType
  <2>2. l.owner[i] = t BY <1>6 DEF Books, TopLevel
  <2>3. candidates \ {t} = {} BY <1>2, <1>3, <1>4, <1>6
  <2>4. \A e \in Entities : e # t => l.parent[e] = 0
    <3>1. CASE t \in Roots
      BY <1>1, <2>2, <3>1, ModuleAssumption DEF Books, Tokens, TopLevel
    <3>2. CASE t \notin Roots
      BY <2>3, <3>2 DEF Books, TopLevel
    <3>3. QED BY <3>1, <3>2
  <2>5. QED BY <1>1, <1>4, <2>1, <2>2, <2>4 DEF Books, LoaderType, Tokens, TopLevel
<1>7. CASE t \in l.holds /\ heir # Vacant
  <2>1. heir \in candidates \ {t} /\ heir \in Tokens BY <1>2, <1>3, <1>7
  <2>2. /\ c.registry = l.registry /\ c.made = l.made /\ c.loaded = l.loaded
        /\ c.owner = [l.owner EXCEPT ![i] = heir] /\ c.holds = (l.holds \cup {heir}) \ {t}
        /\ c.parent = [l.parent EXCEPT ![heir] = i, ![t] = 0] /\ c.roots = l.roots \ {t}
    BY <1>1, <1>7, <2>1 DEF PromoteOrVacate, Detached, Claim, LoaderType
  <2>3. l.owner[i] = t BY <1>7 DEF Books, TopLevel
  <2>4. CASE t \in Roots
    <3>1. heir \in l.roots /\ heir \in Roots BY <2>1, <2>4 DEF LoaderType
    <3>2. \A e \in Entities : l.parent[e] = 0
      BY <1>1, <2>3, <2>4, ModuleAssumption DEF Books, Tokens, TopLevel
    <3>3. QED BY <1>1, <1>4, <2>1, <2>2, <2>3, <3>1, <3>2, ModuleAssumption DEF Books, LoaderType, Tokens, TopLevel
  <2>5. CASE t \notin Roots
    <3>1. heir \in a /\ heir \in Entities /\ heir \notin Roots
      BY <2>1, <2>5, ModuleAssumption
    <3>2. QED BY <1>1, <1>4, <2>1, <2>2, <2>3, <2>5, <3>1, ModuleAssumption DEF Books, LoaderType, Tokens, TopLevel
  <2>6. QED BY <2>4, <2>5
<1>8. QED BY <1>5, <1>6, <1>7

\* The recheck of a vacant instance finds a Root to take over, or nothing that
\* is attached to it.
LEMMA UnloadBooks ==
  ASSUME NEW l \in LoaderType, NEW a, Books(l, a), NEW i \in Instances, i \in l.loaded,
         NEW heir \in IF l.roots = {} THEN {Vacant} ELSE l.roots
  PROVE  Books(Unload(l, i, heir), a)
<1>1. i = l.registry /\ i # 0 BY DEF Books, Instances, TopLevel
<1>2. \A x \in Tokens : x # Vacant BY ModuleAssumption DEF Tokens, TopLevel, Vacant
<1>3. CASE l.owner[i] # Vacant BY <1>3 DEF Unload
<1>4. CASE l.owner[i] = Vacant /\ l.roots # {}
  <2> DEFINE c == Unload(l, i, heir)
  <2>1. heir \in Roots /\ heir \in l.roots /\ heir \in Tokens BY <1>4 DEF LoaderType, Tokens, TopLevel
  <2>2. /\ c.registry = l.registry /\ c.made = l.made /\ c.loaded = l.loaded
        /\ c.owner = [l.owner EXCEPT ![i] = heir] /\ c.holds = l.holds \cup {heir}
        /\ c.parent = [l.parent EXCEPT ![heir] = i] /\ c.roots = l.roots
    BY <1>4, <2>1 DEF Unload, Claim, LoaderType
  <2>3. \A e \in Entities : l.parent[e] = 0
    BY <1>1, <1>4, <1>2 DEF Books, Tokens, TopLevel
  <2> HIDE DEF c
  <2>4. Books(c, a) BY <1>1, <1>2, <1>4, <2>1, <2>2, <2>3, ModuleAssumption DEF Books, LoaderType, Tokens, TopLevel
  <2>5. QED BY <2>4 DEF c
<1>5. CASE l.owner[i] = Vacant /\ l.roots = {}
  <2> DEFINE c == Unload(l, i, heir)
  <2>1. /\ c.registry = 0 /\ c.made = l.made /\ c.loaded = l.loaded \ {i}
        /\ c.owner = l.owner /\ c.holds = l.holds /\ c.parent = l.parent /\ c.roots = l.roots
    BY <1>5 DEF Unload, LoaderType
  <2>2. \A t \in TopLevel : l.parent[t] = 0
    BY <1>1, <1>2, <1>5 DEF Books, Tokens, TopLevel
  <2>3. \A j \in Instances : l.owner[j] = Vacant BY <1>1, <1>5 DEF Books, TopLevel
  <2> HIDE DEF c
  <2>4. Books(c, a) BY <1>1, <2>1, <2>2, <2>3 DEF Books, LoaderType, Tokens, TopLevel
  <2>5. QED BY <2>4 DEF c
<1>6. QED BY <1>3, <1>4, <1>5

-----------------------------------------------------------------------------
(* The steps *)

\* An arena that has one more entity has everybody the books count on.
LEMMA BiggerArena ==
  ASSUME NEW l, NEW a, NEW e, Books(l, a)
  PROVE  Books(l, a \cup {e})
  BY DEF Books, TopLevel

LEMMA RequestType ==
  ASSUME TypeOK, NEW t \in Tokens, NEW heir, RequestsUnload(t, heir)
  PROVE  fired' \in [Instances -> Nat] /\ waiting' \in [Instances -> Nat]
<1>1. loader.parent[t] \in 0 .. MaxInstances BY DEF TypeOK
<1>2. ASSUME NEW n \in 0 .. MaxInstances
      PROVE  [fired EXCEPT ![n] = @ + 1] \in [Instances -> Nat]
  <2>1. CASE n \in Instances BY <2>1 DEF TypeOK
  <2>2. CASE n \notin Instances
    <3>1. [fired EXCEPT ![n] = @ + 1] = fired BY <2>2 DEF TypeOK
    <3>2. QED BY <3>1 DEF TypeOK
  <2>3. QED BY <2>1, <2>2
<1>3. waiting' \in [Instances -> Nat] BY DEF RequestsUnload, TypeOK
<1>4. fired' \in [Instances -> Nat] BY <1>1, <1>2 DEF RequestsUnload, TypeOK
<1>5. QED BY <1>3, <1>4

LEMMA RootStep ==
  ASSUME LifetimeInv, NEW r \in Roots, Resolve(r) \/ Relinquish(r)
  PROVE  LifetimeInv'
<1> USE DEF LifetimeInv, TypeOK, unloadVars, joinVars
<1>1. loader \in LoaderType BY DEF LoaderType
<1>2. r \in Tokens /\ r \in TopLevel /\ r \notin Entities BY ModuleAssumption DEF Tokens, TopLevel
<1>3. CASE Resolve(r)
  <2>1. RoomIn(loader) BY <1>3 DEF Resolve, Room, RoomIn
  <2>2. loader' \in LoaderType BY <1>1, <1>2, <1>3, <2>1, AttachType DEF Resolve
  <2>3. late \/ Books(loader', arena) BY <1>1, <1>2, <1>3, <2>1, AttachBooks DEF Resolve
  <2>4. QED BY <1>3, <2>2, <2>3 DEF Resolve, LoaderType
<1>4. CASE Relinquish(r)
  <2>1. PICK heir \in Heirs(loader, r, loader.roots) :
          /\ RequestsUnload(r, heir)
          /\ loader' = [Detached(PromoteOrVacate(loader, r, heir), r) EXCEPT !.roots = @ \ {r}]
    BY <1>4 DEF Relinquish
  <2>2. heir \in Tokens \cup {Vacant} BY <1>1, <2>1 DEF Heirs, LoaderType, Tokens, TopLevel
  <2> DEFINE d == Detached(PromoteOrVacate(loader, r, heir), r)
  <2>3. d \in LoaderType BY <1>1, <1>2, <2>2, PromoteType
  <2>4. loader' \in LoaderType
    <3> HIDE DEF d
    <3>1. loader' = [d EXCEPT !.roots = @ \ {r}] BY <2>1 DEF d
    <3>2. QED BY <2>3, <3>1 DEF LoaderType
  <2>5. ASSUME ~late PROVE Books(loader', arena)
    <3>1. arena \ {r} = arena BY <1>2
    <3>2. loader.parent[r] # 0 BY <1>4 DEF Relinquish, Attached
    <3>3. Books(loader', arena \ {r}) BY <1>1, <1>2, <2>1, <2>5, <3>2, GiveUpBooks
    <3>4. QED BY <3>1, <3>3
  <2>6. fired' \in [Instances -> Nat] /\ waiting' \in [Instances -> Nat]
    BY <1>2, <2>1, RequestType
  <2>7. QED BY <1>4, <2>4, <2>5, <2>6 DEF Relinquish, LoaderType
<1>5. QED BY <1>3, <1>4

LEMMA EntityStep ==
  ASSUME LifetimeInv, NEW e \in Entities,
         Build(e) \/ LoadPrebuilt(e) \/ Destroy(e) \/ \E r \in Roots : Load(e, r)
  PROVE  LifetimeInv'
<1> USE DEF LifetimeInv, TypeOK, unloadVars, joinVars
<1>1. loader \in LoaderType BY DEF LoaderType
<1>2. e \in Tokens /\ e \in TopLevel /\ e \notin Roots BY ModuleAssumption DEF Tokens, TopLevel
<1>3. CASE Build(e) BY <1>3, BiggerArena DEF Build
<1>4. CASE LoadPrebuilt(e)
  <2>1. RoomIn(loader) BY <1>4 DEF LoadPrebuilt, Room, RoomIn
  <2>2. loader' \in LoaderType BY <1>1, <1>2, <1>4, <2>1, AttachType DEF LoadPrebuilt
  <2>3. late \/ Books(loader', arena) BY <1>1, <1>2, <1>4, <2>1, AttachBooks DEF LoadPrebuilt
  <2>4. QED BY <1>4, <2>2, <2>3 DEF LoadPrebuilt, LoaderType
<1>5. CASE Destroy(e)
  <2>1. PICK heir \in Heirs(loader, e, arena) :
          /\ RequestsUnload(e, heir)
          /\ loader' = Detached(PromoteOrVacate(loader, e, heir), e)
    BY <1>5 DEF Destroy
  <2>2. heir \in Tokens \cup {Vacant} BY <2>1 DEF Heirs, Tokens, TopLevel
  <2>3. loader' \in LoaderType BY <1>1, <1>2, <2>1, <2>2, PromoteType
  <2>4. ASSUME ~late PROVE Books(loader', arena')
    <3>1. loader' = [loader' EXCEPT !.roots = @ \ {e}] BY <1>2, <2>3 DEF LoaderType
    <3>2. loader.parent[e] # 0 BY <1>5 DEF Destroy, Attached
    <3>3. Books(loader', arena \ {e}) BY <1>1, <1>2, <2>1, <2>4, <3>1, <3>2, GiveUpBooks
    <3>4. QED BY <1>5, <3>3 DEF Destroy
  <2>5. fired' \in [Instances -> Nat] /\ waiting' \in [Instances -> Nat]
    BY <1>2, <2>1, RequestType
  <2>6. QED BY <1>5, <2>3, <2>4, <2>5 DEF Destroy, LoaderType
<1>6. ASSUME NEW r \in Roots, Load(e, r) PROVE LifetimeInv'
  <2> DEFINE m == IF loader.registry = 0 THEN AttachModule(loader, r) ELSE loader
  <2>1. RoomIn(loader) /\ r \in Tokens /\ r \notin Entities
    BY <1>6, ModuleAssumption DEF Load, Room, RoomIn, Tokens, TopLevel
  <2>2. m \in LoaderType BY <1>1, <2>1, AttachType
  <2>3. RoomIn(m)
    <3>1. CASE loader.registry # 0 BY <3>1 DEF RoomIn
    <3>2. CASE loader.registry = 0
      <4>1. loader.parent[r] = 0 BY <1>6, <3>2 DEF Load, Attached
      <4>2. Bootstrap(loader) \in LoaderType /\ Bootstrap(loader).registry \in Instances
        BY <1>1, <2>1, BootstrapType
      <4>3. AttachModule(loader, r).registry = Bootstrap(loader).registry
        <5> HIDE DEF Bootstrap
        <5>1. QED BY <4>1, <4>2 DEF AttachModule, Claim, LoaderType
      <4>4. QED BY <3>2, <4>2, <4>3 DEF RoomIn, Instances
    <3>3. QED BY <3>1, <3>2
  <2>4. loader' = AttachModule(m, e) /\ arena' = arena \cup {e} BY <1>6 DEF Load
  <2>5. late \/ Books(m, arena') BY <1>1, <2>1, <2>4, AttachBooks, BiggerArena
  <2> HIDE DEF m
  <2>6. loader' \in LoaderType BY <1>2, <2>2, <2>3, <2>4, AttachType
  <2>7. late \/ Books(loader', arena') BY <1>2, <2>2, <2>3, <2>4, <2>5, AttachBooks
  <2>8. QED BY <1>6, <2>4, <2>6, <2>7 DEF Load, LoaderType
<1>7. QED BY <1>3, <1>4, <1>5, <1>6

LEMMA ChildStep ==
  ASSUME LifetimeInv, NEW c \in Children, AddTag(c) \/ DeleteChild(c)
  PROVE  LifetimeInv'
<1> USE DEF LifetimeInv, TypeOK, unloadVars, joinVars
<1>1. loader \in LoaderType BY DEF LoaderType
<1>2. c \in Tokens /\ c \notin TopLevel BY ModuleAssumption DEF Tokens, TopLevel
<1>3. CASE AddTag(c)
  <2>1. CASE loader.registry = 0
    <3>1. RoomIn(loader) /\ loader' = AttachModule(loader, c)
      BY <1>3, <2>1 DEF AddTag, Room, RoomIn
    <3>2. loader' \in LoaderType BY <1>1, <1>2, <3>1, AttachType
    <3>3. late \/ Books(loader', arena)
      BY <1>1, <1>2, <3>1, AttachBooks DEF TopLevel
    <3>4. QED BY <1>3, <3>2, <3>3 DEF AddTag, LoaderType
  <2>2. CASE loader.registry # 0
    <3>1. loader' = [loader EXCEPT !.parent[c] = loader.registry] BY <1>3, <2>2 DEF AddTag
    <3>2. loader' \in LoaderType BY <1>1, <3>1 DEF LoaderType
    <3>3. late \/ Books(loader', arena)
      BY <1>1, <1>2, <3>1 DEF Books, LoaderType, Tokens, TopLevel
    <3>4. QED BY <1>3, <3>2, <3>3 DEF AddTag, LoaderType
  <2>3. QED BY <2>1, <2>2
<1>4. CASE DeleteChild(c)
  <2>1. loader' = [loader EXCEPT !.parent[c] = 0, !.holds = @ \ {c}] BY <1>4 DEF DeleteChild
  <2>2. 0 \in 0 .. MaxInstances BY ModuleAssumption
  <2>3. loader' \in LoaderType BY <1>1, <2>1, <2>2 DEF LoaderType
  <2>4. late \/ Books(loader', arena)
    BY <1>1, <1>2, <2>1 DEF Books, LoaderType, Tokens, TopLevel
  <2>5. QED BY <1>4, <2>3, <2>4 DEF DeleteChild, LoaderType
<1>5. QED BY <1>3, <1>4

LEMMA UnloadStep ==
  ASSUME LifetimeInv, NEW i \in Instances, FirstFire(i) \/ SpawnBlocks(i) \/ Recheck(i)
  PROVE  LifetimeInv'
<1> USE DEF LifetimeInv, TypeOK, unloadVars, joinVars
<1>1. loader \in LoaderType BY DEF LoaderType
<1>2. CASE FirstFire(i) BY <1>2 DEF FirstFire
<1>3. CASE SpawnBlocks(i)
  <2>1. blocked' \in BOOLEAN BY <1>3, Zenon DEF SpawnBlocks
  <2>2. QED BY <1>3, <2>1 DEF SpawnBlocks
<1>4. CASE Recheck(i)
  <2>1. PICK heir \in RootCandidates : loader' = Unload(loader, i, heir) BY <1>4 DEF Recheck
  <2>2. heir \in Tokens \cup {Vacant} /\ (loader.roots # {} => heir \in Tokens)
    BY <2>1 DEF RootCandidates, Tokens, TopLevel
  <2>3. loader' \in LoaderType BY <1>1, <2>1, <2>2, UnloadType
  <2>4. ASSUME ~late' PROVE Books(loader', arena)
    <3>1. ~late /\ i \in loader.loaded BY <1>4, <2>4 DEF Recheck
    <3>2. QED BY <1>1, <2>1, <3>1, UnloadBooks DEF RootCandidates
  <2>5. waiting' \in [Instances -> Nat] BY <1>4 DEF Recheck
  <2>6. late' \in BOOLEAN BY <1>4 DEF Recheck
  <2>7. QED BY <1>4, <2>3, <2>4, <2>5, <2>6 DEF Recheck, LoaderType
<1>5. QED BY <1>2, <1>3, <1>4

LEMMA LifetimeStep == LifetimeInv /\ [Next]_vars => LifetimeInv'
<1> SUFFICES ASSUME LifetimeInv, [Next]_vars PROVE LifetimeInv'
  OBVIOUS
<1>1. CASE JoinAll BY <1>1 DEF JoinAll, LifetimeInv, TypeOK, unloadVars
<1>2. CASE JoinReturns
  <2>1. blocked' \in BOOLEAN BY <1>2, Zenon DEF JoinReturns
  <2>2. QED BY <1>2, <2>1 DEF JoinReturns, LifetimeInv, TypeOK, unloadVars
<1>3. CASE UNCHANGED vars BY <1>3 DEF vars, LifetimeInv, TypeOK, unloadVars, joinVars
<1>4. QED BY <1>1, <1>2, <1>3, RootStep, EntityStep, ChildStep, UnloadStep DEF Next

LEMMA LifetimeStart == Init => LifetimeInv
<1> SUFFICES ASSUME Init PROVE LifetimeInv
  OBVIOUS
<1>1. blocked \in BOOLEAN /\ late \in BOOLEAN BY Zenon DEF Init
<1>2. loader \in LoaderType BY ModuleAssumption DEF Init, LoaderType
<1>3. Books(loader, arena)
  <2>1. \A t \in Tokens : t # Vacant BY ModuleAssumption DEF Tokens, TopLevel, Vacant
  <2>2. QED BY <2>1 DEF Init, Books, Tokens, TopLevel
<1>4. QED BY <1>1, <1>2, <1>3 DEF Init, LifetimeInv, TypeOK, LoaderType

\* The books are in order until a recheck comes late.
THEOREM LifetimeCorrect == Spec => []LifetimeInv
  BY LifetimeStart, LifetimeStep, PTL DEF Spec

-----------------------------------------------------------------------------
(* What follows *)

\* A Root or a top-level entity that owns a module exists and is attached to it,
\* whatever typed children do; nothing of the kind holds of a typed child that
\* owns one.
THEOREM OwnersAreAlive == Spec => []OwnerIsAlive
<1>1. ASSUME LifetimeInv PROVE OwnerIsAlive
  <2> SUFFICES ASSUME ~late, NEW i \in Instances, loader.owner[i] \in TopLevel
               PROVE  loader.parent[loader.owner[i]] = i /\ InMemory(loader.owner[i])
    BY DEF OwnerIsAlive
  <2>1. loader.owner[i] # Vacant BY ModuleAssumption DEF TopLevel, Vacant
  <2>2. loader.parent[loader.owner[i]] = i BY <1>1, <2>1 DEF LifetimeInv, Books
  <2>3. i # 0 BY DEF Instances
  <2>4. QED BY <1>1, <2>2, <2>3 DEF LifetimeInv, Books, InMemory, TopLevel
<1>2. QED BY <1>1, LifetimeCorrect, PTL

\* A Root or a top-level entity believes it is the owner exactly when the module says so.
THEOREM OwnershipAgreed == Spec => []OneOwner
<1>1. LifetimeInv => OneOwner BY DEF LifetimeInv, Books, OneOwner, Attached, TopLevel
<1>2. QED BY <1>1, LifetimeCorrect, PTL

\* No library goes under a Root or a top-level entity that is attached to it.
THEOREM LibraryStaysMapped == Spec => []NeverUnmappedUnder
<1>1. LifetimeInv => NeverUnmappedUnder
  BY DEF LifetimeInv, Books, NeverUnmappedUnder, Attached, TopLevel
<1>2. QED BY <1>1, LifetimeCorrect, PTL
=============================================================================
