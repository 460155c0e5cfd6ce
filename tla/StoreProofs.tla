----------------------------- MODULE StoreProofs -----------------------------
(***************************************************************************)
(* The keyspace's invariants, and that it implements KeyspaceSpec, proved  *)
(* for every set of keys, every set of collection types and all bounds,    *)
(* one lemma per command for each.                                         *)
(***************************************************************************)
EXTENDS Store, KeyspaceProofs

(***************************************************************************)
(* The invariant, action by action.                                        *)
(***************************************************************************)
\* TypeOK with the store taken from a set.
Typed ==
  /\ store \in Stores
  /\ now \in Time
  /\ sweeping \subseteq DOMAIN store.map
  /\ task \in {"idle", "keys", "memories"}
  /\ running \in BOOLEAN
  /\ task = "idle" => sweeping = {}
  /\ task = "memories" => \A k \in sweeping : store.map[k].value.type = "memory"

IInv == Typed /\ IndexConsistent /\ NoEmptyCollection

\* The invariant makes the keyspace a good store.
LEMMA IInvGood == IInv => Good(store, {})
BY DEF IInv, Typed, IndexConsistent, NoEmptyCollection, Good, Ok

\* A command that leaves a good store preserves the invariant ...
LEMMA CommandInv ==
  ASSUME IInv, NEW s, Good(s, {}), Command(s)
  PROVE  IInv'
<1>1. /\ task' = "idle" /\ task = "idle" /\ sweeping' = {} /\ store' = s
      /\ now' \in Time /\ running' \in BOOLEAN
  BY DEF Command, IInv, Typed
<1>2. Good(store, {})'
  BY <1>1
<1> QED
  BY <1>1, <1>2 DEF IInv, Typed, IndexConsistent, NoEmptyCollection, Good, Ok

\* ... and so does one that reads the clock twice, or panics.
LEMMA CommandUntilInv ==
  ASSUME IInv, NEW t2 \in Later, NEW ok \in BOOLEAN, NEW s, ok => Good(s, {}),
         CommandUntil(t2, ok, s)
  PROVE  IInv'
<1>1. Good(store, {})
  BY IInvGood
<1>2. /\ task' = "idle" /\ task = "idle" /\ sweeping' = {}
      /\ store' = IF ok THEN s ELSE store
      /\ running' \in BOOLEAN
  BY DEF CommandUntil, IInv, Typed
<1>3. now' \in Time
  BY MaxTimeAssumption DEF CommandUntil, IInv, Typed, Later, Time
<1>4. Good(store, {})'
  BY <1>1, <1>2
<1> QED
  BY <1>2, <1>3, <1>4 DEF IInv, Typed, IndexConsistent, NoEmptyCollection, Good, Ok

\* DEL, EXPIRE, PERSIST, RENAME, COPY and the lookups preserve it.
LEMMA KeyCommandInv ==
  ASSUME IInv, NEW k \in Keys, KeyCommand(k)
  PROVE  IInv'
<1>0. Good(store, {})
  BY IInvGood
<1> DEFINE f == Find(store, k, now)
<1>f. Good(f, {})
  BY <1>0, FindFacts
<1>1. CASE Read(k)
  BY <1>f, <1>1, CommandInv DEF Read
<1>2. CASE DelKey(k)
  BY <1>0, <1>2, DelFacts, CommandInv DEF DelKey
<1>3. ASSUME NEW at \in Time, Expire(k, at)
      PROVE  IInv'
  <2>1. at \in Expiry
    BY DEF Time, Expiry
  <2> QED
    BY <1>0, <1>3, <2>1, SetExpireAtFacts, CommandInv DEF Expire
<1>4. CASE Persist(k)
  <2>1. Never \in Expiry
    BY DEF Expiry
  <2>2. Good(SetExpireAt(f, k, Never, now), {})
    BY <1>f, <2>1, SetExpireAtFacts
  <2> QED
    BY <1>f, <1>4, <2>2, CommandInv DEF Persist
<1>5. ASSUME NEW new \in Keys, NEW nx \in BOOLEAN, RenameKey(k, new, nx)
      PROVE  IInv'
  <2>1. PICK g : g = IF nx /\ Has(f, k) /\ k # new THEN Find(f, new, now) ELSE f
    OBVIOUS
  <2>2. Good(g, {})
    BY <1>f, <2>1, FindFacts
  <2>3. Good(Rename(g, k, new, now), {})
    BY <2>2, RenameFacts
  <2> QED
    BY <1>5, <2>1, <2>2, <2>3, CommandInv DEF RenameKey
<1>6. ASSUME NEW dest \in Keys, NEW replace \in BOOLEAN, NEW t2 \in Later,
             Copy(k, dest, replace, t2)
      PROVE  IInv'
  <2>1. PICK g : g = IF replace \/ ~Has(f, k) THEN f ELSE Find(f, dest, t2)
    OBVIOUS
  <2>2. Good(g, {})
    BY <1>f, <2>1, FindFacts
  <2> DEFINE free == replace \/ ~Has(g, dest)
             ok == Has(f, k) /\ free => Has(g, k)
             w == IF Has(f, k) /\ free
                  THEN MarkDirty(InsertEntry(g, dest, g.map[k].value, g.map[k].expireAt))
                  ELSE g
  <2>3. CommandUntil(t2, ok, w)
    BY <1>6, <2>1 DEF Copy
  <2>4. ASSUME ok PROVE Good(w, {})
    <3>1. CASE Has(f, k) /\ free
      <4>1. k \in DOMAIN g.map
        BY <2>4, <3>1 DEF Has
      <4>2. PICK v, at : v = g.map[k].value /\ at = g.map[k].expireAt
        OBVIOUS
      <4>3. v \in Value /\ at \in Expiry
        BY <2>2, <4>1, <4>2, GoodFields
      <4>4. ~IsEmptyCollection(v)
        BY <2>2, <4>1, <4>2 DEF Good
      <4>5. w = MarkDirty(InsertEntry(g, dest, v, at))
        BY <3>1, <4>2
      <4>6. Good(w, {} \ {dest})
        BY <2>2, <4>3, <4>4, <4>5, InsertGood
      <4> QED
        BY <4>6, GoodWeaken
    <3>2. CASE ~(Has(f, k) /\ free)
      BY <2>2, <3>2
    <3> QED
      BY <3>1, <3>2
  <2>5. ok \in BOOLEAN
    BY DEF Has
  <2> HIDE DEF w, ok
  <2> QED
    BY <2>3, <2>4, <2>5, CommandUntilInv
<1> QED
  BY <1>1, <1>2, <1>3, <1>4, <1>5, <1>6 DEF KeyCommand

\* The string commands preserve it.
LEMMA StringCommandInv ==
  ASSUME IInv, NEW k \in Keys, StringCommand(k)
  PROVE  IInv'
<1>0. Good(store, {})
  BY IInvGood
<1> DEFINE f == Find(store, k, now)
<1>f. Good(f, {})
  BY <1>0, FindFacts
<1>s. Sizes \subseteq Nat
  BY MaxLenAssumption DEF Sizes
<1>e. Time \cup {Never} \subseteq Expiry
  BY DEF Time, Expiry
<1>1. ASSUME NEW n \in Sizes, NEW cond \in {"any", "nx", "xx"},
             NEW ex \in Time \cup {Never, Keep}, NEW t2 \in Later, Set(k, n, cond, ex, t2)
      PROVE  IInv'
  <2>1. PICK g : g = IF ex = Keep THEN UpdateString(f, k, n, t2) ELSE Install(f, k, String(n))
    OBVIOUS
  <2>2. n \in Nat /\ String(n) \in Value /\ ~IsEmptyCollection(String(n))
    BY <1>s, StringFacts
  <2>3. Good(Install(f, k, String(n)), {})
    BY <1>f, <2>2, InstallFacts
  <2>4. Good(UpdateString(f, k, n, t2), {})
    BY <1>f, <2>2, UpdateStringFacts
  <2>5. Good(g, {})
    BY <2>1, <2>3, <2>4
  <2>6. ex \in Time => Good(SetExpireAt(g, k, ex, t2), {})
    BY <1>e, <2>5, SetExpireAtFacts
  <2>7. PICK r : r = IF (IF Has(f, k) THEN cond = "nx" ELSE cond = "xx") THEN f
                     ELSE IF ex \in Time THEN SetExpireAt(g, k, ex, t2) ELSE g
    OBVIOUS
  <2>8. Good(r, {})
    BY <1>f, <2>5, <2>6, <2>7
  <2>9. CommandUntil(t2, TRUE, r)
    BY <1>1, <2>1, <2>7 DEF Set
  <2> QED
    BY <2>8, <2>9, CommandUntilInv
<1>2. ASSUME NEW k2 \in Keys, NEW n \in Sizes, NEW nx \in BOOLEAN, MSet(k, k2, n, nx)
      PROVE  IInv'
  <2>1. PICK g : g = IF nx THEN Find(f, k2, now) ELSE store
    OBVIOUS
  <2>2. Good(g, {})
    BY <1>0, <1>f, <2>1, FindFacts
  <2>3. n \in Nat /\ String(n) \in Value /\ ~IsEmptyCollection(String(n))
    BY <1>s, StringFacts
  <2>4. Good(Install(g, k, String(n)), {})
    BY <2>2, <2>3, InstallFacts
  <2>5. Good(Install(Install(g, k, String(n)), k2, String(n)), {})
    BY <2>3, <2>4, InstallFacts
  <2> QED
    BY <1>2, <2>1, <2>2, <2>5, CommandInv DEF MSet
<1>3. ASSUME NEW m \in Deltas, NEW t2 \in Later, Update(k, m, t2)
      PROVE  IInv'
  <2>1. PICK n : n = (IF Has(f, k) THEN f.map[k].value.size ELSE 0) + m
    OBVIOUS
  <2>2. CASE TypeAllows(f, k, "string")
    <3>1. n \in 0 .. MaxLen /\ CommandUntil(t2, TRUE, UpdateString(f, k, n, t2))
      BY <1>3, <2>1, <2>2 DEF Update
    <3>2. Good(UpdateString(f, k, n, t2), {})
      BY <1>f, <3>1, UpdateStringFacts
    <3> QED
      BY <3>1, <3>2, CommandUntilInv
  <2>3. CASE ~TypeAllows(f, k, "string")
    <3>1. CommandUntil(t2, TRUE, f)
      BY <1>3, <2>3 DEF Update
    <3> QED
      BY <1>f, <3>1, CommandUntilInv
  <2> QED
    BY <2>2, <2>3
<1>4. CASE GetDel(k)
  <2>1. Good(Del(f, k, now), {})
    BY <1>f, DelFacts
  <2> QED
    BY <1>f, <1>4, <2>1, CommandInv DEF GetDel
<1>5. ASSUME NEW ex \in Time \cup {Never, Keep}, GetEx(k, ex)
      PROVE  IInv'
  <2>1. ex # Keep => Good(SetExpireAt(f, k, ex, now), {})
    BY <1>f, <1>e, SetExpireAtFacts
  <2> QED
    BY <1>f, <1>5, <2>1, CommandInv DEF GetEx
<1> QED
  BY <1>1, <1>2, <1>3, <1>4, <1>5 DEF StringCommand

\* The commands that add to a collection preserve it.
LEMMA AddInv ==
  ASSUME IInv, NEW k \in Keys, NEW type \in Collections, NEW m \in Sizes, NEW t2 \in Later,
         Add(k, type, m, t2)
  PROVE  IInv'
<1>0. Good(store, {})
  BY IInvGood
<1> DEFINE f == Find(store, k, now)
<1>f. Good(f, {})
  BY <1>0, FindFacts
<1>1. PICK g : g = GetOrCreate(f, k, type, t2)
  OBVIOUS
<1>2. Good(g, {} \cup {k}) /\ k \in DOMAIN g.map
  BY <1>f, <1>1, GetOrCreateFacts
<1>3. PICK n : n = g.map[k].value.size + m
  OBVIOUS
<1>4. CASE TypeAllows(f, k, type)
  <2>1. n \in Nat /\ n > 0
    BY <1>1, <1>3, <1>4 DEF Add
  <2>2. Good(SetSize(g, k, n), ({} \cup {k}) \ {k})
    BY <1>2, <2>1, SetSizeFacts
  <2>3. Good(SetSize(g, k, n), {})
    BY <2>2, GoodWeaken
  <2> QED
    BY <1>1, <1>3, <1>4, <2>3, CommandUntilInv DEF Add
<1>5. CASE ~TypeAllows(f, k, type)
  BY <1>f, <1>5, CommandUntilInv DEF Add
<1> QED
  BY <1>4, <1>5

\* HSETNX preserves it, though it creates the hash first.
LEMMA HSetNXInv ==
  ASSUME IInv, NEW k \in Keys, NEW type \in Collections, NEW present \in BOOLEAN,
         HSetNX(k, type, present)
  PROVE  IInv'
<1>0. Good(store, {})
  BY IInvGood
<1> DEFINE f == Find(store, k, now)
<1>f. Good(f, {})
  BY <1>0, FindFacts
<1>1. PICK g : g = GetOrCreate(f, k, type, now)
  OBVIOUS
<1>2. Good(g, {} \cup {k}) /\ k \in DOMAIN g.map
  BY <1>f, <1>1, GetOrCreateFacts
<1>3. PICK n : n = g.map[k].value.size
  OBVIOUS
<1>4. n \in Nat
  BY <1>2, <1>3, GoodFields
<1>5. Good(g, {k})
  BY <1>2, GoodWeaken
<1>6. Good(DeleteIfEmpty(g, k, now), {})
  BY <1>5, DeleteIfEmptyFacts
<1>6a. PICK p : p = n + 1
  OBVIOUS
<1>6b. p \in Nat /\ p > 0
  BY <1>4, <1>6a
<1>7. Good(SetSize(g, k, p), ({} \cup {k}) \ {k})
  BY <1>2, <1>6b, SetSizeFacts
<1>8. Good(SetSize(g, k, p), {})
  BY <1>7, GoodWeaken
<1> QED
  BY <1>f, <1>1, <1>3, <1>6, <1>6a, <1>8, CommandInv DEF HSetNX

\* The commands that take elements out of a collection preserve it.
LEMMA RemoveInv ==
  ASSUME IInv, NEW k \in Keys, NEW type \in Collections, NEW m \in Sizes, Remove(k, type, m)
  PROVE  IInv'
<1>0. Good(store, {})
  BY IInvGood
<1>1. PICK f : f = Find(store, k, now)
  OBVIOUS
<1>f. Good(f, {})
  BY <1>0, <1>1, FindFacts
<1>2. CASE TypeAllows(f, k, type) /\ Has(f, k)
  <2>1. PICK n : n = f.map[k].value.size
    OBVIOUS
  <2>2. k \in DOMAIN f.map
    BY <1>2 DEF Has
  <2>3. n \in Nat
    BY <1>f, <2>1, <2>2, GoodFields
  <2>4. m \in Nat /\ m <= n
    BY <1>1, <1>2, <2>1, MaxLenAssumption DEF Remove, Sizes
  <2>5. n - m \in Nat
    BY <2>3, <2>4
  <2>6. PICK u : u = SetSize(f, k, n - m)
    OBVIOUS
  <2>7. Good(u, {} \cup {k})
    BY <1>f, <2>2, <2>5, <2>6, SetSizeFacts
  <2>8. Good(u, {k})
    BY <2>7, GoodWeaken
  <2>9. Good(DeleteIfEmpty(u, k, now), {})
    BY <2>8, DeleteIfEmptyFacts
  <2> QED
    BY <1>1, <1>2, <2>1, <2>6, <2>9, CommandInv DEF Remove
<1>3. CASE ~(TypeAllows(f, k, type) /\ Has(f, k))
  BY <1>f, <1>1, <1>3, CommandInv DEF Remove
<1> QED
  BY <1>2, <1>3

\* LMOVE and SMOVE preserve it, also from a key to itself and when the
\* source or the destination expires half-way.
LEMMA MoveInv ==
  ASSUME IInv, NEW k \in Keys, NEW dest \in Keys, NEW type \in Collections,
         NEW m \in {0, 1}, NEW t2 \in Later, Move(k, dest, type, m, t2)
  PROVE  IInv'
<1>0. Good(store, {})
  BY IInvGood
<1>1. PICK f : f = Find(Find(store, k, now), dest, now)
  OBVIOUS
<1>f. Good(f, {})
  <2>1. Good(Find(store, k, now), {})
    BY <1>0, FindFacts
  <2> QED
    BY <1>1, <2>1, FindFacts
<1>2. CASE TypeAllows(f, k, type) /\ TypeAllows(f, dest, type) /\ Has(f, k)
  <2>1. PICK c : c = f.map[k].value.size
    OBVIOUS
  <2>2. k \in DOMAIN f.map
    BY <1>2 DEF Has
  <2>3. c \in Nat /\ c # 0
    <3>1. c \in Nat
      BY <1>f, <2>1, <2>2, GoodFields
    <3>2. f.map[k].value.type = type
      BY <1>2 DEF TypeAllows
    <3> QED
      BY <1>f, <2>1, <2>2, <3>1, <3>2 DEF Good, IsEmptyCollection
  <2>4. c - 1 \in Nat
    BY <2>3
  <2>5. PICK u : u = SetSize(f, k, c - 1)
    OBVIOUS
  <2>6. Good(u, {} \cup {k})
    BY <1>f, <2>2, <2>4, <2>5, SetSizeFacts
  <2>7. PICK g : g = GetOrCreate(u, dest, type, t2)
    OBVIOUS
  <2>8. Good(g, ({} \cup {k}) \cup {dest}) /\ dest \in DOMAIN g.map
    BY <2>6, <2>7, GetOrCreateFacts
  <2>9. PICK n : n = g.map[dest].value.size + m
    OBVIOUS
  <2>10. g.map[dest].value.size \in Nat
    BY <2>8, GoodFields
  <2>11. m = 0 => n > 0
    BY <1>1, <1>2, <2>1, <2>5, <2>7, <2>9 DEF Move
  <2>12. n \in Nat /\ n > 0
    BY <2>9, <2>10, <2>11
  <2>13. PICK w : w = SetSize(g, dest, n)
    OBVIOUS
  <2>14. Good(w, (({} \cup {k}) \cup {dest}) \ {dest})
    BY <2>8, <2>12, <2>13, SetSizeFacts
  <2>15. Good(w, {k})
    BY <2>14, GoodWeaken
  <2>16. Good(DeleteIfEmpty(w, k, t2), {})
    BY <2>15, DeleteIfEmptyFacts
  <2>17. CommandUntil(t2, TRUE, DeleteIfEmpty(w, k, t2))
    BY <1>1, <1>2, <2>1, <2>5, <2>7, <2>9, <2>13 DEF Move
  <2> QED
    BY <2>16, <2>17, CommandUntilInv
<1>3. CASE ~(TypeAllows(f, k, type) /\ TypeAllows(f, dest, type) /\ Has(f, k))
  <2>1. CommandUntil(t2, TRUE, f)
    BY <1>1, <1>3 DEF Move
  <2> QED
    BY <1>f, <2>1, CommandUntilInv
<1> QED
  BY <1>2, <1>3

\* The S*STORE commands preserve it.
LEMMA StoreSetInv ==
  ASSUME IInv, NEW dest \in Keys, NEW k1 \in Keys, NEW k2 \in Keys, NEW n \in Sizes,
         "set" \in Collections, StoreSet(dest, k1, k2, n)
  PROVE  IInv'
<1>0. Good(store, {})
  BY IInvGood
<1>1. PICK f : f = Find(Find(Find(store, dest, now), k1, now), k2, now)
  OBVIOUS
<1>f. Good(f, {})
  <2>1. Good(Find(store, dest, now), {})
    BY <1>0, FindFacts
  <2>2. Good(Find(Find(store, dest, now), k1, now), {})
    BY <2>1, FindFacts
  <2> QED
    BY <1>1, <2>2, FindFacts
<1>2. PICK g : g = Del(f, dest, now)
  OBVIOUS
<1>3. Good(g, {})
  BY <1>f, <1>2, DelFacts
<1>4. PICK h : h = GetOrCreate(g, dest, "set", now)
  OBVIOUS
<1>6. Good(h, {} \cup {dest}) /\ dest \in DOMAIN h.map
  BY <1>3, <1>4, GetOrCreateFacts
<1>7. ASSUME n # 0 PROVE Good(SetSize(h, dest, n), {})
  <2>1. n \in Nat /\ n > 0
    BY <1>7, MaxLenAssumption DEF Sizes
  <2>2. Good(SetSize(h, dest, n), ({} \cup {dest}) \ {dest})
    BY <1>6, <2>1, SetSizeFacts
  <2> QED
    BY <2>2, GoodWeaken
<1> DEFINE fits == \A k \in {dest, k1, k2} : TypeAllows(f, k, "set")
<1>8. CASE ~fits
  BY <1>f, <1>1, <1>8, CommandInv DEF StoreSet
<1>9. CASE fits /\ n = 0
  <2>1. Command(g)
    BY <1>1, <1>2, <1>9 DEF StoreSet
  <2> QED
    BY <1>3, <2>1, CommandInv
<1>10. CASE fits /\ n # 0
  <2>1. Command(SetSize(h, dest, n))
    BY <1>1, <1>2, <1>4, <1>10 DEF StoreSet
  <2> QED
    BY <1>7, <1>10, <2>1, CommandInv
<1> QED
  BY <1>8, <1>9, <1>10

\* ZINCRBY preserves it, its undo included.
LEMMA ZIncrByInv ==
  ASSUME IInv, NEW k \in Keys, NEW present \in BOOLEAN, NEW finite \in BOOLEAN,
         NEW t2 \in Later, "zset" \in Collections, ZIncrBy(k, present, finite, t2)
  PROVE  IInv'
<1>0. Good(store, {})
  BY IInvGood
<1>1. PICK f : f = Find(store, k, now)
  OBVIOUS
<1>f. Good(f, {})
  BY <1>0, <1>1, FindFacts
<1>2. PICK g : g = GetOrCreate(f, k, "zset", now)
  OBVIOUS
<1>4. Good(g, {} \cup {k}) /\ k \in DOMAIN g.map
  BY <1>f, <1>2, GetOrCreateFacts
<1>5. PICK n : n = g.map[k].value.size + (IF present THEN 0 ELSE 1)
  OBVIOUS
<1>6. PICK u : u = SetSize(g, k, n)
  OBVIOUS
<1>7. PICK h : h = Find(u, k, t2)
  OBVIOUS
<1>8. CASE TypeAllows(f, k, "zset")
  <2>1. n \in Nat /\ n > 0
    BY <1>1, <1>2, <1>5, <1>8 DEF ZIncrBy
  <2>2. Good(u, ({} \cup {k}) \ {k})
    BY <1>4, <1>6, <2>1, SetSizeFacts
  <2>3. Good(u, {})
    BY <2>2, GoodWeaken
  <2>4. Good(h, {})
    BY <1>7, <2>3, FindFacts
  <2>5. CASE finite
    <3>1. CommandUntil(t2, TRUE, u)
      BY <1>1, <1>2, <1>5, <1>6, <1>8, <2>5 DEF ZIncrBy
    <3> QED
      BY <2>3, <3>1, CommandUntilInv
  <2>6. CASE ~finite
    <3> DEFINE ok == TypeAllows(f, k, "zset") /\ ~finite => Has(h, k)
    <3>2. PICK w : w = DeleteIfEmpty(SetSize(h, k, n - 1), k, t2)
      OBVIOUS
    <3>3. CommandUntil(t2, ok, w)
      BY <1>1, <1>2, <1>5, <1>6, <1>7, <1>8, <2>6, <3>2 DEF ZIncrBy
    <3>4. ASSUME ok PROVE Good(w, {})
      <4>0. n - 1 \in Nat
        BY <2>1
      <4>1. n - 1 \in Nat /\ k \in DOMAIN h.map
        BY <1>8, <2>6, <3>4, <4>0 DEF Has
      <4>2. PICK x : x = SetSize(h, k, n - 1)
        OBVIOUS
      <4>3. Good(x, {} \cup {k})
        BY <2>4, <4>1, <4>2, SetSizeFacts
      <4>4. Good(x, {k})
        BY <4>3, GoodWeaken
      <4> QED
        BY <3>2, <4>2, <4>4, DeleteIfEmptyFacts
    <3>5. ok \in BOOLEAN
      BY DEF Has, TypeAllows
    <3> HIDE DEF ok
    <3> QED
      BY <3>3, <3>4, <3>5, CommandUntilInv
  <2> QED
    BY <2>5, <2>6
<1>9. CASE ~TypeAllows(f, k, "zset")
  <2>1. CommandUntil(t2, TRUE, f)
    BY <1>1, <1>9 DEF ZIncrBy
  <2> QED
    BY <1>f, <2>1, CommandUntilInv
<1> QED
  BY <1>8, <1>9

\* The collection commands preserve it.
LEMMA CollectionCommandInv ==
  ASSUME IInv, NEW k \in Keys, CollectionCommand(k)
  PROVE  IInv'
<1>1. ASSUME NEW type \in Collections, NEW m \in Sizes, NEW t2 \in Later, AddX(k, type, m, t2)
      PROVE  IInv'
  <2>1. Good(Find(store, k, now), {})
    BY IInvGood, FindFacts
  <2>2. CASE Has(Find(store, k, now), k)
    BY <1>1, <2>2, AddInv DEF AddX
  <2>3. CASE ~Has(Find(store, k, now), k)
    BY <1>1, <2>1, <2>3, CommandUntilInv DEF AddX
  <2> QED
    BY <2>2, <2>3
<1>2. CASE ListCommand(k)
  BY <1>1, <1>2, AddInv, RemoveInv, MoveInv DEF ListCommand
<1>3. CASE HashCommand(k)
  BY <1>3, AddInv, RemoveInv, HSetNXInv DEF HashCommand
<1>4. CASE SetCommand(k)
  BY <1>4, AddInv, RemoveInv, MoveInv, StoreSetInv DEF SetCommand
<1>5. CASE ZSetCommand(k)
  BY <1>5, AddInv, RemoveInv, ZIncrByInv DEF ZSetCommand
<1> QED
  BY <1>2, <1>3, <1>4, <1>5 DEF CollectionCommand

\* The memory commands preserve it.
LEMMA MemoryCommandInv ==
  ASSUME IInv, NEW k \in Keys, MemoryCommand(k)
  PROVE  IInv'
<1>0. Good(store, {})
  BY IInvGood
<1>1. PICK f : f = Find(store, k, now)
  OBVIOUS
<1>f. Good(f, {})
  BY <1>0, <1>1, FindFacts
<1>2. CASE MemCreate(k)
  <2>1. PICK v : v = [type |-> "memory", size |-> 0]
    OBVIOUS
  <2>2. v \in Value /\ ~IsEmptyCollection(v)
    BY <2>1, CollectionsAssumption DEF Value, StoreType, IsEmptyCollection
  <2>3. Good(Install(f, k, v), {})
    BY <1>f, <2>2, InstallFacts
  <2> QED
    BY <1>f, <1>1, <1>2, <2>1, <2>3, CommandInv DEF MemCreate
<1>3. ASSUME NEW n \in Sizes, NEW t2 \in Later, MemWrite(k, n, t2)
      PROVE  IInv'
  <2>1. PICK g : g = Find(f, k, t2)
    OBVIOUS
  <2>2. /\ Good(g, {}) /\ DOMAIN g.map \subseteq DOMAIN f.map
        /\ \A x \in DOMAIN g.map : g.map[x].value = f.map[x].value
    BY <1>f, <2>1, FindFacts
  <2> DEFINE fits == Has(f, k) /\ TypeAllows(f, k, "memory")
             ok == fits => Has(g, k)
             w == IF fits THEN SetSize(g, k, n) ELSE f
  <2>3. CommandUntil(t2, ok, w)
    BY <1>1, <1>3, <2>1 DEF MemWrite
  <2>4. ASSUME ok PROVE Good(w, {})
    <3>1. CASE fits
      <4>1. k \in DOMAIN g.map /\ n \in Nat
        BY <2>4, <3>1, MaxLenAssumption DEF Has, Sizes
      <4>2. g.map[k].value.type \notin Collections
        BY <2>2, <3>1, <4>1, CollectionsAssumption DEF TypeAllows
      <4>3. Good(SetSize(g, k, n), {} \ {k})
        BY <2>2, <4>1, <4>2, SetSizeFacts
      <4>4. Good(SetSize(g, k, n), {})
        BY <4>3, GoodWeaken
      <4> QED
        BY <3>1, <4>4
    <3>2. CASE ~fits
      BY <1>f, <3>2
    <3> QED
      BY <3>1, <3>2
  <2>5. ok \in BOOLEAN
    BY DEF Has, TypeAllows
  <2> HIDE DEF w, ok
  <2> QED
    BY <2>3, <2>4, <2>5, CommandUntilInv
<1> QED
  BY <1>2, <1>3 DEF MemoryCommand

\* The sweep, eviction and the end of a save preserve it.
LEMMA HousekeepingInv ==
  ASSUME IInv, Housekeeping
  PROVE  IInv'
<1> USE DEF IInv, Typed
<1>0. Good(store, {})
  BY IInvGood
<1>1. CASE SweepBegin
  BY <1>1 DEF SweepBegin, DueKeys, IndexConsistent, NoEmptyCollection
<1>2. ASSUME NEW k \in sweeping, SweepKey(k)
      PROVE  IInv'
  <2>1. k \in DOMAIN store.map /\ store' = MarkDirty(RemoveEntry(store, k))
    BY <1>2 DEF SweepKey
  <2>2. Good(store', {} \ {k}) /\ DOMAIN store'.map = DOMAIN store.map \ {k}
    BY <1>0, <2>1, RemoveGood
  <2>3. Good(store, {})'
    BY <2>2, GoodWeaken
  <2>4. /\ now' \in Time /\ task' = "keys" /\ running' \in BOOLEAN
        /\ sweeping' \subseteq DOMAIN store'.map
    BY <1>2, <2>2 DEF SweepKey
  <2> QED
    BY <2>3, <2>4 DEF Good, Ok, IndexConsistent, NoEmptyCollection
<1>3. CASE SweepMemories
  BY <1>3 DEF SweepMemories, LiveKeys, IndexConsistent, NoEmptyCollection
<1>4. ASSUME NEW k \in sweeping, NEW n \in Sizes, SweepMemory(k, n)
      PROVE  IInv'
  <2>1. /\ k \in DOMAIN store.map /\ n \in Nat /\ store.map[k].value.type = "memory"
        /\ now' \in Time /\ task' = "memories" /\ running' \in BOOLEAN
        /\ sweeping' = sweeping \ {k}
        /\ \A x \in sweeping : x \in DOMAIN store.map /\ store.map[x].value.type = "memory"
    BY <1>4, MaxLenAssumption DEF SweepMemory, Sizes
  <2>2. PICK f : f = Find(store, k, now)
    OBVIOUS
  <2>3. /\ Good(f, {})
        /\ sweeping' \subseteq DOMAIN f.map
        /\ \A x \in DOMAIN f.map : f.map[x].value = store.map[x].value
    <3>1. CASE IsLive(store.map[k], now)
      BY <1>0, <2>1, <2>2, <3>1 DEF Find
    <3>2. CASE ~IsLive(store.map[k], now)
      <4>1. f = MarkDirty(RemoveEntry(store, k))
        BY <2>1, <2>2, <3>2 DEF Find, Has
      <4>2. k \in DOMAIN store.map
        BY <2>1
      <4>3. DOMAIN f.map = DOMAIN store.map \ {k}
        BY ONLY <1>0, <4>1, <4>2, RemoveGood
      <4> QED
        BY <1>0, <2>1, <2>2, <4>3, FindFacts
    <3> QED
      BY <3>1, <3>2
  <2>4. PICK w : w = SetSize(f, k, n)
    OBVIOUS
  <2>5. store' = f \/ (k \in DOMAIN f.map /\ store' = w)
    BY <1>4, <2>2, <2>4 DEF SweepMemory, Has
  <2>6. CASE store' = f
    <3>1. \A x \in sweeping' : f.map[x].value.type = "memory"
      BY <2>1, <2>3
    <3> QED
      BY <2>1, <2>3, <2>6, <3>1 DEF Good, Ok, IndexConsistent, NoEmptyCollection
  <2>7. CASE k \in DOMAIN f.map /\ store' = w
    <3>1. f.map[k].value.type = "memory"
      BY <2>1, <2>3, <2>7
    <3>2. Good(w, {} \ {k}) /\ SameTypes(f, w)
      BY <2>1, <2>3, <2>4, <2>7, <3>1, CollectionsAssumption, SetSizeFacts
    <3>3. Good(w, {})
      BY <3>2, GoodWeaken
    <3>4. /\ sweeping' \subseteq DOMAIN w.map
          /\ \A x \in sweeping' : w.map[x].value.type = "memory"
      BY <2>1, <2>3, <3>2 DEF SameTypes
    <3> QED
      BY <2>1, <2>7, <3>3, <3>4 DEF Good, Ok, IndexConsistent, NoEmptyCollection
  <2> QED
    BY <2>5, <2>6, <2>7
<1>5. CASE SweepEnd
  BY <1>5 DEF SweepEnd, IndexConsistent, NoEmptyCollection
<1>6. ASSUME NEW k \in Keys, Evict(k)
      PROVE  IInv'
  <2>1. k \in DOMAIN store.map /\ Command(MarkDirty(RemoveEntry(store, k)))
    BY <1>6 DEF Evict, LiveKeys
  <2>2. Good(MarkDirty(RemoveEntry(store, k)), {} \ {k})
    BY <1>0, <2>1, RemoveGood
  <2>3. Good(MarkDirty(RemoveEntry(store, k)), {})
    BY <2>2, GoodWeaken
  <2> QED
    BY <2>1, <2>3, CommandInv
<1>7. CASE ResetDirty
  <2>1. PICK w : w = [store EXCEPT !.dirty = FALSE]
    OBVIOUS
  <2>2. w \in Stores /\ w.map = store.map /\ w.keys = store.keys /\ w.volatile = store.volatile
    BY <2>1 DEF Stores
  <2>3. Good(w, {})
    BY <1>0, <2>2 DEF Good, Ok, KeyIndexConsistent, VolatileIndexConsistent
  <2> QED
    BY <1>7, <2>1, <2>3, CommandInv DEF ResetDirty
<1> QED
  BY <1>1, <1>2, <1>3, <1>4, <1>5, <1>6, <1>7 DEF Housekeeping

\* The server starts in it.
LEMMA InitInv == Init => IInv
<1> SUFFICES ASSUME Init PROVE IInv
  OBVIOUS
<1>2. Good(store, {})
  BY EmptyStoreGood DEF Init, EmptyStore
<1>3. now \in Time
  BY MaxTimeAssumption DEF Init, Time
<1> QED
  BY <1>2, <1>3 DEF Init, IInv, Typed, IndexConsistent, NoEmptyCollection, Good, Ok

\* Every step preserves it.
LEMMA StepInv == IInv /\ [Next]_vars => IInv'
<1> SUFFICES ASSUME IInv, [Next]_vars PROVE IInv'
  OBVIOUS
<1>1. ASSUME NEW k \in Keys, KeyCommand(k) \/ StringCommand(k) \/ CollectionCommand(k) \/ MemoryCommand(k)
      PROVE  IInv'
  BY <1>1, KeyCommandInv, StringCommandInv, CollectionCommandInv, MemoryCommandInv
<1>2. CASE FlushAll
  <2>1. Good(Flush(store), {})
    <3>1. Good(EmptyStore, {})
      BY EmptyStoreGood DEF EmptyStore
    <3> QED
      BY <3>1, MarkDirtyFacts DEF Flush
  <2> QED
    BY <1>2, <2>1, CommandInv DEF FlushAll
<1>3. CASE Housekeeping
  BY <1>3, HousekeepingInv
<1>4. CASE Tick
  <2>1. now' \in Time
    BY <1>4, MaxTimeAssumption DEF Tick, IInv, Typed, Time
  <2> QED
    BY <1>4, <2>1 DEF Tick, IInv, Typed, IndexConsistent, NoEmptyCollection
<1>5. CASE UNCHANGED vars
  BY <1>5 DEF vars, IInv, Typed, IndexConsistent, NoEmptyCollection
<1> QED
  BY <1>1, <1>2, <1>3, <1>4, <1>5 DEF Next

\* The inductive invariant, for any number of keys, any set of collection
\* types and any bounds.
THEOREM Invariance == Spec => []IInv
BY InitInv, StepInv, PTL DEF Spec

\* Every reachable keyspace is well formed.
THEOREM TypeCorrect == Spec => []TypeOK
<1>1. IInv => TypeOK
  <2> SUFFICES ASSUME IInv PROVE TypeOK
    OBVIOUS
  <2>1. store \in Stores
    BY DEF IInv, Typed
  <2>2. DOMAIN store.map \subseteq Keys /\ store.map \in [DOMAIN store.map -> Entry]
    BY <2>1, BindingsFacts DEF Stores
  <2>3. /\ store = [map |-> store.map, keys |-> store.keys,
                    volatile |-> store.volatile, dirty |-> store.dirty]
        /\ store.keys \in Seq(Keys)
        /\ store.volatile \in Seq(Keys)
        /\ store.dirty \in BOOLEAN
    BY <2>1 DEF Stores
  <2> QED
    BY <2>2, <2>3 DEF IInv, Typed, TypeOK
<1> QED
  BY <1>1, Invariance, PTL

\* Both index vectors of the store (keys, volatile) agree with its map after
\* every command, eviction and sweep step.
THEOREM IndexCorrect == Spec => []IndexConsistent
<1>1. IInv => IndexConsistent
  BY DEF IInv
<1> QED
  BY <1>1, Invariance, PTL

\* No command leaves an empty collection behind.
THEOREM NoEmptyCollectionCorrect == Spec => []NoEmptyCollection
<1>1. IInv => NoEmptyCollection
  BY DEF IInv
<1> QED
  BY <1>1, Invariance, PTL

-----------------------------------------------------------------------------
(***************************************************************************)
(* The refinement.  What clients can see of a store at a time is what it   *)
(* holds without what is due by then.  One lemma per method says how the   *)
(* method changes that; a command's effect on it is put together from them *)
(* and is the effect of the promised command.                              *)
(***************************************************************************)

\* Dropping what is due at t before or after a key is bound is the same ...
LEMMA PruneBind ==
  ASSUME NEW f, NEW t, NEW k, NEW v, NEW at
  PROVE  Abs!Prune(Abs!Bind(Abs!Prune(f, t), k, v, at), t) = Abs!Prune(Abs!Bind(f, k, v, at), t)
BY DEF Abs!Prune, Abs!Bind, Abs!Alive, Abs!Never

\* ... and before or after keys are dropped, too.
LEMMA PruneDrop ==
  ASSUME NEW f, NEW t, NEW K
  PROVE  Abs!Prune(Abs!Drop(Abs!Prune(f, t), K), t) = Abs!Prune(Abs!Drop(f, K), t)
BY DEF Abs!Prune, Abs!Drop, Abs!Alive, Abs!Never

\* What is dropped stays dropped.
LEMMA PruneTwice ==
  ASSUME NEW f, NEW t
  PROVE  Abs!Prune(Abs!Prune(f, t), t) = Abs!Prune(f, t)
BY DEF Abs!Prune, Abs!Alive, Abs!Never

\* What clients see is what the store holds, without what is due.
LEMMA ContentIs ==
  ASSUME NEW s, NEW t
  PROVE  Content(s, t) = Abs!Prune(Contents(s), t)
<1>1. {x \in DOMAIN Contents(s) : Abs!Alive(Contents(s)[x], t)} = LiveKeys(s, t)
  BY DEF Contents, Abs!Alive, Abs!Never, LiveKeys, IsLive, Never
<1> QED
  BY <1>1 DEF Content, Contents, Abs!Prune, LiveKeys

\* The keys a client sees, and what it sees of each.
LEMMA ContentFacts ==
  ASSUME NEW s, NEW t, NEW k
  PROVE  /\ k \in DOMAIN Content(s, t) <=> k \in DOMAIN s.map /\ IsLive(s.map[k], t)
         /\ k \in DOMAIN Content(s, t) =>
              /\ Content(s, t)[k].value = s.map[k].value
              /\ Content(s, t)[k].expireAt = s.map[k].expireAt
BY DEF Content, LiveKeys

\* As time goes by keys disappear, and nothing else happens.
LEMMA ContentLater ==
  ASSUME NEW s, NEW K, Good(s, K), NEW t \in Int, NEW u \in Int, t <= u
  PROVE  Content(s, u) = Abs!Prune(Content(s, t), u)
<1>1. \A x \in DOMAIN s.map : s.map[x].expireAt \in Int
  BY GoodFields DEF Expiry, Never
<1>2. \A x \in DOMAIN s.map : IsLive(s.map[x], u) => IsLive(s.map[x], t)
  BY <1>1 DEF IsLive
<1>3. {x \in DOMAIN Content(s, t) : Abs!Alive(Content(s, t)[x], u)} = LiveKeys(s, u)
  BY <1>2 DEF Content, LiveKeys, Abs!Alive, Abs!Never, IsLive, Never
<1> QED
  BY <1>2, <1>3 DEF Content, LiveKeys, Abs!Prune

\* Nothing seen is due.
LEMMA ContentPruned ==
  ASSUME NEW s, NEW t
  PROVE  Abs!Prune(Content(s, t), t) = Content(s, t)
BY ContentIs, PruneTwice

\* The last binding of a key counts, ...
LEMMA BindBind ==
  ASSUME NEW f, NEW k, NEW v, NEW at, NEW w, NEW b
  PROVE  Abs!Bind(Abs!Bind(f, k, w, b), k, v, at) = Abs!Bind(f, k, v, at)
BY DEF Abs!Bind

\* ... whether the key was there or not, ...
LEMMA BindDrop ==
  ASSUME NEW f, NEW k, NEW v, NEW at
  PROVE  Abs!Bind(Abs!Drop(f, {k}), k, v, at) = Abs!Bind(f, k, v, at)
BY DEF Abs!Bind, Abs!Drop

\* ... and none of them once the key is dropped.
LEMMA DropBind ==
  ASSUME NEW f, NEW k, NEW v, NEW at
  PROVE  Abs!Drop(Abs!Bind(f, k, v, at), {k}) = Abs!Drop(f, {k})
BY DEF Abs!Bind, Abs!Drop

\* A binding that is due is none.
LEMMA BindDue ==
  ASSUME NEW f, NEW k, NEW v, NEW at, NEW t, ~(at = Never \/ at > t)
  PROVE  Abs!Prune(Abs!Bind(f, k, v, at), t) = Abs!Prune(Abs!Drop(f, {k}), t)
BY DEF Abs!Bind, Abs!Drop, Abs!Prune, Abs!Alive, Abs!Never, Never

\* What is due may as well be dropped.
LEMMA DropDue ==
  ASSUME NEW f, NEW k, NEW t, k \in DOMAIN f => ~(f[k].expireAt = Never \/ f[k].expireAt > t)
  PROVE  Abs!Prune(Abs!Drop(f, {k}), t) = Abs!Prune(f, t)
BY DEF Abs!Drop, Abs!Prune, Abs!Alive, Abs!Never, Never

\* Dropping what no client sees and binding a key to what they see changes
\* nothing for them.
LEMMA SameContent ==
  ASSUME NEW s, NEW t, NEW k
  PROVE  /\ k \notin DOMAIN Content(s, t) => Abs!Drop(Content(s, t), {k}) = Content(s, t)
         /\ k \in DOMAIN Content(s, t) =>
              Abs!Bind(Content(s, t), k, Content(s, t)[k].value, Content(s, t)[k].expireAt)
                = Content(s, t)
<1>1. ASSUME k \notin DOMAIN Content(s, t)
      PROVE  Abs!Drop(Content(s, t), {k}) = Content(s, t)
  BY <1>1 DEF Abs!Drop, Content
<1>2. ASSUME k \in DOMAIN Content(s, t)
      PROVE  Abs!Bind(Content(s, t), k, Content(s, t)[k].value, Content(s, t)[k].expireAt)
                = Content(s, t)
  <2>1. DOMAIN Content(s, t) \cup {k} = LiveKeys(s, t)
    BY <1>2 DEF Content
  <2> QED
    BY <1>2, <2>1 DEF Abs!Bind, Content
<1> QED
  BY <1>1, <1>2

\* A store that holds one more key shows one more, unless it is due ...
LEMMA BindSeen ==
  ASSUME NEW s, NEW r, NEW k, NEW v, NEW at, NEW t,
         Contents(r) = Put(Contents(s), k, [value |-> v, expireAt |-> at])
  PROVE  Content(r, t) = Abs!Prune(Abs!Bind(Content(s, t), k, v, at), t)
<1>1. Contents(r) = Abs!Bind(Contents(s), k, v, at)
  BY DEF Put, Abs!Bind
<1> QED
  BY <1>1, ContentIs, PruneBind

\* ... and one that holds one less shows one less.
LEMMA DropSeen ==
  ASSUME NEW s, NEW r, NEW k, NEW t, Contents(r) = Without(Contents(s), k)
  PROVE  Content(r, t) = Abs!Prune(Abs!Drop(Content(s, t), {k}), t)
<1>1. Contents(r) = Abs!Drop(Contents(s), {k})
  BY DEF Without, Abs!Drop
<1> QED
  BY <1>1, ContentIs, PruneDrop

\* The key is not in the map of s, or is live at time t, as it is once a lookup
\* has passed it.
Fresh(s, k, t) == k \in DOMAIN s.map => IsLive(s.map[k], t)

\* What is seen of a key a lookup has passed is what the map holds of it.
LEMMA FreshFacts ==
  ASSUME NEW s, NEW k, NEW t, Fresh(s, k, t)
  PROVE  /\ Has(s, k) <=> k \in DOMAIN Content(s, t)
         /\ Has(s, k) => /\ s.map[k].value = Content(s, t)[k].value
                         /\ s.map[k].expireAt = Content(s, t)[k].expireAt
BY ContentFacts DEF Fresh, Has

\* A lookup shows no client anything new, now or later.
LEMMA FindSeen ==
  ASSUME NEW s, NEW K, Good(s, K), NEW k, NEW t \in Int, NEW r, r = Find(s, k, t)
  PROVE  /\ Good(r, K)
         /\ Fresh(r, k, t)
         /\ \A x : Fresh(s, x, t) => Fresh(r, x, t)
         /\ \A u \in Int : t <= u => Content(r, u) = Content(s, u)
<1>1. Good(r, K)
  BY FindFacts
<1>2. CASE k \in DOMAIN s.map /\ ~IsLive(s.map[k], t)
  <2>1. Contents(r) = Without(Contents(s), k)
    BY <1>2, FindContents
  <2>2. /\ DOMAIN r.map = DOMAIN s.map \ {k}
        /\ \A x \in DOMAIN r.map : r.map[x].expireAt = s.map[x].expireAt
    <3>1. DOMAIN r.map = DOMAIN s.map \ {k}
      BY <2>1 DEF Contents, Without
    <3>2. \A x \in DOMAIN r.map : Contents(r)[x] = Contents(s)[x]
      BY <2>1, <3>1 DEF Contents, Without
    <3> QED
      BY <3>1, <3>2 DEF Contents
  <2>3. Fresh(r, k, t) /\ \A x : Fresh(s, x, t) => Fresh(r, x, t)
    BY <2>2 DEF Fresh, IsLive
  <2>4. ASSUME NEW u \in Int, t <= u
        PROVE  Content(r, u) = Content(s, u)
    <3>1. s.map[k].expireAt \in Int
      BY <1>2, GoodFields DEF Expiry, Never
    <3>2. ~IsLive(s.map[k], u)
      BY <1>2, <2>4, <3>1 DEF IsLive
    <3>3. k \notin DOMAIN Content(s, u)
      BY <3>2, ContentFacts
    <3>4. Content(r, u) = Abs!Prune(Abs!Drop(Content(s, u), {k}), u)
      BY <2>1, DropSeen
    <3> QED
      BY <3>3, <3>4, SameContent, ContentPruned
  <2> QED
    BY <1>1, <2>3, <2>4
<1>3. CASE ~(k \in DOMAIN s.map /\ ~IsLive(s.map[k], t))
  <2>1. r = s
    BY <1>3, FindContents
  <2> QED
    BY <1>1, <1>3, <2>1 DEF Fresh
<1> QED
  BY <1>2, <1>3

\* One command ends with what it has made of the keyspace.
LEMMA Ends ==
  ASSUME NEW s, Command(s), NEW g, Content(s, now) = Abs!Prune(g, now)
  PROVE  Abs!EndsWith(now, g)
BY DEF Command, Abs!EndsWith

\* The same for a command that reads the clock again, and may panic.
LEMMA EndsUntil ==
  ASSUME NEW t2, NEW ok, NEW s, CommandUntil(t2, ok, s), NEW g,
         Content(IF ok THEN s ELSE store, t2) = Abs!Prune(g, t2)
  PROVE  Abs!EndsWith(t2, g)
BY DEF CommandUntil, Abs!EndsWith

\* A lookup drops the key looked up at most, and changes no other.
LEMMA FindKeeps ==
  ASSUME NEW s, NEW K, Good(s, K), NEW k, NEW t, NEW r, r = Find(s, k, t)
  PROVE  /\ DOMAIN s.map \ {k} \subseteq DOMAIN r.map
         /\ \A x : Has(r, x) => /\ Has(s, x)
                               /\ r.map[x].value = s.map[x].value
                               /\ r.map[x].expireAt = s.map[x].expireAt
<1>1. CASE k \in DOMAIN s.map /\ ~IsLive(s.map[k], t)
  <2>1. Contents(r) = Without(Contents(s), k)
    BY <1>1, FindContents
  <2>2. DOMAIN r.map = DOMAIN s.map \ {k}
    BY <2>1 DEF Contents, Without
  <2>3. \A x \in DOMAIN r.map : Contents(r)[x] = Contents(s)[x]
    BY <2>1, <2>2 DEF Contents, Without
  <2> QED
    BY <2>2, <2>3 DEF Contents, Has
<1>2. CASE ~(k \in DOMAIN s.map /\ ~IsLive(s.map[k], t))
  BY <1>2 DEF Find, Has
<1> QED
  BY <1>1, <1>2

\* What the keyspace at hand is: the clients' view of a good store.
LEMMA Now == IInv => Good(store, {}) /\ now \in Int /\ now \in Nat
BY IInvGood, MaxTimeAssumption DEF IInv, Typed, Time

\* del takes the key away.
LEMMA DelSeen ==
  ASSUME NEW s, NEW K, Good(s, K), NEW k, NEW t, NEW r, r = Del(s, k, t)
  PROVE  Content(r, t) = Abs!Prune(Abs!Drop(Content(s, t), {k}), t)
<1>1. CASE k \in DOMAIN s.map
  <2>1. Contents(r) = Without(Contents(s), k)
    BY <1>1, DelContents
  <2> QED
    BY <2>1, DropSeen
<1>2. CASE k \notin DOMAIN s.map
  <2>1. r = s
    BY <1>2, DelContents
  <2>2. k \notin DOMAIN Content(s, t)
    BY <1>2, ContentFacts
  <2> QED
    BY <2>1, <2>2, SameContent, ContentPruned
<1> QED
  BY <1>1, <1>2

\* set_expire_at gives a live key its deadline.
LEMMA SetExpireAtSeen ==
  ASSUME NEW s, NEW K, Good(s, K), NEW k, NEW at \in Expiry, NEW t \in Int,
         NEW r, r = SetExpireAt(s, k, at, t)
  PROVE  Content(r, t) = IF k \in DOMAIN Content(s, t)
                         THEN Abs!Prune(Abs!Bind(Content(s, t), k, Content(s, t)[k].value, at), t)
                         ELSE Content(s, t)
<1>1. CASE k \in DOMAIN Content(s, t)
  <2>1. k \in DOMAIN s.map /\ IsLive(s.map[k], t) /\ Content(s, t)[k].value = s.map[k].value
    BY <1>1, ContentFacts
  <2>2. Contents(r) = Put(Contents(s), k, [value |-> s.map[k].value, expireAt |-> at])
    BY <2>1, SetExpireAtContents
  <2>3. Content(r, t) = Abs!Prune(Abs!Bind(Content(s, t), k, s.map[k].value, at), t)
    BY <2>2, BindSeen
  <2> QED
    BY <1>1, <2>1, <2>3
<1>2. CASE k \notin DOMAIN Content(s, t)
  <2>1. ~(k \in DOMAIN s.map /\ IsLive(s.map[k], t))
    BY <1>2, ContentFacts
  <2>2. r = Find(s, k, t)
    BY <2>1, SetExpireAtContents
  <2>3. Content(r, t) = Content(s, t)
    BY <2>2, FindSeen
  <2> QED
    BY <1>2, <2>3
<1> QED
  BY <1>1, <1>2

\* delete_if_empty takes the key away if it is a collection without elements.
LEMMA DeleteIfEmptySeen ==
  ASSUME NEW s, NEW K, Good(s, K), NEW k, NEW t, NEW r, r = DeleteIfEmpty(s, k, t)
  PROVE  Content(r, t) =
           IF k \in DOMAIN Content(s, t) /\ IsEmptyCollection(Content(s, t)[k].value)
           THEN Abs!Prune(Abs!Drop(Content(s, t), {k}), t)
           ELSE Content(s, t)
<1>1. CASE k \in DOMAIN s.map /\ (~IsLive(s.map[k], t) \/ IsEmptyCollection(s.map[k].value))
  <2>1. Contents(r) = Without(Contents(s), k)
    BY <1>1, DeleteIfEmptyContents
  <2>2. Content(r, t) = Abs!Prune(Abs!Drop(Content(s, t), {k}), t)
    BY <2>1, DropSeen
  <2>3. CASE k \in DOMAIN Content(s, t)
    <3>1. IsEmptyCollection(Content(s, t)[k].value)
      BY <1>1, <2>3, ContentFacts
    <3> QED
      BY <2>2, <2>3, <3>1
  <2>4. CASE k \notin DOMAIN Content(s, t)
    BY <2>2, <2>4, SameContent, ContentPruned
  <2> QED
    BY <2>3, <2>4
<1>2. CASE ~(k \in DOMAIN s.map /\ (~IsLive(s.map[k], t) \/ IsEmptyCollection(s.map[k].value)))
  <2>1. r = s
    BY <1>2, DeleteIfEmptyContents
  <2>2. ~(k \in DOMAIN Content(s, t) /\ IsEmptyCollection(Content(s, t)[k].value))
    BY <1>2, ContentFacts
  <2> QED
    BY <2>1, <2>2
<1> QED
  BY <1>1, <1>2

\* r is s with v and its deadline at k, and is seen so at time t.
Binds(s, r, k, v, at, t) ==
  /\ Content(r, t) = Abs!Prune(Abs!Bind(Content(s, t), k, v, at), t)
  /\ k \in DOMAIN r.map /\ r.map[k].value = v /\ r.map[k].expireAt = at

\* A value resized in place.
LEMMA SetSizeSeen ==
  ASSUME NEW s, NEW K, Good(s, K), NEW k \in DOMAIN s.map, NEW n \in Nat,
         NEW r, r = SetSize(s, k, n), NEW t
  PROVE  Binds(s, r, k, Abs!Val(s.map[k].value.type, n), s.map[k].expireAt, t)
<1>1. PICK v, at : v = Abs!Val(s.map[k].value.type, n) /\ at = s.map[k].expireAt
  OBVIOUS
<1>2. v = [type |-> s.map[k].value.type, size |-> n]
  BY <1>1 DEF Abs!Val
<1>3. Contents(r) = Put(Contents(s), k, [value |-> v, expireAt |-> at])
  BY <1>1, <1>2, SetSizeContents
<1>4. Content(r, t) = Abs!Prune(Abs!Bind(Content(s, t), k, v, at), t)
  BY <1>3, BindSeen
<1>5. k \in DOMAIN Contents(r) /\ Contents(r)[k] = [value |-> v, expireAt |-> at]
  BY <1>3 DEF Put
<1>6. k \in DOMAIN r.map /\ r.map[k].value = v /\ r.map[k].expireAt = at
  BY <1>5 DEF Contents
<1> QED
  BY <1>1, <1>4, <1>6 DEF Binds

\* A fresh value in the place of whatever was there.
LEMMA InstallSeen ==
  ASSUME NEW s, NEW K, Good(s, K), NEW k \in Keys, NEW v \in Value,
         NEW r, r = Install(s, k, v), NEW t
  PROVE  Binds(s, r, k, v, Never, t)
<1>1. Contents(r) = Put(Contents(s), k, [value |-> v, expireAt |-> Never])
  BY InstallContents
<1>2. Content(r, t) = Abs!Prune(Abs!Bind(Content(s, t), k, v, Never), t)
  BY <1>1, BindSeen
<1>3. k \in DOMAIN Contents(r) /\ Contents(r)[k] = [value |-> v, expireAt |-> Never]
  BY <1>1 DEF Put
<1>4. k \in DOMAIN r.map /\ r.map[k].value = v /\ r.map[k].expireAt = Never
  BY <1>3 DEF Contents
<1> QED
  BY <1>2, <1>4 DEF Binds

\* The deadline of a key as its clients know it.
Deadline(d, k) == IF k \in DOMAIN d THEN d[k].expireAt ELSE Never

\* update_string keeps the deadline.
LEMMA UpdateStringSeen ==
  ASSUME NEW s, Good(s, {}), NEW k \in Keys, NEW n \in Nat, NEW t \in Int,
         NEW r, r = UpdateString(s, k, n, t)
  PROVE  Content(r, t) =
           Abs!Prune(Abs!Bind(Content(s, t), k, String(n), Deadline(Content(s, t), k)), t)
<1>1. PICK f : f = Find(s, k, t)
  OBVIOUS
<1>2. Good(f, {}) /\ Fresh(f, k, t) /\ Content(f, t) = Content(s, t)
  BY <1>1, FindSeen
<1>3. String(n) \in Value
  BY StringFacts
<1>4. CASE Has(f, k)
  <2>1. k \in DOMAIN f.map /\ f \in Stores
    BY <1>2, <1>4 DEF Has, Good, Ok
  <2>2. PICK u : u = [f EXCEPT !.map = [f.map EXCEPT ![k].value = String(n)]]
    OBVIOUS
  <2>3. r = MarkDirty(u)
    BY <1>1, <1>4, <2>1, <2>2 DEF UpdateString, Stores
  <2>4. f.map \in Bindings /\ f.map \in [DOMAIN f.map -> Entry]
    BY <2>1, BindingsFacts DEF Stores
  <2>5. r.map = [f.map EXCEPT ![k].value = String(n)]
    BY <2>1, <2>2, <2>3 DEF MarkDirty, Stores
  <2>6. /\ DOMAIN r.map = DOMAIN f.map /\ r.map[k].value = String(n)
        /\ \A x \in DOMAIN f.map : /\ r.map[x].expireAt = f.map[x].expireAt
                                   /\ x # k => r.map[x].value = f.map[x].value
    BY <2>1, <2>4, <2>5 DEF Entry
  <2>7. Contents(r) = Put(Contents(f), k, [value |-> String(n), expireAt |-> f.map[k].expireAt])
    BY <2>1, <2>6 DEF Contents, Put
  <2>8. Content(r, t) = Abs!Prune(Abs!Bind(Content(f, t), k, String(n), f.map[k].expireAt), t)
    BY <2>7, BindSeen
  <2>9. f.map[k].expireAt = Deadline(Content(s, t), k)
    BY <1>2, <1>4, FreshFacts DEF Deadline
  <2> QED
    BY <1>2, <2>8, <2>9
<1>5. CASE ~Has(f, k)
  <2>1. r = Install(f, k, String(n))
    BY <1>1, <1>5 DEF UpdateString
  <2>2. Content(r, t) = Abs!Prune(Abs!Bind(Content(f, t), k, String(n), Never), t)
    BY <1>2, <1>3, <2>1, InstallSeen DEF Binds
  <2>3. Deadline(Content(s, t), k) = Never
    BY <1>2, <1>5, FreshFacts DEF Deadline
  <2> QED
    BY <1>2, <2>2, <2>3
<1> QED
  BY <1>4, <1>5

\* rename moves a live key, its deadline included.
LEMMA RenameSeen ==
  ASSUME NEW s, Good(s, {}), NEW k \in Keys, NEW new \in Keys, NEW t \in Int,
         NEW r, r = Rename(s, k, new, t),
         NEW d, d = Content(s, t)
  PROVE  Content(r, t) =
           IF k \in DOMAIN d
           THEN Abs!Prune(Abs!Bind(Abs!Drop(d, {k}), new, d[k].value, d[k].expireAt), t)
           ELSE d
<1>1. PICK f : f = Find(s, k, t)
  OBVIOUS
<1>2. Good(f, {}) /\ Fresh(f, k, t) /\ Content(f, t) = d
  BY <1>1, FindSeen
<1>3. Has(f, k) <=> k \in DOMAIN d
  BY <1>2, FreshFacts
<1>4. CASE ~Has(f, k)
  BY <1>1, <1>2, <1>3, <1>4 DEF Rename
<1>5. CASE Has(f, k) /\ k = new
  <2>1. r = f
    BY <1>1, <1>5 DEF Rename
  <2>2. Abs!Bind(d, k, d[k].value, d[k].expireAt) = d
    BY <1>3, <1>5, SameContent
  <2>3. Abs!Bind(Abs!Drop(d, {k}), new, d[k].value, d[k].expireAt) = d
    BY <1>5, <2>2, BindDrop
  <2>4. Abs!Prune(d, t) = d
    BY ContentPruned
  <2> QED
    BY <1>2, <1>3, <1>5, <2>1, <2>3, <2>4
<1>6. CASE Has(f, k) /\ k # new
  <2>1. k \in DOMAIN f.map
    BY <1>6 DEF Has
  <2>2. PICK u : u = RemoveEntry(f, k)
    OBVIOUS
  <2>3. PICK v, at : v = f.map[k].value /\ at = f.map[k].expireAt
    OBVIOUS
  <2>4. v \in Value /\ at \in Expiry
    BY <1>2, <2>1, <2>3, GoodFields
  <2>5. v = d[k].value /\ at = d[k].expireAt
    BY <1>2, <1>6, <2>3, FreshFacts
  <2>6. Ok(u) /\ DOMAIN u.map = DOMAIN f.map \ {k} /\ AgreeBut(f, u, {k})
    BY <1>2, <2>1, <2>2, RemoveEntryFacts DEF Good
  <2>7. Good(u, {})
    BY <1>2, <2>6 DEF Good, AgreeBut
  <2>8. Contents(u) = Without(Contents(f), k)
    BY <2>6 DEF Contents, Without, AgreeBut
  <2>9. r = MarkDirty(InsertEntry(u, new, v, at))
    BY <1>1, <1>6, <2>2, <2>3 DEF Rename
  <2>10. Contents(r) = Put(Contents(u), new, [value |-> v, expireAt |-> at])
    <3>1. new \in Keys
      OBVIOUS
    <3> QED
      BY ONLY <2>4, <2>7, <2>9, <3>1, InsertContents
  <2>11. Content(u, t) = Abs!Prune(Abs!Drop(d, {k}), t)
    BY <1>2, <2>8, DropSeen
  <2>12. Content(r, t) = Abs!Prune(Abs!Bind(Content(u, t), new, v, at), t)
    BY <2>10, BindSeen
  <2>13. Content(r, t) = Abs!Prune(Abs!Bind(Abs!Drop(d, {k}), new, v, at), t)
    BY <2>11, <2>12, PruneBind
  <2> QED
    BY <1>3, <1>6, <2>5, <2>13
<1> QED
  BY <1>4, <1>5, <1>6

\* The number of elements of a key as its clients know it.
Elements(d, k) == IF k \in DOMAIN d THEN d[k].value.size ELSE 0

\* g has the collection a client knew at k, or an empty one if it knew none,
\* and is seen so at time u.
Opens(s, g, k, type, d, u) ==
  /\ k \in DOMAIN g.map
  /\ g.map[k].value.type = type
  /\ g.map[k].value.size = Elements(d, k)
  /\ g.map[k].expireAt = Deadline(d, k)
  /\ IF k \in DOMAIN d
     THEN Content(g, u) = Content(s, u)
     ELSE Content(g, u) = Abs!Prune(Abs!Bind(Content(s, u), k, Abs!Val(type, 0), Never), u)

\* get_or_create_* at time t opens what there is at that time.
LEMMA GetOrCreateSeen ==
  ASSUME NEW s, NEW K, Good(s, K), NEW k \in Keys, NEW type \in Collections, NEW t \in Int,
         NEW g, g = GetOrCreate(s, k, type, t),
         NEW d, d = Content(s, t), k \in DOMAIN d => d[k].value.type = type,
         NEW u \in Int, t <= u
  PROVE  Opens(s, g, k, type, d, u)
<1>1. PICK f : f = Find(s, k, t)
  OBVIOUS
<1>2. /\ Good(f, K) /\ Fresh(f, k, t) /\ Content(f, t) = d
      /\ Content(f, u) = Content(s, u)
  BY <1>1, FindSeen
<1>3. Has(f, k) <=> k \in DOMAIN d
  BY <1>2, FreshFacts
<1>4. k \in DOMAIN g.map
  BY GetOrCreateFacts
<1>5. CASE Has(f, k)
  <2>1. g = MarkDirty(f)
    BY <1>1, <1>5 DEF GetOrCreate
  <2>2. g.map = f.map /\ Contents(g) = Contents(f)
    BY <1>2, <2>1, MarkDirtyFacts, MarkDirtyContents
  <2>3. Content(g, u) = Content(f, u)
    BY <2>2, ContentIs
  <2>4. f.map[k].value = d[k].value /\ f.map[k].expireAt = d[k].expireAt
    BY <1>2, <1>5, FreshFacts
  <2> QED
    BY <1>2, <1>3, <1>4, <1>5, <2>2, <2>3, <2>4 DEF Opens, Elements, Deadline
<1>6. CASE ~Has(f, k)
  <2>1. PICK v : v = [type |-> type, size |-> 0]
    OBVIOUS
  <2>2. v \in Value /\ v.type = type /\ v.size = 0 /\ v = Abs!Val(type, 0)
    BY <2>1 DEF Value, StoreType, Abs!Val
  <2>3. g = Install(f, k, v)
    BY <1>1, <1>6, <2>1 DEF GetOrCreate
  <2>4. Binds(f, g, k, v, Never, u)
    BY <1>2, <2>2, <2>3, InstallSeen
  <2> QED
    BY <1>2, <1>3, <1>4, <1>6, <2>2, <2>4 DEF Binds, Opens, Elements, Deadline
<1> QED
  BY <1>5, <1>6

\* A collection that is found or created at time t and left with n elements is
\* seen with these, also later.
LEMMA ResizeSeen ==
  ASSUME NEW s, NEW K, Good(s, K), NEW k \in Keys, NEW type \in Collections, NEW t \in Int,
         NEW d, d = Content(s, t), k \in DOMAIN d => d[k].value.type = type,
         NEW g, g = GetOrCreate(s, k, type, t),
         NEW n \in Nat, NEW r, r = SetSize(g, k, n),
         NEW u \in Int, t <= u
  PROVE  Binds(s, r, k, Abs!Val(type, n), Deadline(d, k), u)
<1>1. Good(g, K \cup {k}) /\ k \in DOMAIN g.map
  BY GetOrCreateFacts
<1>2. Opens(s, g, k, type, d, u)
  BY GetOrCreateSeen
<1>3. PICK v, at : v = Abs!Val(type, n) /\ at = Deadline(d, k)
  OBVIOUS
<1>4. Binds(g, r, k, Abs!Val(g.map[k].value.type, n), g.map[k].expireAt, u)
  BY <1>1, SetSizeSeen
<1>5. Binds(g, r, k, v, at, u)
  BY <1>2, <1>3, <1>4 DEF Opens
<1>6. CASE k \in DOMAIN d
  BY <1>2, <1>3, <1>5, <1>6 DEF Opens, Binds
<1>7. CASE k \notin DOMAIN d
  <2> DEFINE c == Content(s, u)
             b == Abs!Bind(c, k, Abs!Val(type, 0), Never)
  <2>1. Content(g, u) = Abs!Prune(b, u)
    BY <1>2, <1>7 DEF Opens
  <2>2. Abs!Prune(Abs!Bind(Abs!Prune(b, u), k, v, at), u) = Abs!Prune(Abs!Bind(b, k, v, at), u)
    BY PruneBind
  <2>3. Abs!Bind(b, k, v, at) = Abs!Bind(c, k, v, at)
    BY BindBind
  <2> HIDE DEF b, c
  <2>4. Abs!Prune(Abs!Bind(Content(g, u), k, v, at), u) = Abs!Prune(Abs!Bind(c, k, v, at), u)
    BY <2>1, <2>2, <2>3
  <2> QED
    BY <1>3, <1>5, <2>4 DEF Binds, c
<1> QED
  BY <1>6, <1>7

-----------------------------------------------------------------------------
(***************************************************************************)
(* Command by command.  In each lemma d is what clients see before it.     *)
(***************************************************************************)

\* What the handler finds at k in f is what clients see there.
Shows(f, k, d) ==
  /\ Has(f, k) <=> k \in DOMAIN d
  /\ Has(f, k) => f.map[k].value = d[k].value /\ f.map[k].expireAt = d[k].expireAt

\* The lookup every handler starts with.
LEMMA Looked ==
  ASSUME IInv, NEW k, NEW f, f = Find(store, k, now), NEW d, d = Content(store, now)
  PROVE  /\ Good(f, {}) /\ Content(f, now) = d /\ Shows(f, k, d)
         /\ \A u \in Int : now <= u => Content(f, u) = Content(store, u)
<1>1. Good(store, {}) /\ now \in Int
  BY Now
<1>2. /\ Good(f, {}) /\ Fresh(f, k, now)
      /\ \A u \in Int : now <= u => Content(f, u) = Content(store, u)
  BY <1>1, FindSeen
<1>3. Content(f, now) = d
  BY <1>1, <1>2
<1> QED
  BY <1>2, <1>3, FreshFacts DEF Shows

\* Looking a key up, and refusing to touch it, shows nothing.
LEMMA ReadPromised ==
  ASSUME IInv, NEW k \in Keys, Read(k)
  PROVE  Abs!Pass(now)
<1>1. PICK d, f : d = Content(store, now) /\ f = Find(store, k, now)
  OBVIOUS
<1>2. Content(f, now) = d
  BY <1>1, Looked
<1>3. Content(f, now) = Abs!Prune(d, now)
  BY <1>1, <1>2, ContentPruned
<1>4. Abs!EndsWith(now, d)
  BY <1>1, <1>3, Ends DEF Read
<1> QED
  BY <1>1, <1>4 DEF Abs!Pass

\* DEL takes the key away.
LEMMA DelKeyPromised ==
  ASSUME IInv, NEW k \in Keys, DelKey(k)
  PROVE  Abs!Forget({k})
<1>1. Good(store, {})
  BY Now
<1>2. Content(Del(store, k, now), now) = Abs!Prune(Abs!Drop(Content(store, now), {k}), now)
  BY <1>1, DelSeen
<1> QED
  BY <1>2, Ends DEF DelKey, Abs!Forget

\* EXPIRE gives a key that is seen a deadline, and only such a key.
LEMMA ExpirePromised ==
  ASSUME IInv, NEW k \in Keys, NEW at \in Time, Expire(k, at)
  PROVE  Abs!Expire(k, at)
<1>1. Good(store, {}) /\ now \in Int /\ at \in Expiry
  BY Now DEF Time, Expiry
<1>2. PICK d, r : d = Content(store, now) /\ r = SetExpireAt(store, k, at, now)
  OBVIOUS
<1>3. Content(r, now) = IF k \in DOMAIN d
                        THEN Abs!Prune(Abs!Bind(d, k, d[k].value, at), now) ELSE d
  BY <1>1, <1>2, SetExpireAtSeen
<1>4. Abs!Prune(d, now) = d
  BY <1>2, ContentPruned
<1>5. Content(r, now) = Abs!Prune(IF k \in DOMAIN d THEN Abs!Bind(d, k, d[k].value, at) ELSE d, now)
  BY <1>3, <1>4
<1>6. Abs!EndsWith(now, IF k \in DOMAIN d THEN Abs!Bind(d, k, d[k].value, at) ELSE d)
  BY <1>2, <1>5, Ends DEF Expire
<1> QED
  BY <1>2, <1>6 DEF Abs!Expire, Abs!Held

\* PERSIST takes the deadline away.
LEMMA PersistPromised ==
  ASSUME IInv, NEW k \in Keys, Persist(k)
  PROVE  Abs!Expire(k, Never)
<1>1. now \in Int /\ Never \in Expiry
  BY Now DEF Expiry
<1>2. PICK d, f : d = Content(store, now) /\ f = Find(store, k, now)
  OBVIOUS
<1>3. Good(f, {}) /\ Content(f, now) = d /\ Shows(f, k, d)
  BY <1>2, Looked
<1>4. Abs!Prune(d, now) = d
  BY <1>2, ContentPruned
<1> DEFINE g == IF k \in DOMAIN d THEN Abs!Bind(d, k, d[k].value, Never) ELSE d
<1>5. CASE Has(f, k) /\ f.map[k].expireAt # Never
  <2>1. PICK r : r = SetExpireAt(f, k, Never, now)
    OBVIOUS
  <2>2. Command(r)
    BY <1>2, <1>5, <2>1 DEF Persist
  <2>3. k \in DOMAIN d
    BY <1>3, <1>5 DEF Shows
  <2>4. Content(r, now) = Abs!Prune(Abs!Bind(d, k, d[k].value, Never), now)
    BY <1>1, <1>3, <2>1, <2>3, SetExpireAtSeen
  <2> QED
    BY <2>2, <2>3, <2>4, <1>2, Ends DEF Abs!Expire, Abs!Held
<1>6. CASE ~(Has(f, k) /\ f.map[k].expireAt # Never)
  <2>1. Command(f)
    BY <1>2, <1>6 DEF Persist
  <2>2. g = d
    <3>1. CASE k \in DOMAIN d
      <4>1. d[k].expireAt = Never
        BY <1>3, <1>6, <3>1 DEF Shows
      <4> QED
        BY <1>2, <3>1, <4>1, SameContent
    <3> QED
      BY <3>1
  <2>3. Abs!EndsWith(now, g)
    BY <1>3, <1>4, <2>1, <2>2, Ends
  <2> QED
    BY <1>2, <2>3 DEF Abs!Expire, Abs!Held
<1> QED
  BY <1>5, <1>6

\* RENAME moves value and deadline; RENAMENX spares a destination that is seen.
LEMMA RenameKeyPromised ==
  ASSUME IInv, NEW k \in Keys, NEW new \in Keys, NEW nx \in BOOLEAN, RenameKey(k, new, nx)
  PROVE  Abs!Rename(k, new, nx)
<1>1. now \in Int
  BY Now
<1>2. PICK d, f : d = Content(store, now) /\ f = Find(store, k, now)
  OBVIOUS
<1>3. Good(f, {}) /\ Content(f, now) = d /\ Shows(f, k, d)
  BY <1>2, Looked
<1>4. Abs!Prune(d, now) = d
  BY <1>2, ContentPruned
<1>5. PICK g : g = IF nx /\ Has(f, k) /\ k # new THEN Find(f, new, now) ELSE f
  OBVIOUS
<1>6. /\ Good(g, {}) /\ Content(g, now) = d
      /\ nx /\ Has(f, k) /\ k # new => (Has(g, new) <=> new \in DOMAIN d)
  <2>1. CASE nx /\ Has(f, k) /\ k # new
    <3>1. Good(g, {}) /\ Content(g, now) = d /\ Fresh(g, new, now)
      BY <1>1, <1>3, <1>5, <2>1, FindSeen
    <3> QED
      BY <3>1, FreshFacts
  <2> QED
    BY <1>3, <1>5, <2>1
<1> DEFINE c == IF k \notin DOMAIN d \/ (nx /\ new \in DOMAIN d) THEN d
                ELSE Abs!Bind(Abs!Drop(d, {k}), new, d[k].value, d[k].expireAt)
<1>7. ASSUME Abs!EndsWith(now, c)
      PROVE  Abs!Rename(k, new, nx)
  BY <1>2, <1>7 DEF Abs!Rename, Abs!Held
<1>8. PICK r : r = Rename(g, k, new, now)
  OBVIOUS
<1>9. Content(r, now) =
        IF k \in DOMAIN d
        THEN Abs!Prune(Abs!Bind(Abs!Drop(d, {k}), new, d[k].value, d[k].expireAt), now)
        ELSE d
  BY <1>1, <1>6, <1>8, RenameSeen
<1>10. CASE nx /\ k # new /\ Has(g, new)
  <2>1. Command(g)
    BY <1>2, <1>5, <1>10 DEF RenameKey
  <2>2. c = d
    BY <1>3, <1>6, <1>10 DEF Shows
  <2> QED
    BY <1>4, <1>6, <1>7, <2>1, <2>2, Ends
<1>11. CASE ~(nx /\ k # new /\ Has(g, new))
  <2>1. Command(r)
    BY <1>2, <1>5, <1>8, <1>11 DEF RenameKey
  <2>2. Content(r, now) = Abs!Prune(c, now)
    <3>1. CASE k \notin DOMAIN d
      BY <1>4, <1>9, <3>1
    <3>2. CASE k \in DOMAIN d /\ nx /\ new \in DOMAIN d
      <4>1. k = new
        BY <1>3, <1>6, <1>11, <3>2 DEF Shows
      <4>2. Abs!Bind(d, k, d[k].value, d[k].expireAt) = d
        BY <1>2, <3>2, SameContent
      <4>3. Abs!Bind(Abs!Drop(d, {k}), new, d[k].value, d[k].expireAt) = d
        BY <4>1, <4>2, BindDrop
      <4> QED
        BY <1>9, <3>2, <4>3
    <3>3. CASE k \in DOMAIN d /\ ~(nx /\ new \in DOMAIN d)
      BY <1>9, <3>3
    <3> QED
      BY <3>1, <3>2, <3>3
  <2> HIDE DEF c
  <2> QED
    BY <1>7, <2>1, <2>2, Ends
<1> QED
  BY <1>10, <1>11

\* COPY sees the destination as it is when the clock is read again, and the source
\* as it was before.
LEMMA CopyPromised ==
  ASSUME IInv, NEW k \in Keys, NEW dest \in Keys, NEW replace \in BOOLEAN, NEW t2 \in Later,
         Copy(k, dest, replace, t2)
  PROVE  Abs!Copy(k, dest, replace, t2)
<1>1. now \in Int /\ t2 \in Int /\ now <= t2 /\ Good(store, {})
  BY Now DEF Later
<1>2. PICK d, f : d = Content(store, now) /\ f = Find(store, k, now)
  OBVIOUS
<1>3. /\ Good(f, {}) /\ Content(f, now) = d /\ Shows(f, k, d)
      /\ Content(f, t2) = Content(store, t2)
  BY <1>1, <1>2, Looked
<1>4. Content(store, t2) = Abs!Prune(d, t2)
  BY <1>1, <1>2, ContentLater
<1>5. PICK g : g = IF replace \/ ~Has(f, k) THEN f ELSE Find(f, dest, t2)
  OBVIOUS
<1>6. /\ Good(g, {}) /\ Content(g, t2) = Abs!Prune(d, t2)
      /\ ~replace /\ Has(f, k) => (Has(g, dest) <=> dest \in DOMAIN Abs!Prune(d, t2))
  <2>1. CASE ~replace /\ Has(f, k)
    <3>1. Good(g, {}) /\ Content(g, t2) = Content(f, t2) /\ Fresh(g, dest, t2)
      BY <1>1, <1>3, <1>5, <2>1, FindSeen
    <3> QED
      BY <1>3, <1>4, <3>1, FreshFacts
  <2> QED
    BY <1>3, <1>4, <1>5, <2>1
<1> DEFINE free == replace \/ ~Has(g, dest)
           ok == Has(f, k) /\ free => Has(g, k)
           w == MarkDirty(InsertEntry(g, dest, g.map[k].value, g.map[k].expireAt))
           c == IF k \in DOMAIN d /\ (replace \/ dest \notin DOMAIN Abs!Prune(d, t2))
                THEN Abs!Bind(d, dest, d[k].value, d[k].expireAt) ELSE d
<1>7. CommandUntil(t2, ok, IF Has(f, k) /\ free THEN w ELSE g)
  BY <1>2, <1>5 DEF Copy
<1>8. ASSUME Abs!EndsWith(t2, c)
      PROVE  Abs!Copy(k, dest, replace, t2)
  BY <1>2, <1>8 DEF Abs!Copy, Abs!Held
<1>9. CASE ~(Has(f, k) /\ free)
  <2>1. c = d
    BY <1>3, <1>6, <1>9 DEF Shows
  <2>2. CommandUntil(t2, TRUE, g)
    BY <1>7, <1>9
  <2> QED
    BY <1>6, <1>8, <2>1, <2>2, EndsUntil
<1>10. CASE Has(f, k) /\ free
  <2>1. k \in DOMAIN d /\ c = Abs!Bind(d, dest, d[k].value, d[k].expireAt)
    BY <1>3, <1>6, <1>10 DEF Shows
  <2>2. CASE Has(g, k)
    <3>1. PICK v, at : v = g.map[k].value /\ at = g.map[k].expireAt
      OBVIOUS
    <3>2. v = d[k].value /\ at = d[k].expireAt
      <4>1. g = f \/ g = Find(f, dest, t2)
        BY <1>5
      <4>2. g.map[k].value = f.map[k].value /\ g.map[k].expireAt = f.map[k].expireAt
        BY <1>3, <2>2, <4>1, FindKeeps
      <4> QED
        BY <1>3, <1>10, <3>1, <4>2 DEF Shows
    <3>3. v \in Value /\ at \in Expiry
      BY <1>6, <2>2, <3>1, GoodFields DEF Has
    <3>4. PICK r : r = MarkDirty(InsertEntry(g, dest, v, at))
      OBVIOUS
    <3>5. Contents(r) = Put(Contents(g), dest, [value |-> v, expireAt |-> at])
      BY <1>6, <3>3, <3>4, InsertContents
    <3>6. Content(r, t2) = Abs!Prune(Abs!Bind(Content(g, t2), dest, v, at), t2)
      BY <3>5, BindSeen
    <3>7. Content(r, t2) = Abs!Prune(Abs!Bind(d, dest, v, at), t2)
      BY <1>6, <3>6, PruneBind
    <3>8. CommandUntil(t2, TRUE, r)
      BY <1>7, <1>10, <2>2, <3>1, <3>4
    <3>9. Abs!EndsWith(t2, c)
      BY <2>1, <3>2, <3>7, <3>8, EndsUntil
    <3> QED
      BY <1>8, <3>9
  <2>3. CASE ~Has(g, k)
    <3>1. dest = k
      <4>1. g = Find(f, dest, t2)
        BY <1>5, <1>10, <2>3
      <4>2. DOMAIN f.map \ {dest} \subseteq DOMAIN g.map
        BY <1>3, <4>1, FindKeeps
      <4> QED
        BY <1>10, <2>3, <4>2 DEF Has
    <3>2. c = d
      BY <1>2, <2>1, <3>1, SameContent
    <3>3. CommandUntil(t2, FALSE, w)
      BY <1>7, <1>10, <2>3
    <3>4. Abs!EndsWith(t2, c)
      BY <1>4, <3>2, <3>3, EndsUntil
    <3> QED
      BY <1>8, <3>4
  <2> QED
    BY <2>2, <2>3
<1> QED
  BY <1>9, <1>10

\* A string is what the promised keyspace calls one; a size is a number.
LEMMA StringIs ==
  ASSUME NEW n \in Sizes
  PROVE  /\ n \in Nat /\ String(n) \in Value /\ ~IsEmptyCollection(String(n))
         /\ Abs!Val("string", n) = String(n)
<1>1. n \in Nat
  BY MaxLenAssumption DEF Sizes
<1> QED
  BY <1>1, StringFacts DEF Abs!Val

\* What the promised commands ask, in terms of what the lookup found.
LEMMA Asked ==
  ASSUME NEW k, NEW f, NEW d, d = Content(store, now), Shows(f, k, d)
  PROVE  /\ Abs!Held(k) <=> Has(f, k)
         /\ Abs!Held(k) <=> k \in DOMAIN d
         /\ \A type : Abs!HoldsOther(k, type) <=> ~TypeAllows(f, k, type)
         /\ Abs!ExpiryOf(k) = Deadline(d, k)
         /\ Abs!SizeOf(k) = Elements(d, k)
<1>1. Abs!Held(k) <=> k \in DOMAIN d
  BY DEF Abs!Held
<1>2. \A type : Abs!HoldsOther(k, type) <=> ~TypeAllows(f, k, type)
  BY DEF Abs!Held, Abs!HoldsOther, Shows, TypeAllows
<1>3. Abs!ExpiryOf(k) = Deadline(d, k) /\ Abs!SizeOf(k) = Elements(d, k)
  BY <1>1 DEF Abs!ExpiryOf, Abs!SizeOf, Abs!Never, Never, Deadline, Elements
<1> QED
  BY <1>1, <1>2, <1>3 DEF Shows

\* A second lookup, at t2: what clients see then is what they saw, without what
\* has become due.
LEMMA LookedAgain ==
  ASSUME IInv, NEW k, NEW f, f = Find(store, k, now), NEW d, d = Content(store, now),
         NEW t2 \in Later
  PROVE  /\ now \in Int /\ t2 \in Int /\ now <= t2
         /\ Good(f, {}) /\ Shows(f, k, d)
         /\ Content(f, t2) = Abs!Prune(d, t2)
<1>1. now \in Int /\ t2 \in Int /\ now <= t2 /\ Good(store, {})
  BY Now DEF Later
<1>2. Good(f, {}) /\ Shows(f, k, d) /\ Content(f, t2) = Content(store, t2)
  BY <1>1, Looked
<1>3. Content(store, t2) = Abs!Prune(d, t2)
  BY <1>1, ContentLater
<1> QED
  BY <1>1, <1>2, <1>3

\* What it finds of a key that lapses, and of one that does not.
LEMMA Lapsed ==
  ASSUME NEW k, NEW d, d = Content(store, now), NEW t, NEW e, e = Abs!Prune(d, t)
  PROVE  /\ Abs!Lapses(k, t) => /\ k \in DOMAIN d /\ k \notin DOMAIN e
                                /\ Deadline(e, k) = Never /\ Elements(e, k) = 0
         /\ ~Abs!Lapses(k, t) => /\ k \in DOMAIN e <=> k \in DOMAIN d
                                 /\ Deadline(e, k) = Deadline(d, k)
                                 /\ Elements(e, k) = Elements(d, k)
         /\ \A type : (k \in DOMAIN d => d[k].value.type = type)
                        => (k \in DOMAIN e => e[k].value.type = type)
<1>1. /\ k \in DOMAIN e <=> k \in DOMAIN d /\ Abs!Alive(d[k], t)
      /\ k \in DOMAIN e => e[k] = d[k]
  BY DEF Abs!Prune
<1>2. Abs!Lapses(k, t) <=> k \in DOMAIN d /\ ~Abs!Alive(d[k], t)
  BY DEF Abs!Lapses, Abs!Held
<1> QED
  BY <1>1, <1>2 DEF Deadline, Elements

\* Nothing that is seen has lapsed yet.
LEMMA NoLapse ==
  ASSUME NEW k
  PROVE  ~Abs!Lapses(k, now)
<1>1. k \in DOMAIN Content(store, now) => Abs!Alive(Content(store, now)[k], now)
  BY ContentFacts DEF Abs!Alive, Abs!Never, IsLive, Never
<1> QED
  BY <1>1 DEF Abs!Lapses, Abs!Held

\* SET: NX and XX go by what is seen, and KEEPTTL does not revive a deadline that
\* has passed, also when it passes in between.
LEMMA SetPromised ==
  ASSUME IInv, NEW k \in Keys, NEW n \in Sizes, NEW cond \in {"any", "nx", "xx"},
         NEW ex \in Time \cup {Never, Keep}, NEW t2 \in Later, Set(k, n, cond, ex, t2)
  PROVE  IF ex = Keep /\ cond # "nx" /\ Abs!Lapses(k, t2)
         THEN Abs!Set(k, n, "any", Never, t2)
         ELSE Abs!Set(k, n, cond, ex, t2)
<1>2. PICK d, f : d = Content(store, now) /\ f = Find(store, k, now)
  OBVIOUS
<1>1. PICK e : e = Abs!Prune(d, t2)
  OBVIOUS
<1>3. t2 \in Int /\ Good(f, {}) /\ Content(f, t2) = e /\ Shows(f, k, d)
  BY <1>1, <1>2, LookedAgain
<1>4. /\ Abs!Lapses(k, t2) => k \in DOMAIN d /\ Deadline(e, k) = Never
      /\ ~Abs!Lapses(k, t2) => Deadline(e, k) = Deadline(d, k)
  BY <1>1, <1>2, Lapsed
<1>5. n \in Nat /\ String(n) \in Value /\ ~IsEmptyCollection(String(n)) /\ Abs!Val("string", n) = String(n)
  BY StringIs
<1>6. PICK refused \in BOOLEAN : refused = IF Has(f, k) THEN cond = "nx" ELSE cond = "xx"
  OBVIOUS
<1>7. PICK at : at = IF ex = Keep THEN Deadline(e, k) ELSE ex
  OBVIOUS
<1> DEFINE Goal == IF ex = Keep /\ cond # "nx" /\ Abs!Lapses(k, t2)
                   THEN Abs!Set(k, n, "any", Never, t2)
                   ELSE Abs!Set(k, n, cond, ex, t2)
<1> SUFFICES Goal
  OBVIOUS
<1>8. ASSUME Abs!EndsWith(t2, IF refused THEN d ELSE Abs!Bind(d, k, String(n), at))
      PROVE  Goal
  <2>1. /\ Abs!Held(k) <=> Has(f, k)
        /\ Abs!Held(k) <=> k \in DOMAIN d
        /\ Abs!ExpiryOf(k) = Deadline(d, k)
    BY <1>2, <1>3, Asked
  <2>2. Keep = Abs!Keep /\ Never # Keep
    BY DEF Keep, Abs!Keep, Never
  <2>3. CASE ex = Keep /\ cond # "nx" /\ Abs!Lapses(k, t2)
    <3>1. ~refused /\ at = Never /\ Abs!Held(k)
      BY <1>4, <1>6, <1>7, <2>1, <2>3
    <3>2. Abs!EndsWith(t2, Abs!Bind(d, k, Abs!Val("string", n), Never))
      BY <1>5, <1>8, <3>1
    <3>3. Abs!Set(k, n, "any", Never, t2)
      BY <1>2, <2>2, <3>1, <3>2 DEF Abs!Set
    <3> QED
      BY <2>3, <3>3
  <2>4. CASE ~(ex = Keep /\ cond # "nx" /\ Abs!Lapses(k, t2))
    <3>1. ~refused => at = IF ex = Keep THEN Deadline(d, k) ELSE ex
      BY <1>4, <1>6, <1>7, <2>1, <2>4
    <3>2. Abs!Set(k, n, cond, ex, t2)
      BY <1>2, <1>5, <1>6, <1>8, <2>1, <2>2, <3>1 DEF Abs!Set
    <3> QED
      BY <2>4, <3>2
  <2> QED
    BY <2>3, <2>4
<1> HIDE DEF Goal
<1>9. CASE refused
  <2>1. CommandUntil(t2, TRUE, f)
    BY <1>2, <1>6, <1>9 DEF Set
  <2>2. Abs!EndsWith(t2, d)
    BY <1>1, <1>3, <2>1, EndsUntil
  <2> QED
    BY <1>8, <1>9, <2>2
<1>10. ASSUME NEW r, ~refused, CommandUntil(t2, TRUE, r),
              Content(r, t2) = Abs!Prune(Abs!Bind(d, k, String(n), at), t2)
       PROVE  Goal
  <2>1. Abs!EndsWith(t2, Abs!Bind(d, k, String(n), at))
    BY <1>10, EndsUntil
  <2> QED
    BY <1>8, <1>10, <2>1
<1>11. CASE ~refused /\ ex = Keep
  <2>1. ex \notin Time
    BY <1>11 DEF Time, Keep
  <2>2. PICK r : r = UpdateString(f, k, n, t2)
    OBVIOUS
  <2>3. CommandUntil(t2, TRUE, r)
    BY <1>2, <1>6, <1>11, <2>1, <2>2 DEF Set
  <2>4. Content(r, t2) = Abs!Prune(Abs!Bind(d, k, String(n), at), t2)
    <3>1. Content(r, t2) = Abs!Prune(Abs!Bind(e, k, String(n), at), t2)
      BY <1>3, <1>5, <1>7, <1>11, <2>2, UpdateStringSeen
    <3> QED
      BY <1>1, <3>1, PruneBind
  <2> QED
    BY <1>10, <1>11, <2>3, <2>4
<1>12. CASE ~refused /\ ex # Keep
  <2>1. PICK g : g = Install(f, k, String(n))
    OBVIOUS
  <2>2. Binds(f, g, k, String(n), Never, t2)
    BY <1>3, <1>5, <2>1, InstallSeen
  <2>3. Good(g, {})
    BY <1>3, <1>5, <2>1, InstallFacts
  <2>4. CASE ex \in Time
    <3>1. PICK r : r = SetExpireAt(g, k, ex, t2)
      OBVIOUS
    <3>2. CommandUntil(t2, TRUE, r)
      BY <1>2, <1>6, <1>12, <2>1, <2>4, <3>1 DEF Set
    <3>3. k \in DOMAIN Content(g, t2) /\ Content(g, t2)[k].value = String(n)
      BY <2>2, ContentFacts DEF Binds, IsLive
    <3>4. ex \in Expiry
      BY <2>4 DEF Time, Expiry
    <3>5. Content(r, t2) = Abs!Prune(Abs!Bind(Content(g, t2), k, String(n), ex), t2)
      BY <1>3, <2>3, <3>1, <3>3, <3>4, SetExpireAtSeen
    <3>6. Content(g, t2) = Abs!Prune(Abs!Bind(d, k, String(n), Never), t2)
      BY <1>1, <1>3, <2>2, PruneBind DEF Binds
    <3>7. Content(r, t2) =
            Abs!Prune(Abs!Bind(Abs!Bind(d, k, String(n), Never), k, String(n), ex), t2)
      BY <3>5, <3>6, PruneBind
    <3>8. Content(r, t2) = Abs!Prune(Abs!Bind(d, k, String(n), ex), t2)
      BY <3>7, BindBind
    <3> QED
      BY <1>7, <1>10, <1>12, <3>2, <3>8
  <2>5. CASE ex \notin Time
    <3>1. ex = Never
      BY <1>12, <2>5
    <3>2. CommandUntil(t2, TRUE, g)
      BY <1>2, <1>6, <1>12, <2>1, <2>5 DEF Set
    <3>3. Content(g, t2) = Abs!Prune(Abs!Bind(d, k, String(n), at), t2)
      BY <1>1, <1>3, <1>7, <1>12, <2>2, <3>1, PruneBind DEF Binds
    <3> QED
      BY <1>10, <1>12, <3>2, <3>3
  <2> QED
    BY <2>4, <2>5
<1> QED
  BY <1>9, <1>11, <1>12

\* MSET writes all its keys or, with NX, none.
LEMMA MSetPromised ==
  ASSUME IInv, NEW k1 \in Keys, NEW k2 \in Keys, NEW n \in Sizes, NEW nx \in BOOLEAN,
         MSet(k1, k2, n, nx)
  PROVE  Abs!MSet(k1, k2, n, nx)
<1>1. now \in Int /\ Good(store, {})
  BY Now
<1>2. PICK d, f : d = Content(store, now) /\ f = Find(store, k1, now)
  OBVIOUS
<1>4. Abs!Prune(d, now) = d
  BY <1>2, ContentPruned
<1>5. n \in Nat /\ String(n) \in Value /\ ~IsEmptyCollection(String(n)) /\ Abs!Val("string", n) = String(n)
  BY StringIs
<1>6. PICK g : g = IF nx THEN Find(f, k2, now) ELSE store
  OBVIOUS
<1>7. /\ Good(g, {}) /\ Content(g, now) = d
      /\ nx => (Has(g, k1) <=> k1 \in DOMAIN d) /\ (Has(g, k2) <=> k2 \in DOMAIN d)
  <2>1. CASE nx
    <3>1. Good(f, {}) /\ Fresh(f, k1, now) /\ Content(f, now) = d
      BY <1>1, <1>2, FindSeen
    <3>2. Good(g, {}) /\ Fresh(g, k1, now) /\ Fresh(g, k2, now) /\ Content(g, now) = d
      BY <1>1, <1>6, <2>1, <3>1, FindSeen
    <3> QED
      BY <3>2, FreshFacts
  <2> QED
    BY <1>1, <1>2, <1>6, <2>1
<1> DEFINE c == IF nx /\ (k1 \in DOMAIN d \/ k2 \in DOMAIN d) THEN d
                ELSE Abs!Bind(Abs!Bind(d, k1, String(n), Never), k2, String(n), Never)
<1>8. ASSUME Abs!EndsWith(now, c)
      PROVE  Abs!MSet(k1, k2, n, nx)
  <2>1. Abs!Never = Never
    BY DEF Abs!Never, Never
  <2> QED
    BY <1>2, <1>5, <1>8, <2>1 DEF Abs!MSet, Abs!Held
<1>9. CASE nx /\ (Has(g, k1) \/ Has(g, k2))
  <2>1. Command(g)
    BY <1>2, <1>6, <1>9 DEF MSet
  <2>2. c = d
    BY <1>7, <1>9
  <2> QED
    BY <1>4, <1>7, <1>8, <2>1, <2>2, Ends
<1>10. CASE ~(nx /\ (Has(g, k1) \/ Has(g, k2)))
  <2>1. PICK u : u = Install(g, k1, String(n))
    OBVIOUS
  <2>2. PICK r : r = Install(u, k2, String(n))
    OBVIOUS
  <2>3. Command(r)
    BY <1>2, <1>6, <1>10, <2>1, <2>2 DEF MSet
  <2>4. Good(u, {}) /\ Binds(g, u, k1, String(n), Never, now)
    BY <1>5, <1>7, <2>1, InstallFacts, InstallSeen
  <2>5. Binds(u, r, k2, String(n), Never, now)
    BY <1>5, <2>2, <2>4, InstallSeen
  <2>6. Content(u, now) = Abs!Prune(Abs!Bind(d, k1, String(n), Never), now)
    BY <1>7, <2>4 DEF Binds
  <2>7. Content(r, now) = Abs!Prune(Abs!Bind(Content(u, now), k2, String(n), Never), now)
    BY <2>5 DEF Binds
  <2>8. Content(r, now) =
          Abs!Prune(Abs!Bind(Abs!Bind(d, k1, String(n), Never), k2, String(n), Never), now)
    BY <2>6, <2>7, PruneBind
  <2>9. c = Abs!Bind(Abs!Bind(d, k1, String(n), Never), k2, String(n), Never)
    BY <1>7, <1>10
  <2> QED
    BY <1>8, <2>3, <2>8, <2>9, Ends
<1> QED
  BY <1>9, <1>10

\* APPEND, INCR and the like start from the value seen, and keep its deadline;
\* if that passes in between, the result stays for good.
LEMMA UpdatePromised ==
  ASSUME IInv, NEW k \in Keys, NEW m \in Deltas, NEW t2 \in Later, Update(k, m, t2)
  PROVE  /\ IF Abs!Lapses(k, t2) /\ ~Abs!HoldsOther(k, "string")
            THEN Abs!Set(k, Abs!SizeOf(k) + m, "any", Never, t2)
            ELSE Abs!Update(k, m, t2)
         /\ ~Abs!HoldsOther(k, "string") => Abs!SizeOf(k) + m \in Sizes
<1>2. PICK d, f : d = Content(store, now) /\ f = Find(store, k, now)
  OBVIOUS
<1>1. PICK e : e = Abs!Prune(d, t2)
  OBVIOUS
<1>3. t2 \in Int /\ Good(f, {}) /\ Content(f, t2) = e /\ Shows(f, k, d)
  BY <1>1, <1>2, LookedAgain
<1>4. /\ Abs!Lapses(k, t2) => k \in DOMAIN d /\ Deadline(e, k) = Never
      /\ ~Abs!Lapses(k, t2) => Deadline(e, k) = Deadline(d, k)
  BY <1>1, <1>2, Lapsed
<1>5. PICK n : n = Elements(d, k) + m
  OBVIOUS
<1>6. /\ Abs!HoldsOther(k, "string") <=> ~TypeAllows(f, k, "string")
      /\ Abs!ExpiryOf(k) = Deadline(d, k) /\ Abs!SizeOf(k) + m = n
      /\ Abs!Held(k) <=> k \in DOMAIN d
  BY <1>2, <1>3, <1>5, Asked
<1>7. CASE TypeAllows(f, k, "string")
  <2>0. n = (IF Has(f, k) THEN f.map[k].value.size ELSE 0) + m
    BY <1>3, <1>5 DEF Shows, Elements
  <2>1. PICK r : r = UpdateString(f, k, n, t2)
    OBVIOUS
  <2>2. CommandUntil(t2, TRUE, r) /\ n \in Sizes
    BY <1>2, <1>7, <2>0, <2>1 DEF Update, Sizes
  <2>3. n \in Nat /\ Abs!Val("string", n) = String(n)
    BY <2>2, StringIs
  <2>4. Content(r, t2) = Abs!Prune(Abs!Bind(e, k, String(n), Deadline(e, k)), t2)
    BY <1>3, <2>1, <2>3, UpdateStringSeen
  <2>5. Content(r, t2) = Abs!Prune(Abs!Bind(d, k, String(n), Deadline(e, k)), t2)
    BY <1>1, <2>4, PruneBind
  <2>6. Abs!EndsWith(t2, Abs!Bind(d, k, String(n), Deadline(e, k)))
    BY <2>2, <2>5, EndsUntil
  <2>7. CASE Abs!Lapses(k, t2)
    <3>1. Abs!Keep # Never
      BY DEF Abs!Keep, Never
    <3>2. Abs!EndsWith(t2, Abs!Bind(d, k, Abs!Val("string", n), Never)) /\ Abs!Held(k)
      BY <1>4, <1>6, <2>3, <2>6, <2>7
    <3>3. Abs!Set(k, n, "any", Never, t2)
      BY <1>2, <3>1, <3>2 DEF Abs!Set
    <3> QED
      BY <1>6, <1>7, <2>2, <2>7, <3>3
  <2>8. CASE ~Abs!Lapses(k, t2)
    <3>1. Abs!EndsWith(t2, Abs!Bind(d, k, Abs!Val("string", Abs!SizeOf(k) + m), Abs!ExpiryOf(k)))
      BY <1>4, <1>6, <2>3, <2>6, <2>8
    <3>2. Abs!Update(k, m, t2)
      BY <1>2, <1>6, <1>7, <3>1 DEF Abs!Update
    <3> QED
      BY <1>6, <2>2, <2>8, <3>2
  <2> QED
    BY <2>7, <2>8
<1>8. CASE ~TypeAllows(f, k, "string")
  <2>1. CommandUntil(t2, TRUE, f)
    BY <1>2, <1>8 DEF Update
  <2>2. Abs!EndsWith(t2, d)
    BY <1>1, <1>3, <2>1, EndsUntil
  <2>3. Abs!Update(k, m, t2)
    BY <1>2, <1>6, <1>8, <2>2 DEF Abs!Update
  <2> QED
    BY <1>6, <1>8, <2>3
<1> QED
  BY <1>7, <1>8

\* GETDEL takes away what it returns, a string only.
LEMMA GetDelPromised ==
  ASSUME IInv, NEW k \in Keys, GetDel(k)
  PROVE  Abs!GetDel(k)
<1>2. PICK d, f : d = Content(store, now) /\ f = Find(store, k, now)
  OBVIOUS
<1>3. Good(f, {}) /\ Content(f, now) = d /\ Shows(f, k, d)
  BY <1>2, Looked
<1>4. Abs!Prune(d, now) = d
  BY <1>2, ContentPruned
<1>6. Abs!HoldsOther(k, "string") <=> ~TypeAllows(f, k, "string")
  BY <1>2, <1>3, Asked
<1>7. CASE TypeAllows(f, k, "string")
  <2>1. PICK r : r = Del(f, k, now)
    OBVIOUS
  <2>2. Command(r)
    BY <1>2, <1>7, <2>1 DEF GetDel
  <2>3. Content(r, now) = Abs!Prune(Abs!Drop(d, {k}), now)
    BY <1>3, <2>1, DelSeen
  <2>4. Abs!EndsWith(now, Abs!Drop(d, {k}))
    BY <2>2, <2>3, Ends
  <2> QED
    BY <1>2, <1>6, <1>7, <2>4 DEF Abs!GetDel
<1>8. CASE ~TypeAllows(f, k, "string")
  <2>1. Command(f)
    BY <1>2, <1>8 DEF GetDel
  <2>2. Abs!EndsWith(now, d)
    BY <1>3, <1>4, <2>1, Ends
  <2> QED
    BY <1>2, <1>6, <1>8, <2>2 DEF Abs!GetDel
<1> QED
  BY <1>7, <1>8

\* GETEX moves the deadline of a string that is seen.
LEMMA GetExPromised ==
  ASSUME IInv, NEW k \in Keys, NEW ex \in Time \cup {Never, Keep}, GetEx(k, ex)
  PROVE  Abs!GetEx(k, ex)
<1>1. now \in Int
  BY Now
<1>2. PICK d, f : d = Content(store, now) /\ f = Find(store, k, now)
  OBVIOUS
<1>3. Good(f, {}) /\ Content(f, now) = d /\ Shows(f, k, d)
  BY <1>2, Looked
<1>4. Abs!Prune(d, now) = d
  BY <1>2, ContentPruned
<1>5. Abs!Keep = Keep
  BY DEF Abs!Keep, Keep
<1> DEFINE asks == k \in DOMAIN d /\ d[k].value.type = "string" /\ ex # Keep
<1>6. (Has(f, k) /\ TypeAllows(f, k, "string") /\ ex # Keep) <=> asks
  BY <1>3 DEF Shows, TypeAllows
<1>7. CASE asks
  <2>1. PICK r : r = SetExpireAt(f, k, ex, now)
    OBVIOUS
  <2>2. Command(r)
    BY <1>2, <1>6, <1>7, <2>1 DEF GetEx
  <2>3. ex \in Expiry
    BY <1>7 DEF Time, Expiry
  <2>4. Content(r, now) = Abs!Prune(Abs!Bind(d, k, d[k].value, ex), now)
    BY <1>1, <1>3, <1>7, <2>1, <2>3, SetExpireAtSeen
  <2>5. Abs!EndsWith(now, Abs!Bind(d, k, d[k].value, ex))
    BY <2>2, <2>4, Ends
  <2> QED
    BY <1>2, <1>5, <1>7, <2>5 DEF Abs!GetEx, Abs!Held
<1>8. CASE ~asks
  <2>1. Command(f)
    BY <1>2, <1>6, <1>8 DEF GetEx
  <2>2. Abs!EndsWith(now, d)
    BY <1>3, <1>4, <2>1, Ends
  <2> QED
    BY <1>2, <1>5, <1>8, <2>2 DEF Abs!GetEx, Abs!Held
<1> QED
  BY <1>7, <1>8

\* A push or insertion adds to the collection seen when it is looked up the
\* second time, or to a new one.
LEMMA AddPromised ==
  ASSUME IInv, NEW k \in Keys, NEW type \in Collections, NEW m \in Sizes, NEW t2 \in Later,
         Add(k, type, m, t2)
  PROVE  Abs!Add(k, type, m, t2)
<1>2. PICK d, f : d = Content(store, now) /\ f = Find(store, k, now)
  OBVIOUS
<1>1. PICK e : e = Abs!Prune(d, t2)
  OBVIOUS
<1>3. t2 \in Int /\ t2 <= t2 /\ Good(f, {}) /\ Content(f, t2) = e /\ Shows(f, k, d)
  BY <1>1, <1>2, LookedAgain
<1>4. /\ Abs!Lapses(k, t2) => Deadline(e, k) = Never /\ Elements(e, k) = 0
      /\ ~Abs!Lapses(k, t2) => Deadline(e, k) = Deadline(d, k) /\ Elements(e, k) = Elements(d, k)
      /\ (k \in DOMAIN d => d[k].value.type = type) => (k \in DOMAIN e => e[k].value.type = type)
  BY <1>1, <1>2, Lapsed
<1>6. /\ Abs!HoldsOther(k, type) <=> ~TypeAllows(f, k, type)
      /\ Abs!ExpiryOf(k) = Deadline(d, k) /\ Abs!SizeOf(k) = Elements(d, k)
  BY <1>2, <1>3, Asked
<1>7. CASE TypeAllows(f, k, type)
  <2>1. k \in DOMAIN e => e[k].value.type = type
    BY <1>3, <1>4, <1>7 DEF Shows, TypeAllows
  <2>2. PICK g : g = GetOrCreate(f, k, type, t2)
    OBVIOUS
  <2>3. Opens(f, g, k, type, e, t2)
    BY <1>3, <2>1, <2>2, GetOrCreateSeen
  <2>4. PICK n, at : n = Elements(e, k) + m /\ at = Deadline(e, k)
    OBVIOUS
  <2>5. n = g.map[k].value.size + m
    BY <2>3, <2>4 DEF Opens
  <2>6. PICK r : r = SetSize(g, k, n)
    OBVIOUS
  <2>7. n \in 1 .. MaxLen /\ CommandUntil(t2, TRUE, r)
    BY <1>2, <1>7, <2>2, <2>5, <2>6 DEF Add
  <2>8. n \in Nat
    BY <2>7
  <2>9. Binds(f, r, k, Abs!Val(type, n), at, t2)
    BY <1>3, <2>1, <2>2, <2>4, <2>6, <2>8, ResizeSeen
  <2>10. Content(r, t2) = Abs!Prune(Abs!Bind(d, k, Abs!Val(type, n), at), t2)
    BY <1>1, <1>3, <2>9, PruneBind DEF Binds
  <2>11. Abs!EndsWith(t2, Abs!Bind(d, k, Abs!Val(type, n), at))
    BY <2>7, <2>10, EndsUntil
  <2>12. CASE Abs!Lapses(k, t2)
    <3>1. n = m /\ at = Abs!Never
      BY <1>4, <2>4, <2>12 DEF Sizes, Never, Abs!Never
    <3> QED
      BY <1>2, <1>6, <1>7, <2>11, <2>12, <3>1 DEF Abs!Add
  <2>13. CASE ~Abs!Lapses(k, t2)
    <3>1. n = Abs!SizeOf(k) + m /\ at = Abs!ExpiryOf(k)
      BY <1>4, <1>6, <2>4, <2>13
    <3> QED
      BY <1>2, <1>6, <1>7, <2>11, <2>13, <3>1 DEF Abs!Add
  <2> QED
    BY <2>12, <2>13
<1>8. CASE ~TypeAllows(f, k, type)
  <2>1. CommandUntil(t2, TRUE, f)
    BY <1>2, <1>8 DEF Add
  <2>2. Abs!EndsWith(t2, d)
    BY <1>1, <1>3, <2>1, EndsUntil
  <2> QED
    BY <1>2, <1>6, <1>8, <2>2 DEF Abs!Add
<1> QED
  BY <1>7, <1>8

\* LPUSHX is a push to a list that is seen, also if it lapses in between, and
\* nothing otherwise.
LEMMA AddXPromised ==
  ASSUME IInv, NEW k \in Keys, NEW type \in Collections, NEW m \in Sizes, NEW t2 \in Later,
         AddX(k, type, m, t2)
  PROVE  IF Abs!Lapses(k, t2) THEN Abs!Add(k, type, m, t2) ELSE Abs!AddX(k, type, m, t2)
<1>1. PICK d, f : d = Content(store, now) /\ f = Find(store, k, now)
  OBVIOUS
<1>2. PICK e : e = Abs!Prune(d, t2)
  OBVIOUS
<1>3. Content(f, t2) = e /\ Shows(f, k, d)
  BY <1>1, <1>2, LookedAgain
<1>4. Abs!Held(k) <=> Has(f, k)
  BY <1>1, <1>3, Asked
<1>5. CASE Has(f, k)
  <2>1. Abs!Add(k, type, m, t2)
    BY <1>1, <1>5, AddPromised DEF AddX
  <2> QED
    BY <1>4, <1>5, <2>1 DEF Abs!Add, Abs!AddX
<1>6. CASE ~Has(f, k)
  <2>1. CommandUntil(t2, TRUE, f)
    BY <1>1, <1>6 DEF AddX
  <2>2. Abs!EndsWith(t2, d)
    BY <1>2, <1>3, <2>1, EndsUntil
  <2> QED
    BY <1>1, <1>4, <1>6, <2>2 DEF Abs!AddX, Abs!Lapses
<1> QED
  BY <1>5, <1>6

\* HSETNX creates the hash first; it never leaves it empty.
LEMMA HSetNXPromised ==
  ASSUME IInv, NEW k \in Keys, NEW type \in Collections, NEW present \in BOOLEAN,
         HSetNX(k, type, present)
  PROVE  Abs!Add(k, type, IF present THEN 0 ELSE 1, now)
<1>1. now \in Int /\ now <= now
  BY Now
<1>2. PICK d, f : d = Content(store, now) /\ f = Find(store, k, now)
  OBVIOUS
<1>3. Good(f, {}) /\ Content(f, now) = d /\ Shows(f, k, d)
  BY <1>2, Looked
<1>4. Abs!Prune(d, now) = d
  BY <1>2, ContentPruned
<1>5. PICK m : m = IF present THEN 0 ELSE 1
  OBVIOUS
<1>6. /\ Abs!HoldsOther(k, type) <=> ~TypeAllows(f, k, type)
      /\ Abs!ExpiryOf(k) = Deadline(d, k) /\ Abs!SizeOf(k) = Elements(d, k)
  BY <1>2, <1>3, Asked
<1>7. CASE TypeAllows(f, k, type)
  <2>1. k \in DOMAIN d => d[k].value.type = type
    BY <1>3, <1>7 DEF Shows, TypeAllows
  <2>2. PICK g : g = GetOrCreate(f, k, type, now)
    OBVIOUS
  <2>3. Opens(f, g, k, type, d, now) /\ Good(g, {} \cup {k})
    BY <1>1, <1>3, <2>1, <2>2, GetOrCreateSeen, GetOrCreateFacts
  <2>4. PICK n : n = Elements(d, k)
    OBVIOUS
  <2>5. n = g.map[k].value.size /\ k \in DOMAIN g.map
    BY <2>3, <2>4 DEF Opens
  <2>6. n \in Nat
    BY <2>3, <2>5, GoodFields
  <2>7. ASSUME Abs!EndsWith(now, Abs!Bind(d, k, Abs!Val(type, n + m), Deadline(d, k)))
        PROVE  Abs!Add(k, type, m, now)
    BY <1>2, <1>6, <1>7, <2>4, <2>7, NoLapse DEF Abs!Add
  <2>8. CASE present
    <3>1. PICK r : r = DeleteIfEmpty(g, k, now)
      OBVIOUS
    <3>2. n > 0 /\ Command(r)
      BY <1>2, <1>7, <2>2, <2>5, <2>8, <3>1 DEF HSetNX
    <3>3. k \in DOMAIN d
      BY <2>4, <3>2 DEF Elements
    <3>4. Content(g, now) = d
      BY <1>3, <2>3, <3>3 DEF Opens
    <3>5. d[k].value.size = n /\ d[k].value.type = type
      BY <2>1, <2>4, <3>3 DEF Elements
    <3>6. ~IsEmptyCollection(d[k].value)
      BY <3>2, <3>5 DEF IsEmptyCollection
    <3>7. Content(r, now) = d
      <4>1. Content(r, now) =
              IF k \in DOMAIN Content(g, now) /\ IsEmptyCollection(Content(g, now)[k].value)
              THEN Abs!Prune(Abs!Drop(Content(g, now), {k}), now)
              ELSE Content(g, now)
        BY <2>3, <3>1, DeleteIfEmptySeen
      <4> QED
        BY ONLY <3>4, <3>6, <4>1
    <3>8. d[k].value = Abs!Val(type, n)
      <4>1. d[k].value = f.map[k].value /\ k \in DOMAIN f.map
        BY <1>3, <3>3 DEF Shows, Has
      <4>2. d[k].value \in Value
        BY <1>3, <4>1, GoodFields
      <4> QED
        BY <3>5, <4>2 DEF Value, Abs!Val
    <3>9. n + m = n
      BY <1>5, <2>6, <2>8
    <3>10. Abs!Bind(d, k, Abs!Val(type, n + m), Deadline(d, k)) = d
      <4>1. Abs!Bind(d, k, d[k].value, d[k].expireAt) = d
        BY <1>2, <3>3, SameContent
      <4> QED
        BY <3>3, <3>8, <3>9, <4>1 DEF Deadline
    <3>11. Abs!EndsWith(now, d)
      BY <1>4, <3>2, <3>7, Ends
    <3> QED
      BY <1>5, <2>7, <3>10, <3>11
  <2>9. CASE ~present
    <3>1. PICK p : p = n + m
      OBVIOUS
    <3>2. p \in Nat /\ p = n + 1
      BY <1>5, <2>6, <2>9, <3>1
    <3>3. PICK r : r = SetSize(g, k, p)
      OBVIOUS
    <3>4. Command(r)
      BY <1>2, <1>7, <2>2, <2>5, <2>9, <3>2, <3>3 DEF HSetNX
    <3>5. Binds(f, r, k, Abs!Val(type, p), Deadline(d, k), now)
      BY <1>1, <1>3, <2>1, <2>2, <3>2, <3>3, ResizeSeen
    <3>6. Content(r, now) = Abs!Prune(Abs!Bind(d, k, Abs!Val(type, p), Deadline(d, k)), now)
      BY <1>3, <3>5 DEF Binds
    <3>7. Abs!EndsWith(now, Abs!Bind(d, k, Abs!Val(type, p), Deadline(d, k)))
      BY <3>4, <3>6, Ends
    <3> QED
      BY <1>5, <2>7, <3>1, <3>7
  <2> QED
    BY <2>8, <2>9
<1>8. CASE ~TypeAllows(f, k, type)
  <2>1. Command(f)
    BY <1>2, <1>8 DEF HSetNX
  <2>2. Abs!EndsWith(now, d)
    BY <1>3, <1>4, <2>1, Ends
  <2> QED
    BY <1>2, <1>6, <1>8, <2>2 DEF Abs!Add
<1> QED
  BY <1>7, <1>8

\* A collection resized in place and dropped if that left it empty.
LEMMA ShrinkSeen ==
  ASSUME NEW s, NEW K, Good(s, K), NEW k \in DOMAIN s.map, NEW n \in Nat, NEW t \in Int,
         s.map[k].value.type \in Collections, IsLive(s.map[k], t),
         NEW x, x = SetSize(s, k, n), NEW r, r = DeleteIfEmpty(x, k, t),
         NEW type, type = s.map[k].value.type, NEW at, at = s.map[k].expireAt,
         NEW c, Content(s, t) = Abs!Prune(c, t)
  PROVE  Content(r, t) = Abs!Prune(Abs!Resize(c, k, type, n, at), t)
<1>1. PICK v : v = Abs!Val(type, n)
  OBVIOUS
<1>2. v.type \in Collections /\ v.size = n
  BY <1>1 DEF Abs!Val
<1>3. Good(x, K \cup {k})
  BY SetSizeFacts
<1>4. Binds(s, x, k, v, at, t)
  BY <1>1, SetSizeSeen
<1>5. Content(x, t) = Abs!Prune(Abs!Bind(Abs!Prune(c, t), k, v, at), t)
  BY <1>4 DEF Binds
<1>6. Content(x, t) = Abs!Prune(Abs!Bind(c, k, v, at), t)
  BY <1>5, PruneBind
<1>7. k \in DOMAIN Content(x, t) /\ Content(x, t)[k].value = v
  <2>1. k \in DOMAIN x.map /\ x.map[k].value = v /\ x.map[k].expireAt = s.map[k].expireAt
    BY <1>4 DEF Binds
  <2>2. IsLive(x.map[k], t)
    BY <2>1 DEF IsLive
  <2> QED
    BY <2>1, <2>2, ContentFacts
<1>8. CASE n = 0
  <2>1. Content(r, t) = Abs!Prune(Abs!Drop(Content(x, t), {k}), t)
    BY <1>2, <1>3, <1>7, <1>8, DeleteIfEmptySeen DEF IsEmptyCollection
  <2>2. Content(r, t) = Abs!Prune(Abs!Drop(Abs!Bind(c, k, v, at), {k}), t)
    BY <1>6, <2>1, PruneDrop
  <2>3. Content(r, t) = Abs!Prune(Abs!Drop(c, {k}), t)
    BY <2>2, DropBind
  <2> QED
    BY <1>8, <2>3 DEF Abs!Resize
<1>9. CASE n # 0
  <2>1. ~(k \in DOMAIN Content(x, t) /\ IsEmptyCollection(Content(x, t)[k].value))
    BY <1>2, <1>7, <1>9 DEF IsEmptyCollection
  <2>2. Content(r, t) = IF k \in DOMAIN Content(x, t) /\ IsEmptyCollection(Content(x, t)[k].value)
                        THEN Abs!Prune(Abs!Drop(Content(x, t), {k}), t)
                        ELSE Content(x, t)
    BY <1>3, DeleteIfEmptySeen
  <2>3. Content(r, t) = Content(x, t)
    BY ONLY <2>1, <2>2
  <2> QED
    BY <1>1, <1>6, <1>9, <2>3 DEF Abs!Resize
<1> QED
  BY <1>8, <1>9

\* A removal that takes the last element takes the key.
LEMMA RemovePromised ==
  ASSUME IInv, NEW k \in Keys, NEW type \in Collections, NEW m \in Sizes, Remove(k, type, m)
  PROVE  Abs!Remove(k, type, m, now)
<1>1. now \in Int /\ Good(store, {})
  BY Now
<1>2. PICK d, f : d = Content(store, now) /\ f = Find(store, k, now)
  OBVIOUS
<1>3. Good(f, {}) /\ Content(f, now) = d /\ Shows(f, k, d)
  BY <1>2, Looked
<1>4. Abs!Prune(d, now) = d
  BY <1>2, ContentPruned
<1>6. /\ Abs!HoldsOther(k, type) <=> ~TypeAllows(f, k, type)
      /\ Abs!Held(k) <=> Has(f, k)
      /\ Abs!ExpiryOf(k) = Deadline(d, k) /\ Abs!SizeOf(k) = Elements(d, k)
  BY <1>2, <1>3, Asked
<1>7. CASE TypeAllows(f, k, type) /\ Has(f, k)
  <2>1. /\ k \in DOMAIN f.map /\ k \in DOMAIN d /\ f.map[k].value.type = type
        /\ f.map[k].value.size = Elements(d, k) /\ f.map[k].expireAt = Deadline(d, k)
    BY <1>3, <1>7 DEF Shows, TypeAllows, Has, Elements, Deadline
  <2>2. IsLive(f.map[k], now)
    BY <1>1, <1>2, <2>1, FindSeen DEF Fresh
  <2>3. PICK n, p : n = f.map[k].value.size /\ p = n - m
    OBVIOUS
  <2>4. n \in Nat
    BY <1>3, <2>1, <2>3, GoodFields
  <2>5. PICK x : x = SetSize(f, k, p)
    OBVIOUS
  <2>6. PICK r : r = DeleteIfEmpty(x, k, now)
    OBVIOUS
  <2>7. m <= n /\ Command(r)
    BY <1>2, <1>7, <2>3, <2>5, <2>6 DEF Remove
  <2>8. p \in Nat
    BY <2>3, <2>4, <2>7, MaxLenAssumption DEF Sizes
  <2>9. PICK at : at = f.map[k].expireAt
    OBVIOUS
  <2>10. Content(r, now) = Abs!Prune(Abs!Resize(d, k, type, p, at), now)
    <3>1. /\ k \in DOMAIN f.map /\ type = f.map[k].value.type
          /\ f.map[k].value.type \in Collections
      BY <2>1
    <3>2. Good(f, {}) /\ Content(f, now) = Abs!Prune(d, now)
      BY <1>3, <1>4
    <3> QED
      BY <1>1, <2>2, <2>5, <2>6, <2>8, <2>9, <3>1, <3>2, ShrinkSeen
  <2>11. Abs!EndsWith(now, Abs!Resize(d, k, type, p, at))
    BY <2>7, <2>10, Ends
  <2> QED
    BY <1>2, <1>6, <1>7, <2>1, <2>3, <2>9, <2>11 DEF Abs!Remove
<1>8. CASE ~(TypeAllows(f, k, type) /\ Has(f, k))
  <2>1. Command(f)
    BY <1>2, <1>8 DEF Remove
  <2>2. Abs!EndsWith(now, d)
    BY <1>3, <1>4, <2>1, Ends
  <2> QED
    BY <1>2, <1>6, <1>8, <2>2 DEF Abs!Remove
<1> QED
  BY <1>7, <1>8

\* LMOVE and SMOVE: what dies between the two readings of the clock counts as gone.
LEMMA MovePromised ==
  ASSUME IInv, NEW k \in Keys, NEW dest \in Keys, NEW type \in Collections,
         NEW m \in {0, 1}, NEW t2 \in Later, Move(k, dest, type, m, t2)
  PROVE  Abs!Move(k, dest, type, m, t2)
<1>1. now \in Int /\ t2 \in Int /\ now <= t2 /\ t2 <= t2 /\ Good(store, {})
  BY Now DEF Later
<1>2. PICK d : d = Content(store, now)
  OBVIOUS
<1>3. PICK f0, f : f0 = Find(store, k, now) /\ f = Find(f0, dest, now)
  OBVIOUS
<1>4. /\ Good(f, {}) /\ Content(f, now) = d /\ Content(f, t2) = Content(store, t2)
      /\ Fresh(f, k, now) /\ Fresh(f, dest, now)
  <2>1. /\ Good(f0, {}) /\ Content(f0, now) = d /\ Content(f0, t2) = Content(store, t2)
        /\ Fresh(f0, k, now)
    BY <1>1, <1>2, <1>3, FindSeen
  <2> QED
    BY <1>1, <1>3, <2>1, FindSeen
<1>5. Shows(f, k, d) /\ Shows(f, dest, d)
  BY <1>4, FreshFacts DEF Shows
<1>6. Content(f, t2) = Abs!Prune(d, t2)
  BY <1>1, <1>2, <1>4, ContentLater
<1>7. /\ Abs!Held(k) <=> Has(f, k)
      /\ Abs!HoldsOther(k, type) <=> ~TypeAllows(f, k, type)
      /\ Abs!ExpiryOf(k) = Deadline(d, k) /\ Abs!SizeOf(k) = Elements(d, k)
  BY <1>2, <1>5, Asked
<1>8. Abs!HoldsOther(dest, type) <=> ~TypeAllows(f, dest, type)
  BY <1>2, <1>5, Asked
<1>9. CASE ~(TypeAllows(f, k, type) /\ TypeAllows(f, dest, type) /\ Has(f, k))
  <2>1. CommandUntil(t2, TRUE, f)
    BY <1>3, <1>9 DEF Move
  <2>2. Abs!EndsWith(t2, d)
    BY <1>6, <2>1, EndsUntil
  <2> QED
    BY <1>2, <1>7, <1>8, <1>9, <2>2 DEF Abs!Move
<1>10. CASE TypeAllows(f, k, type) /\ TypeAllows(f, dest, type) /\ Has(f, k)
  <2>1. /\ k \in DOMAIN f.map /\ k \in DOMAIN d /\ f.map[k].value.type = type
        /\ f.map[k].value.size = Elements(d, k) /\ f.map[k].expireAt = Deadline(d, k)
    BY <1>5, <1>10 DEF Shows, TypeAllows, Has, Elements, Deadline
  <2>2. PICK c, p, at : c = f.map[k].value.size /\ p = c - 1 /\ at = f.map[k].expireAt
    OBVIOUS
  <2>3. p \in Nat
    <3>1. c \in Nat
      BY <1>4, <2>1, <2>2, GoodFields
    <3>2. c # 0
      BY <1>4, <2>1, <2>2 DEF Good, IsEmptyCollection
    <3> QED
      BY <2>2, <3>1, <3>2
  <2>4. PICK u : u = SetSize(f, k, p)
    OBVIOUS
  <2>5. Good(u, {} \cup {k}) /\ Binds(f, u, k, Abs!Val(type, p), at, t2)
    BY <1>4, <2>1, <2>2, <2>3, <2>4, SetSizeFacts, SetSizeSeen
  <2>6. PICK taken : taken = Abs!Bind(d, k, Abs!Val(type, p), at)
    OBVIOUS
  <2>7. PICK later : later = Abs!Prune(taken, t2)
    OBVIOUS
  <2>8. Content(u, t2) = later
    <3>1. Content(u, t2) = Abs!Prune(Abs!Bind(Abs!Prune(d, t2), k, Abs!Val(type, p), at), t2)
      BY <1>6, <2>5 DEF Binds
    <3> QED
      BY <2>6, <2>7, <3>1, PruneBind
  <2>9. \A x \in {k, dest} : x \in DOMAIN later => later[x].value.type = type
    <3>1. /\ taken[k].value.type = type
          /\ dest \in DOMAIN taken /\ dest # k => dest \in DOMAIN d /\ taken[dest] = d[dest]
      BY <2>6 DEF Abs!Bind, Abs!Val
    <3>2. dest \in DOMAIN d => d[dest].value.type = type
      BY <1>5, <1>10 DEF Shows, TypeAllows
    <3>3. \A x \in DOMAIN later : x \in DOMAIN taken /\ later[x] = taken[x]
      BY <2>7 DEF Abs!Prune
    <3> QED
      BY <3>1, <3>2, <3>3
  <2>10. PICK g : g = GetOrCreate(u, dest, type, t2)
    OBVIOUS
  <2>11. dest \in DOMAIN later => later[dest].value.type = type
    BY <2>9
  <2>12. Opens(u, g, dest, type, later, t2) /\ Good(g, ({} \cup {k}) \cup {dest})
    BY <1>1, <2>5, <2>8, <2>10, <2>11, GetOrCreateSeen, GetOrCreateFacts
  <2>13. PICK n, b : n = Elements(later, dest) + m /\ b = Deadline(later, dest)
    OBVIOUS
  <2>14. n = g.map[dest].value.size + m /\ g.map[dest].value.size \in Nat
    BY <2>12, <2>13, GoodFields DEF Opens
  <2>15. n \in Nat
    BY <2>14
  <2>16. PICK w : w = SetSize(g, dest, n)
    OBVIOUS
  <2>17. Binds(u, w, dest, Abs!Val(type, n), b, t2)
    BY <1>1, <2>5, <2>8, <2>10, <2>11, <2>13, <2>15, <2>16, ResizeSeen
  <2>18. PICK given : given = Abs!Bind(later, dest, Abs!Val(type, n), b)
    OBVIOUS
  <2>19. Content(w, t2) = Abs!Prune(given, t2)
    BY <2>8, <2>17, <2>18 DEF Binds
  <2>20. Abs!Prune(given, t2) = given
    <3>1. \A x \in DOMAIN later : Abs!Alive(later[x], t2)
      BY <2>7 DEF Abs!Prune
    <3>2. Abs!Alive(given[dest], t2)
      BY <2>13, <2>18, <3>1 DEF Abs!Bind, Abs!Alive, Abs!Never, Never, Deadline
    <3>3. \A x \in DOMAIN given : Abs!Alive(given[x], t2)
      BY <2>18, <3>1, <3>2 DEF Abs!Bind
    <3> QED
      BY <2>18, <3>3 DEF Abs!Prune, Abs!Bind
  <2>21. k \in DOMAIN given => given[k].value.type = type
    BY <2>9, <2>18 DEF Abs!Bind, Abs!Val
  <2>22. dest \in DOMAIN g.map /\ Good(w, (({} \cup {k}) \cup {dest}) \cup {dest})
    BY <2>12, <2>15, <2>16, SetSizeFacts DEF Opens
  <2>23. PICK r : r = DeleteIfEmpty(w, k, t2)
    OBVIOUS
  <2>24. CommandUntil(t2, TRUE, r)
    BY <1>3, <1>10, <2>2, <2>4, <2>10, <2>14, <2>16, <2>23 DEF Move
  <2>25. Content(r, t2) = IF k \in DOMAIN given /\ IsEmptyCollection(given[k].value)
                          THEN Abs!Prune(Abs!Drop(given, {k}), t2) ELSE given
    BY <2>19, <2>20, <2>22, <2>23, DeleteIfEmptySeen
  <2> DEFINE e == IF k \in DOMAIN given /\ given[k].value.size = 0
                  THEN Abs!Drop(given, {k}) ELSE given
  <2>26. Content(r, t2) = Abs!Prune(e, t2)
    <3>1. k \in DOMAIN given => (IsEmptyCollection(given[k].value) <=> given[k].value.size = 0)
      BY <2>21 DEF IsEmptyCollection
    <3> QED
      BY <2>20, <2>25, <3>1
  <2> HIDE DEF e
  <2>27. Abs!EndsWith(t2, e)
    BY <2>24, <2>26, EndsUntil
  <2>28. taken = Abs!Bind(Content(store, now), k, Abs!Val(type, Abs!SizeOf(k) - 1), Abs!ExpiryOf(k))
    BY <1>2, <1>7, <2>1, <2>2, <2>6
  <2>29. given = Abs!Bind(later, dest,
                          Abs!Val(type, (IF dest \in DOMAIN later
                                         THEN later[dest].value.size ELSE 0) + m),
                          IF dest \in DOMAIN later THEN later[dest].expireAt ELSE Abs!Never)
    BY <2>13, <2>18 DEF Elements, Deadline, Abs!Never, Never
  <2> QED
    BY <1>7, <1>8, <1>10, <2>7, <2>27, <2>28, <2>29 DEF Abs!Move, e
<1> QED
  BY <1>9, <1>10

\* SINTERSTORE and its like replace the destination, or take it away.
LEMMA StoreSetPromised ==
  ASSUME IInv, NEW dest \in Keys, NEW k1 \in Keys, NEW k2 \in Keys, NEW n \in Sizes,
         "set" \in Collections, StoreSet(dest, k1, k2, n)
  PROVE  Abs!StoreSet(dest, k1, k2, n)
<1>1. now \in Int /\ now <= now /\ Good(store, {})
  BY Now
<1>2. PICK d : d = Content(store, now)
  OBVIOUS
<1>3. PICK f0, f1, f : /\ f0 = Find(store, dest, now) /\ f1 = Find(f0, k1, now)
                       /\ f = Find(f1, k2, now)
  OBVIOUS
<1>4. /\ Good(f, {}) /\ Content(f, now) = d
      /\ Fresh(f, dest, now) /\ Fresh(f, k1, now) /\ Fresh(f, k2, now)
  <2>1. Good(f0, {}) /\ Content(f0, now) = d /\ Fresh(f0, dest, now)
    BY <1>1, <1>2, <1>3, FindSeen
  <2>2. Good(f1, {}) /\ Content(f1, now) = d /\ Fresh(f1, dest, now) /\ Fresh(f1, k1, now)
    BY <1>1, <1>3, <2>1, FindSeen
  <2> QED
    BY <1>1, <1>3, <2>2, FindSeen
<1>5. Shows(f, dest, d) /\ Shows(f, k1, d) /\ Shows(f, k2, d)
  BY <1>4, FreshFacts DEF Shows
<1>6. \A k \in {dest, k1, k2} : Abs!HoldsOther(k, "set") <=> ~TypeAllows(f, k, "set")
  BY <1>2, <1>5, Asked
<1>7. Abs!Prune(d, now) = d
  BY <1>2, ContentPruned
<1> DEFINE fits == \A k \in {dest, k1, k2} : TypeAllows(f, k, "set")
<1>8. CASE ~fits
  <2>1. Command(f)
    BY <1>3, <1>8 DEF StoreSet
  <2>2. Abs!EndsWith(now, d)
    BY <1>4, <1>7, <2>1, Ends
  <2> QED
    BY <1>2, <1>6, <1>8, <2>2 DEF Abs!StoreSet
<1>9. CASE fits
  <2>1. PICK g : g = Del(f, dest, now)
    OBVIOUS
  <2>2. Good(g, {}) /\ Content(g, now) = Abs!Prune(Abs!Drop(d, {dest}), now)
    BY <1>4, <2>1, DelFacts, DelSeen
  <2>3. ASSUME Abs!EndsWith(now, Abs!Resize(d, dest, "set", n, Never))
        PROVE  Abs!StoreSet(dest, k1, k2, n)
    BY <1>2, <1>6, <1>9, <2>3 DEF Abs!StoreSet, Abs!Never, Never
  <2>4. CASE n = 0
    <3>1. Command(g)
      BY <1>3, <1>9, <2>1, <2>4 DEF StoreSet
    <3>2. Abs!EndsWith(now, Abs!Drop(d, {dest}))
      BY <2>2, <3>1, Ends
    <3> QED
      BY <2>3, <2>4, <3>2 DEF Abs!Resize
  <2>5. CASE n # 0
    <3>1. PICK h : h = GetOrCreate(g, dest, "set", now)
      OBVIOUS
    <3>2. PICK r : r = SetSize(h, dest, n)
      OBVIOUS
    <3>3. Command(r)
      BY <1>3, <1>9, <2>1, <2>5, <3>1, <3>2 DEF StoreSet
    <3>4. PICK c : c = Content(g, now)
      OBVIOUS
    <3>5. dest \notin DOMAIN c
      BY <2>2, <3>4 DEF Abs!Prune, Abs!Drop
    <3>6. n \in Nat
      BY StringIs
    <3>7. Binds(g, r, dest, Abs!Val("set", n), Deadline(c, dest), now)
      BY <1>1, <2>2, <3>1, <3>2, <3>4, <3>5, <3>6, ResizeSeen
    <3>8. Content(r, now) = Abs!Prune(Abs!Bind(Content(g, now), dest, Abs!Val("set", n), Never), now)
      BY <3>5, <3>7 DEF Binds, Deadline
    <3>9. Content(r, now) = Abs!Prune(Abs!Bind(Abs!Drop(d, {dest}), dest, Abs!Val("set", n), Never), now)
      BY <2>2, <3>8, PruneBind
    <3>10. Content(r, now) = Abs!Prune(Abs!Bind(d, dest, Abs!Val("set", n), Never), now)
      BY <3>9, BindDrop
    <3>11. Abs!EndsWith(now, Abs!Bind(d, dest, Abs!Val("set", n), Never))
      BY <3>3, <3>10, Ends
    <3> QED
      BY <2>3, <2>5, <3>11 DEF Abs!Resize
  <2> QED
    BY <2>4, <2>5
<1> QED
  BY <1>8, <1>9

\* A collection or index that dies while the command runs is gone whatever the
\* command would have made of it.
LEMMA DueDropped ==
  ASSUME NEW s, NEW K, Good(s, K), NEW t \in Int, NEW u \in Int, t <= u,
         NEW d, d = Content(s, t), NEW k,
         k \in DOMAIN d => ~(d[k].expireAt = Never \/ d[k].expireAt > u)
  PROVE  Content(s, u) = Abs!Prune(Abs!Drop(d, {k}), u)
<1>1. Content(s, u) = Abs!Prune(d, u)
  BY ContentLater
<1>2. Abs!Prune(Abs!Drop(d, {k}), u) = Abs!Prune(d, u)
  BY DropDue
<1> QED
  BY <1>1, <1>2

\* Or rebound, with the deadline it had.
LEMMA DueBound ==
  ASSUME NEW s, NEW d, NEW k, NEW v, NEW at, NEW u,
         Content(s, u) = Abs!Prune(Abs!Drop(d, {k}), u), ~(at = Never \/ at > u)
  PROVE  Content(s, u) = Abs!Prune(Abs!Bind(d, k, v, at), u)
BY BindDue

\* ZINCRBY: a sum that is not finite is undone if the member is new, and takes
\* a member that was there out.
LEMMA ZIncrByPromised ==
  ASSUME IInv, NEW k \in Keys, NEW present \in BOOLEAN, NEW finite \in BOOLEAN,
         NEW t2 \in Later, "zset" \in Collections, ZIncrBy(k, present, finite, t2)
  PROVE  IF present /\ ~finite
         THEN Abs!Remove(k, "zset", 1, t2)
         ELSE Abs!ZIncrBy(k, present, finite, t2)
<1> DEFINE Goal == IF present /\ ~finite
                   THEN Abs!Remove(k, "zset", 1, t2)
                   ELSE Abs!ZIncrBy(k, present, finite, t2)
<1> SUFFICES Goal
  OBVIOUS
<1>1. now \in Int /\ t2 \in Int /\ now <= t2 /\ Good(store, {})
  BY Now DEF Later
<1>2. PICK d, f : d = Content(store, now) /\ f = Find(store, k, now)
  OBVIOUS
<1>3. /\ Good(f, {}) /\ Content(f, now) = d /\ Shows(f, k, d)
      /\ Content(f, t2) = Content(store, t2)
  BY <1>1, <1>2, Looked
<1>4. Content(f, t2) = Abs!Prune(d, t2)
  BY <1>1, <1>2, <1>3, ContentLater
<1>5. /\ Abs!HoldsOther(k, "zset") <=> ~TypeAllows(f, k, "zset")
      /\ Abs!ExpiryOf(k) = Deadline(d, k) /\ Abs!SizeOf(k) = Elements(d, k)
  BY <1>2, <1>3, Asked
<1>6. CASE ~TypeAllows(f, k, "zset")
  <2>1. CommandUntil(t2, TRUE, f)
    BY <1>2, <1>6 DEF ZIncrBy
  <2>2. Abs!EndsWith(t2, d)
    BY <1>4, <2>1, EndsUntil
  <2> QED
    BY <1>2, <1>5, <1>6, <2>2 DEF Abs!ZIncrBy, Abs!Remove
<1>7. CASE TypeAllows(f, k, "zset")
  <2>1. k \in DOMAIN d => d[k].value.type = "zset"
    BY <1>3, <1>7 DEF Shows, TypeAllows
  <2>2. PICK g : g = GetOrCreate(f, k, "zset", now)
    OBVIOUS
  <2>3. Opens(f, g, k, "zset", d, t2) /\ Good(g, {} \cup {k})
    BY <1>1, <1>3, <2>1, <2>2, GetOrCreateSeen, GetOrCreateFacts
  <2>4. PICK n, at : n = Elements(d, k) + (IF present THEN 0 ELSE 1) /\ at = Deadline(d, k)
    OBVIOUS
  <2>5. n = g.map[k].value.size + (IF present THEN 0 ELSE 1)
    BY <2>3, <2>4 DEF Opens
  <2>6. n \in 1 .. MaxLen
    BY <1>2, <1>7, <2>2, <2>5 DEF ZIncrBy
  <2>7. n \in Nat /\ n > 0 /\ n - 1 \in Nat
    BY <2>6
  <2>8. PICK u : u = SetSize(g, k, n)
    OBVIOUS
  <2>9. Good(u, ({} \cup {k}) \cup {k})
    <3>1. k \in DOMAIN g.map
      BY <2>3 DEF Opens
    <3> QED
      BY <2>3, <2>7, <2>8, <3>1, SetSizeFacts
  <2>10. Binds(f, u, k, Abs!Val("zset", n), at, t2)
    BY <1>1, <1>3, <2>1, <2>2, <2>4, <2>7, <2>8, ResizeSeen
  <2>11. PICK c : c = Abs!Bind(d, k, Abs!Val("zset", n), at)
    OBVIOUS
  <2>12. Content(u, t2) = Abs!Prune(c, t2)
    <3>1. Content(u, t2) = Abs!Prune(Abs!Bind(Abs!Prune(d, t2), k, Abs!Val("zset", n), at), t2)
      BY <1>4, <2>10 DEF Binds
    <3> QED
      BY <2>11, <3>1, PruneBind
  <2>13. PICK p : p = n - (IF finite THEN 0 ELSE 1)
    OBVIOUS
  <2>14. ASSUME Abs!EndsWith(t2, Abs!Resize(d, k, "zset", p, at))
         PROVE  Goal
    <3>1. ~Abs!HoldsOther(k, "zset") /\ Abs!ExpiryOf(k) = at
      BY <1>5, <1>7, <2>4
    <3>2. PICK e : e = Abs!SizeOf(k)
      OBVIOUS
    <3>3. e = Elements(d, k) /\ e \in Int
      <4>1. e = Elements(d, k)
        BY <1>5, <3>2
      <4>2. k \in DOMAIN g.map /\ g.map[k].value.size = e
        BY <2>3, <4>1 DEF Opens
      <4> QED
        BY <2>3, <4>1, <4>2, GoodFields DEF Value
    <3>4. n = e + (IF present THEN 0 ELSE 1)
      BY <2>4, <3>3
    <3>5. CASE present /\ ~finite
      <4>1. p = e - 1 /\ e # 0
        BY <2>7, <2>13, <3>3, <3>4, <3>5
      <4>2. Abs!Held(k)
        BY <3>2, <4>1 DEF Abs!SizeOf
      <4>3. Abs!EndsWith(t2, Abs!Resize(Content(store, now), k, "zset", Abs!SizeOf(k) - 1, Abs!ExpiryOf(k)))
        BY <1>2, <2>14, <3>1, <3>2, <4>1
      <4>4. Abs!Remove(k, "zset", 1, t2)
        BY <3>1, <4>2, <4>3 DEF Abs!Remove
      <4> QED
        BY <3>5, <4>4 DEF Goal
    <3>6. CASE finite
      <4>1. p = n /\ p # 0
        BY <2>7, <2>13, <3>6
      <4>2. Abs!EndsWith(t2, Abs!Bind(d, k, Abs!Val("zset", n), at))
        BY <2>14, <4>1 DEF Abs!Resize
      <4>3. Abs!EndsWith(t2, Abs!Bind(Content(store, now), k,
              Abs!Val("zset", Abs!SizeOf(k) + (IF present THEN 0 ELSE 1)), Abs!ExpiryOf(k)))
        BY <1>2, <3>1, <3>2, <3>4, <4>2
      <4>4. Abs!ZIncrBy(k, present, finite, t2)
        BY <3>1, <3>6, <4>3 DEF Abs!ZIncrBy
      <4> QED
        BY <3>6, <4>4 DEF Goal
    <3>7. CASE ~present /\ ~finite
      <4>1. p = e
        BY <2>7, <2>13, <3>3, <3>4, <3>7
      <4>2. Abs!Resize(d, k, "zset", p, at) = d
        <5>1. CASE k \in DOMAIN d
          <6>1. k \in DOMAIN f.map /\ f.map[k].value = d[k].value
            BY <1>3, <5>1 DEF Shows, Has
          <6>2. d[k].value \in Value /\ ~IsEmptyCollection(d[k].value)
            BY <1>3, <6>1, GoodFields DEF Good
          <6>3. e = d[k].value.size /\ at = d[k].expireAt
            BY <2>4, <3>3, <5>1 DEF Elements, Deadline
          <6>4. p # 0
            BY <2>1, <4>1, <5>1, <6>2, <6>3 DEF IsEmptyCollection
          <6>5. d[k].value = Abs!Val("zset", p)
            BY <2>1, <4>1, <5>1, <6>2, <6>3 DEF Value, Abs!Val
          <6>6. Abs!Bind(d, k, d[k].value, d[k].expireAt) = d
            BY <1>2, <5>1, SameContent
          <6> QED
            BY <6>3, <6>4, <6>5, <6>6 DEF Abs!Resize
        <5>2. CASE k \notin DOMAIN d
          <6>1. p = 0
            BY <3>3, <4>1, <5>2 DEF Elements
          <6>2. Abs!Drop(d, {k}) = d
            BY <1>2, <5>2, SameContent
          <6> QED
            BY <6>1, <6>2 DEF Abs!Resize
        <5> QED
          BY <5>1, <5>2
      <4>3. Abs!EndsWith(t2, Content(store, now))
        BY <1>2, <2>14, <4>2
      <4>4. Abs!ZIncrBy(k, present, finite, t2)
        BY <3>7, <4>3 DEF Abs!ZIncrBy
      <4> QED
        BY <3>7, <4>4 DEF Goal
    <3> QED
      BY <3>5, <3>6, <3>7
  <2> HIDE DEF Goal
  <2>15. CASE finite
    <3>1. CommandUntil(t2, TRUE, u)
      BY <1>2, <1>7, <2>2, <2>5, <2>8, <2>15 DEF ZIncrBy
    <3>2. p = n /\ p # 0
      BY <2>7, <2>13, <2>15
    <3>3. Abs!Resize(d, k, "zset", p, at) = c
      BY <2>11, <3>2 DEF Abs!Resize
    <3> QED
      BY <2>12, <2>14, <3>1, <3>3, EndsUntil
  <2>16. CASE ~finite
    <3>1. p = n - 1 /\ p \in Nat
      BY <2>7, <2>13, <2>16
    <3>2. PICK h : h = Find(u, k, t2)
      OBVIOUS
    <3>3. PICK r : r = DeleteIfEmpty(SetSize(h, k, p), k, t2)
      OBVIOUS
    <3>4. /\ Has(h, k) => CommandUntil(t2, TRUE, r)
          /\ ~Has(h, k) => CommandUntil(t2, FALSE, r)
      BY <1>2, <1>7, <2>2, <2>5, <2>8, <2>16, <3>1, <3>2, <3>3 DEF ZIncrBy, CommandUntil
    <3>5. /\ k \in DOMAIN u.map /\ u.map[k].value = Abs!Val("zset", n)
          /\ u.map[k].expireAt = at
      BY <2>10 DEF Binds
    <3>6. /\ Has(h, k) <=> IsLive(u.map[k], t2)
          /\ Has(h, k) => h = u
      BY <2>9, <3>2, <3>5, FindHas
    <3>7. CASE Has(h, k)
      <4>1. CommandUntil(t2, TRUE, r)
        BY <3>4, <3>7
      <4>2. PICK x : x = SetSize(u, k, p)
        OBVIOUS
      <4>3. r = DeleteIfEmpty(x, k, t2)
        BY <3>3, <3>6, <3>7, <4>2
      <4>4. /\ IsLive(u.map[k], t2) /\ u.map[k].value.type \in Collections
            /\ u.map[k].value.type = "zset"
        BY <3>5, <3>6, <3>7 DEF Abs!Val
      <4>5. Content(r, t2) = Abs!Prune(Abs!Resize(c, k, "zset", p, at), t2)
        BY <1>1, <2>9, <2>12, <3>1, <3>5, <4>2, <4>3, <4>4, ShrinkSeen
      <4>6. Abs!Resize(c, k, "zset", p, at) = Abs!Resize(d, k, "zset", p, at)
        BY <2>11, BindBind, DropBind DEF Abs!Resize
      <4> QED
        BY <2>14, <4>1, <4>5, <4>6, EndsUntil
    <3>8. CASE ~Has(h, k)
      <4>1. CommandUntil(t2, FALSE, r)
        BY <3>4, <3>8
      <4>2. ~(at = Never \/ at > t2)
        BY <3>5, <3>6, <3>8 DEF IsLive
      <4>3. k \in DOMAIN d /\ at = d[k].expireAt
        BY <2>4, <4>2 DEF Deadline
      <4>4. Content(store, t2) = Abs!Prune(Abs!Drop(d, {k}), t2)
        BY <1>1, <1>2, <4>2, <4>3, DueDropped
      <4>5. Content(store, t2) = Abs!Prune(Abs!Bind(d, k, Abs!Val("zset", p), at), t2)
        BY <4>2, <4>4, DueBound
      <4>6. Content(store, t2) = Abs!Prune(Abs!Resize(d, k, "zset", p, at), t2)
        BY <4>4, <4>5 DEF Abs!Resize
      <4>7. Abs!EndsWith(t2, Abs!Resize(d, k, "zset", p, at))
        BY <4>1, <4>6, EndsUntil
      <4> QED
        BY <2>14, <4>7
    <3> QED
      BY <3>7, <3>8
  <2> QED
    BY <2>15, <2>16
<1> QED
  BY <1>6, <1>7

\* MEM.CREATE makes an empty index of a key that is not seen.
LEMMA MemCreatePromised ==
  ASSUME IInv, NEW k \in Keys, MemCreate(k)
  PROVE  Abs!MemCreate(k)
<1>2. PICK d, f : d = Content(store, now) /\ f = Find(store, k, now)
  OBVIOUS
<1>3. Good(f, {}) /\ Content(f, now) = d /\ Shows(f, k, d)
  BY <1>2, Looked
<1>4. Abs!Prune(d, now) = d
  BY <1>2, ContentPruned
<1>5. Abs!Held(k) <=> Has(f, k)
  BY <1>2, <1>3, Asked
<1>6. CASE Has(f, k)
  <2>1. Command(f)
    BY <1>2, <1>6 DEF MemCreate
  <2>2. Abs!EndsWith(now, d)
    BY <1>3, <1>4, <2>1, Ends
  <2> QED
    BY <1>2, <1>5, <1>6, <2>2 DEF Abs!MemCreate
<1>7. CASE ~Has(f, k)
  <2>1. PICK v : v = [type |-> "memory", size |-> 0]
    OBVIOUS
  <2>2. v \in Value /\ Abs!Val("memory", 0) = v /\ Abs!Never = Never
    BY <2>1 DEF Value, StoreType, Abs!Val, Abs!Never, Never
  <2>3. PICK r : r = Install(f, k, v)
    OBVIOUS
  <2>4. Command(r)
    BY <1>2, <1>7, <2>1, <2>3 DEF MemCreate
  <2>5. Binds(f, r, k, v, Never, now)
    BY <1>3, <2>2, <2>3, InstallSeen
  <2>6. Content(r, now) = Abs!Prune(Abs!Bind(d, k, v, Never), now)
    BY <1>3, <2>5 DEF Binds
  <2>7. Abs!EndsWith(now, Abs!Bind(d, k, v, Never))
    BY <2>4, <2>6, Ends
  <2> QED
    BY <1>2, <1>5, <1>7, <2>2, <2>7 DEF Abs!MemCreate
<1> QED
  BY <1>6, <1>7

\* A write to a memory index changes its records, not its deadline.
LEMMA MemWritePromised ==
  ASSUME IInv, NEW k \in Keys, NEW n \in Sizes, NEW t2 \in Later, MemWrite(k, n, t2)
  PROVE  Abs!MemWrite(k, n, t2)
<1>1. now \in Int /\ t2 \in Int /\ now <= t2 /\ Good(store, {}) /\ n \in Nat
  BY Now, StringIs DEF Later
<1>2. PICK d, f : d = Content(store, now) /\ f = Find(store, k, now)
  OBVIOUS
<1>3. /\ Good(f, {}) /\ Content(f, now) = d /\ Shows(f, k, d)
      /\ Content(f, t2) = Content(store, t2)
  BY <1>1, <1>2, Looked
<1>4. Content(f, t2) = Abs!Prune(d, t2)
  BY <1>1, <1>2, <1>3, ContentLater
<1>5. /\ Abs!HoldsOther(k, "memory") <=> ~TypeAllows(f, k, "memory")
      /\ Abs!Held(k) <=> Has(f, k)
      /\ Abs!ExpiryOf(k) = Deadline(d, k)
  BY <1>2, <1>3, Asked
<1>6. CASE ~(Has(f, k) /\ TypeAllows(f, k, "memory"))
  <2>1. CommandUntil(t2, TRUE, f)
    BY <1>2, <1>6 DEF MemWrite
  <2>2. Abs!EndsWith(t2, d)
    BY <1>4, <2>1, EndsUntil
  <2> QED
    BY <1>2, <1>5, <1>6, <2>2 DEF Abs!MemWrite
<1>7. CASE Has(f, k) /\ TypeAllows(f, k, "memory")
  <2>1. /\ k \in DOMAIN f.map /\ k \in DOMAIN d /\ f.map[k].value.type = "memory"
        /\ f.map[k].expireAt = d[k].expireAt /\ Deadline(d, k) = d[k].expireAt
    BY <1>3, <1>7 DEF Shows, TypeAllows, Has, Deadline
  <2>2. PICK v, at : v = Abs!Val("memory", n) /\ at = d[k].expireAt
    OBVIOUS
  <2>3. ASSUME Abs!EndsWith(t2, Abs!Bind(d, k, v, at))
        PROVE  Abs!MemWrite(k, n, t2)
    BY <1>2, <1>5, <1>7, <2>1, <2>2, <2>3 DEF Abs!MemWrite
  <2>4. PICK g, r : g = Find(f, k, t2) /\ r = SetSize(g, k, n)
    OBVIOUS
  <2>5. /\ Has(g, k) => CommandUntil(t2, TRUE, r)
        /\ ~Has(g, k) => CommandUntil(t2, FALSE, r)
    BY <1>2, <1>7, <2>4 DEF MemWrite, CommandUntil
  <2>6. /\ Has(g, k) <=> IsLive(f.map[k], t2)
        /\ Has(g, k) => g = f
    BY <1>3, <2>1, <2>4, FindHas
  <2>7. CASE Has(g, k)
    <3>1. CommandUntil(t2, TRUE, r)
      BY <2>5, <2>7
    <3>2. r = SetSize(f, k, n)
      BY <2>4, <2>6, <2>7
    <3>3. Binds(f, r, k, Abs!Val(f.map[k].value.type, n), f.map[k].expireAt, t2)
      BY <1>1, <1>3, <2>1, <3>2, SetSizeSeen
    <3>4. Content(r, t2) = Abs!Prune(Abs!Bind(Abs!Prune(d, t2), k, v, at), t2)
      BY <1>4, <2>1, <2>2, <3>3 DEF Binds
    <3>5. Content(r, t2) = Abs!Prune(Abs!Bind(d, k, v, at), t2)
      BY <3>4, PruneBind
    <3> QED
      BY <2>3, <3>1, <3>5, EndsUntil
  <2>8. CASE ~Has(g, k)
    <3>1. CommandUntil(t2, FALSE, r)
      BY <2>5, <2>8
    <3>2. ~(d[k].expireAt = Never \/ d[k].expireAt > t2)
      BY <2>1, <2>6, <2>8 DEF IsLive
    <3>3. Content(store, t2) = Abs!Prune(Abs!Drop(d, {k}), t2)
      BY <1>1, <1>2, <3>2, DueDropped
    <3>4. Content(store, t2) = Abs!Prune(Abs!Bind(d, k, v, at), t2)
      BY <2>2, <3>2, <3>3, DueBound
    <3>5. Abs!EndsWith(t2, Abs!Bind(d, k, v, at))
      BY <3>1, <3>4, EndsUntil
    <3> QED
      BY <2>3, <3>5
  <2> QED
    BY <2>7, <2>8
<1> QED
  BY <1>6, <1>7

\* Eviction is a DEL of the victim.
LEMMA EvictPromised ==
  ASSUME IInv, NEW k \in Keys, Evict(k)
  PROVE  Abs!Forget({k})
<1>1. Good(store, {}) /\ k \in DOMAIN store.map
  BY Now DEF Evict, LiveKeys
<1>2. PICK r : r = MarkDirty(RemoveEntry(store, k))
  OBVIOUS
<1>3. Contents(r) = Without(Contents(store), k)
  BY <1>1, <1>2, RemoveContents
<1>4. Content(r, now) = Abs!Prune(Abs!Drop(Content(store, now), {k}), now)
  BY <1>3, DropSeen
<1>5. Abs!EndsWith(now, Abs!Drop(Content(store, now), {k}))
  BY <1>2, <1>4, Ends DEF Evict
<1> QED
  BY <1>5 DEF Abs!Forget

\* FLUSHALL takes everything away.
LEMMA FlushAllPromised ==
  ASSUME FlushAll
  PROVE  Abs!Forget(DOMAIN Content(store, now))
<1>1. DOMAIN Flush(store).map = {}
  BY DEF Flush, EmptyStore, MarkDirty
<1>2. PICK d : d = Content(store, now)
  OBVIOUS
<1>3. Content(Flush(store), now) = Abs!Prune(Abs!Drop(d, DOMAIN d), now)
  BY <1>1 DEF Content, LiveKeys, Abs!Prune, Abs!Drop
<1>4. Abs!EndsWith(now, Abs!Drop(d, DOMAIN d))
  BY <1>3, Ends DEF FlushAll
<1> QED
  BY <1>2, <1>4 DEF Abs!Forget

\* The clock only takes keys away.
LEMMA TickPromised ==
  ASSUME IInv, Tick
  PROVE  Abs!Pass(now + 1)
<1>1. Good(store, {}) /\ now \in Int /\ now + 1 \in Int /\ now <= now + 1
  BY Now
<1>2. Content(store, now + 1) = Abs!Prune(Content(store, now), now + 1)
  BY <1>1, ContentLater
<1> QED
  BY <1>2 DEF Tick, Abs!Pass, Abs!EndsWith

\* A step that changes neither the clock nor what is seen.
LEMMA Unseen ==
  ASSUME now' = now, Content(store', now) = Content(store, now)
  PROVE  Abs!Pass(now)
<1>1. Content(store, now)' = Content(store', now')
  OBVIOUS
<1> QED
  BY <1>1, ContentPruned DEF Abs!Pass, Abs!EndsWith

\* A sweep's first half only has keys left to drop that are due: dropping them
\* shows nothing to a client.  (They are not looked up again before they go.)
SweepDue == task = "keys" => \A k \in sweeping : ~IsLive(store.map[k], now)

\* So the first half of a sweep is unseen.
LEMMA SweepKeyPromised ==
  ASSUME IInv, SweepDue, NEW k, SweepKey(k)
  PROVE  Abs!Pass(now)
<1>1. /\ Good(store, {}) /\ k \in DOMAIN store.map /\ ~IsLive(store.map[k], now)
      /\ store' = MarkDirty(RemoveEntry(store, k)) /\ now' = now
  BY Now DEF SweepKey, SweepDue, IInv, Typed
<1>2. PICK r : r = MarkDirty(RemoveEntry(store, k))
  OBVIOUS
<1>3. Contents(r) = Without(Contents(store), k)
  BY <1>1, <1>2, RemoveContents
<1>4. Content(r, now) = Abs!Prune(Abs!Drop(Content(store, now), {k}), now)
  BY <1>3, DropSeen
<1>5. k \notin DOMAIN Content(store, now)
  BY <1>1, ContentFacts
<1>6. Content(r, now) = Content(store, now)
  BY <1>4, <1>5, SameContent, ContentPruned
<1> QED
  BY <1>1, <1>2, <1>6, Unseen

\* The second half takes expired records out of an index that is still there.
LEMMA SweepMemoryPromised ==
  ASSUME IInv, NEW k \in sweeping, NEW n \in Sizes, SweepMemory(k, n)
  PROVE  Abs!MemWrite(k, n, now) \/ Abs!Pass(now)
<1>1. /\ Good(store, {}) /\ now \in Int /\ n \in Nat /\ now' = now
      /\ k \in DOMAIN store.map /\ store.map[k].value.type = "memory"
  BY Now, StringIs DEF SweepMemory, IInv, Typed
<1>2. PICK d, f : d = Content(store, now) /\ f = Find(store, k, now)
  OBVIOUS
<1>3. Good(f, {}) /\ Content(f, now) = d /\ Shows(f, k, d)
  BY <1>2, Looked
<1>4. CASE store' = f
  BY <1>1, <1>2, <1>3, <1>4, Unseen
<1>5. CASE Has(f, k) /\ store' = SetSize(f, k, n)
  <2>1. k \in DOMAIN f.map /\ f = store
    <3>1. Has(f, k) => f = store
      BY <1>1, <1>2, FindHas
    <3> QED
      BY <1>5, <3>1 DEF Has
  <2>2. /\ k \in DOMAIN d /\ f.map[k].value.type = "memory"
        /\ f.map[k].expireAt = Deadline(d, k)
    BY <1>1, <1>3, <1>5, <2>1 DEF Shows, Deadline
  <2>3. PICK r : r = SetSize(f, k, n)
    OBVIOUS
  <2>4. Binds(f, r, k, Abs!Val(f.map[k].value.type, n), f.map[k].expireAt, now)
    BY <1>1, <1>3, <2>1, <2>3, SetSizeSeen
  <2>5. Content(r, now) = Abs!Prune(Abs!Bind(d, k, Abs!Val("memory", n), Deadline(d, k)), now)
    BY <1>3, <2>2, <2>4 DEF Binds
  <2>6. Abs!EndsWith(now, Abs!Bind(d, k, Abs!Val("memory", n), Deadline(d, k)))
    BY <1>1, <1>5, <2>3, <2>5 DEF Abs!EndsWith
  <2>7. /\ Abs!Held(k) /\ ~Abs!HoldsOther(k, "memory") /\ Abs!ExpiryOf(k) = Deadline(d, k)
    <3>1. TypeAllows(f, k, "memory")
      BY <2>2 DEF TypeAllows
    <3> QED
      BY <1>2, <1>3, <1>5, <3>1, Asked
  <2>8. Abs!MemWrite(k, n, now)
    BY <1>2, <2>6, <2>7 DEF Abs!MemWrite
  <2> QED
    BY <2>8
<1> QED
  BY <1>2, <1>4, <1>5 DEF SweepMemory

\* What the rest of a sweep does, and a save, nobody sees.
LEMMA OtherUnseen ==
  ASSUME IInv, SweepBegin \/ SweepMemories \/ SweepEnd \/ ResetDirty
  PROVE  Abs!Pass(now)
<1>1. CASE SweepBegin \/ SweepMemories \/ SweepEnd
  BY <1>1, Unseen DEF SweepBegin, SweepMemories, SweepEnd
<1>2. CASE ResetDirty
  <2>1. PICK w : w = [store EXCEPT !.dirty = FALSE]
    OBVIOUS
  <2>2. w.map = store.map
    BY <2>1 DEF IInv, Typed, Stores
  <2>3. Content(w, now) = Content(store, now)
    BY <2>2 DEF Content, LiveKeys
  <2>4. now' = now /\ store' = w
    BY <1>2, <2>1 DEF ResetDirty, Command
  <2> QED
    BY <2>3, <2>4, Unseen
<1> QED
  BY <1>1, <1>2

\* A command starts and ends between two sweeps.
LEMMA CommandIdle ==
  ASSUME NEW k, KeyCommand(k) \/ StringCommand(k) \/ CollectionCommand(k) \/ MemoryCommand(k)
  PROVE  task = "idle" /\ task' = "idle"
<1> USE DEF Command, CommandUntil
<1>1. CASE KeyCommand(k)
  BY <1>1 DEF KeyCommand, Read, DelKey, Expire, Persist, RenameKey, Copy
<1>2. CASE StringCommand(k)
  BY <1>2 DEF StringCommand, Set, MSet, Update, GetDel, GetEx
<1>3. ASSUME NEW type, NEW m, NEW t2,
             Add(k, type, m, t2) \/ AddX(k, type, m, t2) \/ Remove(k, type, m)
      PROVE  task = "idle" /\ task' = "idle"
  BY <1>3 DEF Add, AddX, Remove
<1>4. ASSUME NEW dest, NEW type, NEW m, NEW t2, Move(k, dest, type, m, t2)
      PROVE  task = "idle" /\ task' = "idle"
  BY <1>4 DEF Move
<1>5. ASSUME NEW present, HSetNX(k, "hash", present)
      PROVE  task = "idle" /\ task' = "idle"
  BY <1>5 DEF HSetNX
<1>6. ASSUME NEW k1, NEW k2, NEW n, StoreSet(k, k1, k2, n)
      PROVE  task = "idle" /\ task' = "idle"
  BY <1>6 DEF StoreSet
<1>7. ASSUME NEW present, NEW finite, NEW t2, ZIncrBy(k, present, finite, t2)
      PROVE  task = "idle" /\ task' = "idle"
  BY <1>7 DEF ZIncrBy
<1>8. CASE CollectionCommand(k)
  BY ONLY <1>3, <1>4, <1>5, <1>6, <1>7, <1>8
     DEF CollectionCommand, ListCommand, HashCommand, SetCommand, ZSetCommand
<1>9. CASE MemoryCommand(k)
  BY <1>9 DEF MemoryCommand, MemCreate, MemWrite
<1> QED
  BY <1>1, <1>2, <1>8, <1>9

\* Keys that are due stay due as the clock moves on and as others are dropped.
LEMMA StepDue == IInv /\ SweepDue /\ [Next]_vars => SweepDue'
<1> SUFFICES ASSUME IInv, SweepDue, [Next]_vars PROVE SweepDue'
  OBVIOUS
<1>1. ASSUME NEW k \in Keys, KeyCommand(k) \/ StringCommand(k) \/ CollectionCommand(k) \/ MemoryCommand(k)
      PROVE  SweepDue'
  BY <1>1, CommandIdle DEF SweepDue
<1>2. CASE SweepBegin
  BY <1>2 DEF SweepBegin, DueKeys, SweepDue
<1>3. ASSUME NEW k \in sweeping, SweepKey(k)
      PROVE  SweepDue'
  <2>1. /\ Good(store, {}) /\ k \in DOMAIN store.map /\ now' = now /\ task = "keys"
        /\ sweeping' = sweeping \ {k} /\ sweeping \subseteq DOMAIN store.map
        /\ store' = MarkDirty(RemoveEntry(store, k))
    BY <1>3, Now DEF SweepKey, IInv, Typed
  <2>2. PICK r : r = MarkDirty(RemoveEntry(store, k))
    OBVIOUS
  <2>3. Contents(r) = Without(Contents(store), k)
    BY <2>1, <2>2, RemoveContents
  <2>4. \A x \in DOMAIN store.map \ {k} : r.map[x].expireAt = store.map[x].expireAt
    <3>1. DOMAIN r.map = DOMAIN store.map \ {k}
      BY <2>3 DEF Contents, Without
    <3>2. \A x \in DOMAIN r.map : Contents(r)[x].expireAt = Contents(store)[x].expireAt
      BY <2>3, <3>1 DEF Contents, Without
    <3> QED
      BY <3>1, <3>2 DEF Contents
  <2> QED
    BY <2>1, <2>2, <2>4 DEF SweepDue, IsLive
<1>4. CASE Tick
  <2>1. now \in Int /\ Good(store, {})
    BY Now
  <2>2. \A x \in DOMAIN store.map : store.map[x].expireAt \in Int
    BY <2>1, GoodFields DEF Expiry, Never
  <2>3. now' = now + 1 /\ store' = store /\ sweeping' = sweeping /\ task' = task
        /\ sweeping \subseteq DOMAIN store.map
    BY <1>4 DEF Tick, IInv, Typed
  <2> QED
    BY <2>1, <2>2, <2>3 DEF SweepDue, IsLive
<1>5. CASE \/ SweepMemories
           \/ \E k \in sweeping, n \in Sizes : SweepMemory(k, n)
           \/ SweepEnd
  BY <1>5 DEF SweepMemories, SweepMemory, SweepEnd, SweepDue
<1>6. CASE \/ \E k \in Keys : Evict(k)
           \/ ResetDirty
           \/ FlushAll
  BY <1>6 DEF Evict, ResetDirty, FlushAll, Command, SweepDue
<1>7. CASE UNCHANGED vars
  BY <1>7 DEF vars, SweepDue
<1> QED
  BY <1>1, <1>2, <1>3, <1>4, <1>5, <1>6, <1>7 DEF Next, Housekeeping

\* It starts with no sweep running.
LEMMA DueInvariance == Spec => [](IInv /\ SweepDue)
<1>1. Init => SweepDue
  BY DEF Init, SweepDue
<1> QED
  BY <1>1, InitInv, StepInv, StepDue, PTL DEF Spec

\* Every command of the server is, to its clients, the command it promises to
\* be, whatever has expired without being dropped or expires between its two
\* lookups, except in the cases CommandsAsPromised names and says what happens
\* in: a key that lapses between the two, and ZINCRBY's undo.
THEOREM CommandsPromised == Spec => CommandsAsPromised
<1> DEFINE Promise == \A k \in Keys : /\ KeyPromises(k) /\ StringPromises(k)
                                      /\ CollectionPromises(k) /\ OtherPromises(k)
<1>1. IInv /\ SweepDue => Promise
  <2> SUFFICES ASSUME IInv, SweepDue, NEW k \in Keys
               PROVE  /\ KeyPromises(k) /\ StringPromises(k)
                      /\ CollectionPromises(k) /\ OtherPromises(k)
    OBVIOUS
  <2>1. KeyPromises(k)
    BY ReadPromised, DelKeyPromised, ExpirePromised, PersistPromised, RenameKeyPromised,
       CopyPromised
    DEF KeyPromises
  <2>2. StringPromises(k)
    BY SetPromised, MSetPromised, UpdatePromised, GetDelPromised, GetExPromised
    DEF StringPromises
  <2>3. CollectionPromises(k)
    BY AddPromised, AddXPromised, RemovePromised, HSetNXPromised, MovePromised,
       StoreSetPromised, ZIncrByPromised
    DEF CollectionPromises
  <2>4. OtherPromises(k)
    BY MemCreatePromised, MemWritePromised, SweepKeyPromised, EvictPromised, FlushAllPromised,
       TickPromised
    DEF OtherPromises
  <2> QED
    BY <2>1, <2>2, <2>3, <2>4
<1> QED
  BY <1>1, DueInvariance, PTL DEF CommandsAsPromised

\* The server's keyspace implements the promised one: every step is a promised
\* command, the passing of time, or nothing at all that a client can see.
THEOREM Refinement == Spec => ImplementsKeyspace
<1>1. Init => Abs!Init
  <2> SUFFICES ASSUME Init PROVE Abs!Init
    OBVIOUS
  <2>1. LiveKeys(store, now) = {}
    BY DEF Init, EmptyStore, LiveKeys
  <2> QED
    BY <2>1 DEF Init, Content, Abs!Init
<1>2. ASSUME IInv, SweepDue, [Next]_vars
      PROVE  [Abs!Next]_<<Content(store, now), now>>
  <2>0. /\ now \in now .. MaxTime /\ now \in Int
        /\ Abs!Time = Time /\ Abs!Sizes = Sizes /\ Abs!Deltas = Deltas /\ Abs!Never = Never /\ Abs!Keep = Keep
        /\ now .. MaxTime = Later
    BY <1>2, MaxTimeAssumption
       DEF IInv, Typed, Time, Sizes, Deltas, Later, Never, Keep,
           Abs!Time, Abs!Sizes, Abs!Deltas, Abs!Never, Abs!Keep
  <2>1. ASSUME NEW t \in Later, Abs!Pass(t)
        PROVE  Abs!Next
    BY <2>0, <2>1 DEF Abs!Next
  <2>2. ASSUME NEW k \in Keys, Abs!Command(k)
        PROVE  Abs!Next
    BY <2>2 DEF Abs!Next
  <2>3. ASSUME NEW k \in Keys, KeyCommand(k)
        PROVE  Abs!Next
    <3>1. ASSUME NEW at \in Time, Expire(k, at)
          PROVE  Abs!Next
      BY <1>2, <2>0, <2>2, <3>1, ExpirePromised DEF Abs!Command
    <3>2. ASSUME NEW new \in Keys, NEW nx \in BOOLEAN, RenameKey(k, new, nx)
          PROVE  Abs!Next
      BY <1>2, <2>0, <2>2, <3>2, RenameKeyPromised DEF Abs!Command
    <3>3. ASSUME NEW dest \in Keys, NEW replace \in BOOLEAN, NEW t2 \in Later,
                 Copy(k, dest, replace, t2)
          PROVE  Abs!Next
      <4>1. Abs!Copy(k, dest, replace, t2)
        BY <1>2, <3>3, CopyPromised
      <4>2. Abs!Command(k)
        BY <2>0, <4>1 DEF Abs!Command
      <4> QED
        BY <2>2, <4>2
    <3>4. CASE Read(k)
      BY <1>2, <2>0, <2>1, <3>4, ReadPromised
    <3>5. CASE DelKey(k)
      BY <1>2, <2>2, <3>5, DelKeyPromised DEF Abs!Command
    <3>6. CASE Persist(k)
      BY <1>2, <2>0, <2>2, <3>6, PersistPromised DEF Abs!Command
    <3> QED
      BY ONLY <2>3, <3>1, <3>2, <3>3, <3>4, <3>5, <3>6 DEF KeyCommand
  <2>4. ASSUME NEW k \in Keys, StringCommand(k)
        PROVE  Abs!Next
    <3>0. ASSUME NEW n \in Sizes, NEW cond \in {"any", "nx", "xx"},
                 NEW ex \in Time \cup {Never, Keep}, NEW t2 \in Later, Abs!Set(k, n, cond, ex, t2)
          PROVE  Abs!Next
      <4>1. Abs!Command(k)
        BY <2>0, <3>0 DEF Abs!Command
      <4> QED
        BY <2>2, <4>1
    <3>1. ASSUME NEW n \in Sizes, NEW cond \in {"any", "nx", "xx"},
                 NEW ex \in Time \cup {Never, Keep}, NEW t2 \in Later, Set(k, n, cond, ex, t2)
          PROVE  Abs!Next
      <4>1. Abs!Set(k, n, cond, ex, t2) \/ Abs!Set(k, n, "any", Never, t2)
        BY <1>2, <3>1, SetPromised
      <4> QED
        BY <3>0, <4>1
    <3>2. ASSUME NEW k2 \in Keys, NEW n \in Sizes, NEW nx \in BOOLEAN, MSet(k, k2, n, nx)
          PROVE  Abs!Next
      BY <1>2, <2>0, <2>2, <3>2, MSetPromised DEF Abs!Command
    <3>3. ASSUME NEW m \in Deltas, NEW t2 \in Later, Update(k, m, t2)
          PROVE  Abs!Next
      <4>1. \/ Abs!SizeOf(k) + m \in Sizes /\ Abs!Set(k, Abs!SizeOf(k) + m, "any", Never, t2)
            \/ Abs!Update(k, m, t2)
        BY <1>2, <3>3, UpdatePromised
      <4>2. CASE Abs!Update(k, m, t2)
        BY <2>0, <2>2, <4>2 DEF Abs!Command
      <4> QED
        BY <3>0, <4>1, <4>2
    <3>4. CASE GetDel(k)
      BY <1>2, <2>2, <3>4, GetDelPromised DEF Abs!Command
    <3>5. ASSUME NEW ex \in Time \cup {Never, Keep}, GetEx(k, ex)
          PROVE  Abs!Next
      BY <1>2, <2>0, <2>2, <3>5, GetExPromised DEF Abs!Command
    <3> QED
      BY ONLY <2>4, <3>1, <3>2, <3>3, <3>4, <3>5 DEF StringCommand
  <2>5. ASSUME NEW k \in Keys, CollectionCommand(k)
        PROVE  Abs!Next
    <3>1. ASSUME NEW type \in Collections, NEW m \in Sizes, NEW t2 \in Later,
                 \/ Abs!Add(k, type, m, t2)
                 \/ Abs!AddX(k, type, m, t2)
                 \/ Abs!Remove(k, type, m, t2)
          PROVE  Abs!Next
      <4>1. Abs!Command(k)
        BY <2>0, <3>1 DEF Abs!Command
      <4> QED
        BY <2>2, <4>1
    <3>2. ASSUME NEW type \in Collections, NEW m \in Sizes, NEW t2 \in Later,
                 Add(k, type, m, t2) \/ AddX(k, type, m, t2)
          PROVE  Abs!Next
      <4>1. CASE Add(k, type, m, t2)
        BY <1>2, <3>1, <4>1, AddPromised
      <4>2. CASE AddX(k, type, m, t2)
        BY <1>2, <3>1, <4>2, AddXPromised
      <4> QED
        BY <3>2, <4>1, <4>2
    <3>a. ASSUME NEW type \in Collections, NEW m \in Sizes, Remove(k, type, m)
          PROVE  Abs!Next
      <4>1. Abs!Remove(k, type, m, now) /\ now \in Later
        BY <1>2, <2>0, <3>a, RemovePromised
      <4> QED
        BY <3>1, <4>1
    <3>3. ASSUME NEW dest \in Keys, NEW type \in Collections, NEW m \in {0, 1},
                 NEW t2 \in Later, Move(k, dest, type, m, t2)
          PROVE  Abs!Next
      <4>1. Abs!Move(k, dest, type, m, t2)
        BY <1>2, <3>3, MovePromised
      <4>2. Abs!Command(k)
        BY <2>0, <4>1 DEF Abs!Command
      <4> QED
        BY <2>2, <4>2
    <3>4. ASSUME "hash" \in Collections, NEW present \in BOOLEAN, HSetNX(k, "hash", present)
          PROVE  Abs!Next
      <4>1. PICK m : m = IF present THEN 0 ELSE 1
        OBVIOUS
      <4>2. Abs!Add(k, "hash", m, now) /\ now \in Later
        BY <1>2, <2>0, <3>4, <4>1, HSetNXPromised
      <4>3. m \in Sizes
        BY <4>1, MaxLenAssumption DEF Sizes
      <4> QED
        BY <3>1, <3>4, <4>2, <4>3
    <3>5. ASSUME "set" \in Collections, NEW k1 \in Keys, NEW k2 \in Keys, NEW n \in Sizes,
                 StoreSet(k, k1, k2, n)
          PROVE  Abs!Next
      <4>1. Abs!StoreSet(k, k1, k2, n)
        BY <1>2, <3>5, StoreSetPromised
      <4>2. Abs!Command(k)
        BY <2>0, <4>1 DEF Abs!Command
      <4> QED
        BY <2>2, <4>2
    <3>6. ASSUME "zset" \in Collections, NEW present \in BOOLEAN, NEW finite \in BOOLEAN,
                 NEW t2 \in Later, ZIncrBy(k, present, finite, t2)
          PROVE  Abs!Next
      <4>1. Abs!Remove(k, "zset", 1, t2) \/ Abs!ZIncrBy(k, present, finite, t2)
        BY <1>2, <3>6, ZIncrByPromised
      <4>2. CASE Abs!Remove(k, "zset", 1, t2)
        <5>1. 1 \in Sizes
          BY MaxLenAssumption DEF Sizes
        <5> QED
          BY <3>1, <3>6, <4>2, <5>1
      <4>3. CASE Abs!ZIncrBy(k, present, finite, t2)
        <5>1. Abs!Command(k)
          BY <2>0, <4>3 DEF Abs!Command
        <5> QED
          BY <2>2, <5>1
      <4> QED
        BY <4>1, <4>2, <4>3
    <3>7. CASE ListCommand(k)
      BY ONLY <3>2, <3>a, <3>3, <3>7 DEF ListCommand
    <3>8. CASE HashCommand(k)
      BY ONLY <3>2, <3>a, <3>4, <3>8 DEF HashCommand
    <3>9. CASE SetCommand(k)
      BY ONLY <3>2, <3>a, <3>3, <3>5, <3>9 DEF SetCommand
    <3>10. CASE ZSetCommand(k)
      BY ONLY <3>2, <3>a, <3>6, <3>10 DEF ZSetCommand
    <3> QED
      BY <2>5, <3>7, <3>8, <3>9, <3>10 DEF CollectionCommand
  <2>6. ASSUME NEW k \in Keys, MemoryCommand(k)
        PROVE  Abs!Next
    <3>1. CASE MemCreate(k)
      BY <1>2, <2>2, <3>1, MemCreatePromised DEF Abs!Command
    <3>2. ASSUME NEW n \in Sizes, NEW t2 \in Later, MemWrite(k, n, t2)
          PROVE  Abs!Next
      BY <1>2, <2>0, <2>2, <3>2, MemWritePromised DEF Abs!Command
    <3> QED
      BY ONLY <2>6, <3>1, <3>2 DEF MemoryCommand
  <2>7. CASE FlushAll
    <3>1. Abs!Forget(DOMAIN Content(store, now))
      BY <2>7, FlushAllPromised
    <3>2. CASE Keys = {}
      <4>1. DOMAIN store.map = {} /\ DOMAIN Flush(store).map = {}
        BY <1>2, <3>2, Now, GoodFields DEF Flush, EmptyStore, MarkDirty
      <4>2. LiveKeys(store, now) = {} /\ LiveKeys(Flush(store), now) = {}
        BY <4>1 DEF LiveKeys
      <4>3. Content(Flush(store), now) = Content(store, now)
        BY <4>2 DEF Content
      <4>4. Abs!Pass(now)
        BY <2>7, <4>3, Unseen DEF FlushAll, Command
      <4> QED
        BY <2>0, <2>1, <4>4
    <3>3. ASSUME NEW k \in Keys
          PROVE  Abs!Next
      BY <2>2, <3>1 DEF Abs!Command
    <3> QED
      BY <3>2, <3>3
  <2>8. CASE Housekeeping
    <3>1. CASE SweepBegin \/ SweepMemories \/ SweepEnd \/ ResetDirty
      BY <1>2, <2>0, <2>1, <3>1, OtherUnseen
    <3>2. ASSUME NEW k \in sweeping, SweepKey(k)
          PROVE  Abs!Next
      BY <1>2, <2>0, <2>1, <3>2, SweepKeyPromised
    <3>3. ASSUME NEW k \in sweeping, NEW n \in Sizes, SweepMemory(k, n)
          PROVE  Abs!Next
      <4>1. k \in Keys
        BY <1>2, Now, GoodFields DEF IInv, Typed
      <4>2. CASE Abs!Pass(now)
        BY <2>0, <2>1, <4>2
      <4>3. CASE Abs!MemWrite(k, n, now)
        BY <2>0, <2>2, <4>1, <4>3 DEF Abs!Command
      <4> QED
        BY <1>2, <3>3, <4>2, <4>3, SweepMemoryPromised
    <3>4. ASSUME NEW k \in Keys, Evict(k)
          PROVE  Abs!Next
      BY <1>2, <2>2, <3>4, EvictPromised DEF Abs!Command
    <3> QED
      BY ONLY <2>8, <3>1, <3>2, <3>3, <3>4 DEF Housekeeping
  <2>9. CASE Tick
    <3>1. now + 1 \in Later
      BY <2>0, <2>9, MaxTimeAssumption DEF Tick, Later
    <3> QED
      BY <1>2, <2>1, <2>9, <3>1, TickPromised
  <2>10. CASE UNCHANGED vars
    <3>1. store' = store /\ now' = now
      BY <2>10 DEF vars
    <3>2. Content(store, now)' = Content(store', now')
      OBVIOUS
    <3> QED
      BY <3>1, <3>2
  <2> QED
    BY <1>2, <2>3, <2>4, <2>5, <2>6, <2>7, <2>8, <2>9, <2>10 DEF Next
<1> QED
  BY <1>1, <1>2, DueInvariance, PTL DEF Spec, ImplementsKeyspace, Abs!Spec

=============================================================================
