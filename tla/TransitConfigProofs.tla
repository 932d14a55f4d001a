------------------------- MODULE TransitConfigProofs -------------------------
(***************************************************************************)
(* Theorems about TransitConfig.  For any number of processes that change  *)
(* the configuration at once: the types, and the users of the inbound stay *)
(* distinct.  For one process (Serialised), which runs one operation after *)
(* the other: sing-box is not made to load what it would refuse, what is   *)
(* half done in the files is the work of an operation that was cut short,  *)
(* and uncut operations implement LinkTable, whatever is in which file.    *)
(* If the rules are never written before the outbounds (OutboundsAreFirst) *)
(* no bind leaves one dangling, and if they are never written before the   *)
(* users (UsersAreFirst) repeating what was cut short repairs the files.   *)
(***************************************************************************)
EXTENDS TransitConfig, NaturalsInduction, WellFoundedInduction, TLAPS

\* The inductive invariant: files are overwritten with copies and copies are made
\* from files, so distinctness in both is kept; the copies are a function of the
\* worker.
DistinctEverywhere == /\ copy = [w \in Workers |-> copy[w]]
                      /\ UsersAreDistinct

\* A configuration without users has no two alike.
LEMMA EmptyDistinct == Distinct(Empty)
  BY DEF Distinct, Empty

\* Removing users keeps the others distinct.
LEMMA FewerDistinct ==
  ASSUME NEW c, NEW d, Distinct(c), d.users \subseteq c.users
  PROVE  Distinct(d)
  BY DEF Distinct

\* bindTransit makes room for the user by its name and by its UUID.
LEMMA BoundDistinct ==
  ASSUME NEW c, NEW u, NEW e, NEW i, Distinct(c)
  PROVE  Distinct(Bound(c, u, e, i))
<1> DEFINE new == [name |-> u, id |-> i]
           rest == c.users \ Replaced(c, u, i)
<1>1. Bound(c, u, e, i).users = rest \cup {new}
  BY DEF Bound
<1>2. \A x \in rest : x \in c.users /\ x.name # new.name /\ x.id # new.id
  BY DEF Replaced
<1>3. QED
  BY <1>1, <1>2 DEF Distinct

\* unbindTransit only removes users.
LEMMA UnboundDistinct ==
  ASSUME NEW c, NEW u, NEW e, Distinct(c)
  PROVE  Distinct(Unbound(c, u, e))
<1>1. Unbound(c, u, e).users \subseteq c.users
  BY DEF Unbound
<1>2. QED
  BY <1>1, FewerDistinct

\* A file that is written has the users of one side or of the other.
LEMMA OverwrittenDistinct ==
  ASSUME NEW c, NEW d, NEW S, Distinct(c), Distinct(d)
  PROVE  Distinct(Overwritten(c, d, S))
<1>1. Overwritten(c, d, S).users \in {c.users, d.users}
  BY DEF Overwritten
<1>2. QED
  BY <1>1 DEF Distinct

\* A worker that takes a distinct copy keeps the invariant.
LEMMA ChangeDistinct ==
  ASSUME DistinctEverywhere, NEW w \in Workers, NEW d, Distinct(d),
         copy' = [copy EXCEPT ![w] = d], conf' = conf
  PROVE  DistinctEverywhere'
<1>1. \A v \in Workers : copy'[v] = IF v = w THEN d ELSE copy[v]
  BY DEF DistinctEverywhere
<1>2. copy' = [v \in Workers |-> copy'[v]]
  BY DEF DistinctEverywhere
<1>3. Distinct(conf)' /\ \A v \in Workers : Distinct(copy'[v])
  BY <1>1 DEF DistinctEverywhere, UsersAreDistinct, Distinct
<1>4. QED
  BY <1>2, <1>3 DEF DistinctEverywhere, UsersAreDistinct, Distinct

\* A worker that ends its operation drops its copy.
LEMMA ReleaseDistinct ==
  ASSUME DistinctEverywhere, NEW w \in Workers, Release(w), conf' = conf
  PROVE  DistinctEverywhere'
  BY EmptyDistinct, ChangeDistinct DEF Release

\* A step that leaves files and copies alone keeps the invariant.
LEMMA StutterDistinct ==
  ASSUME DistinctEverywhere, UNCHANGED <<conf, copy>>
  PROVE  DistinctEverywhere'
  BY DEF DistinctEverywhere, UsersAreDistinct, Distinct

\* The operations keep the invariant, one step each.
LEMMA ProceedDistinct ==
  ASSUME DistinctEverywhere, NEW w \in Workers, Proceed(w)
  PROVE  DistinctEverywhere'
<1>1. CASE BindLoad(w)
  <2>1. PICK i \in Ids : Change(w, Bound(conf, job[w].user, job[w].endpoint, i),
                                DOMAIN Layout)
    BY <1>1 DEF BindLoad
  <2>2. Distinct(Bound(conf, job[w].user, job[w].endpoint, i))
    BY BoundDistinct DEF DistinctEverywhere, UsersAreDistinct
  <2>3. QED
    BY <1>1, <2>1, <2>2, ChangeDistinct DEF Change, BindLoad
<1>2. CASE UnbindLoad(w)
  <2> DEFINE out == IF job[w].tagged \/ job[w].endpoint \in stored
                    THEN job[w].endpoint ELSE None
             d == Unbound(conf, job[w].user, out)
  <2>1. copy' = [copy EXCEPT ![w] = d] /\ conf' = conf
    BY <1>2 DEF UnbindLoad, Change
  <2>2. Distinct(d)
    BY UnboundDistinct DEF DistinctEverywhere, UsersAreDistinct
  <2>3. QED
    BY <2>1, <2>2, ChangeDistinct
<1>3. CASE \E k \in DOMAIN Layout : Save(w, k)
  <2>1. PICK k \in DOMAIN Layout : Save(w, k)
    BY <1>3
  <2>2. Distinct(Overwritten(conf, copy[w], Layout[k]))
    BY OverwrittenDistinct DEF DistinctEverywhere, UsersAreDistinct
  <2>3. conf' = Overwritten(conf, copy[w], Layout[k]) /\ copy' = copy
    BY <2>1 DEF Save
  <2>4. QED
    BY <2>2, <2>3 DEF DistinctEverywhere, UsersAreDistinct
<1>4. CASE Saved(w)
  BY <1>4, ReleaseDistinct, StutterDistinct DEF Saved
<1>5. CASE Forget(w)
  BY <1>5, ReleaseDistinct DEF Forget
<1>6. CASE Check(w)
  BY <1>6, ReleaseDistinct, StutterDistinct DEF Check
<1>7. CASE Reload(w)
  BY <1>7, ReleaseDistinct DEF Reload
<1>8. QED
  BY <1>1, <1>2, <1>3, <1>4, <1>5, <1>6, <1>7 DEF Proceed

\* However many processes change the configuration at once and wherever they are
\* killed, the inbound never has two users with one name or one UUID.
THEOREM UsersStayDistinct == Spec => []UsersAreDistinct
<1>1. Init => DistinctEverywhere
  BY EmptyDistinct DEF Init, DistinctEverywhere, UsersAreDistinct
<1>2. DistinctEverywhere /\ [Next]_vars => DistinctEverywhere'
  <2> SUFFICES ASSUME DistinctEverywhere, [Next]_vars
               PROVE  DistinctEverywhere'
    OBVIOUS
  <2>1. ASSUME NEW w \in Workers, Start(w)
        PROVE  DistinctEverywhere'
    BY <2>1, StutterDistinct DEF Start, StartBind, StartLink, StartUnbind
  <2>2. ASSUME NEW w \in Workers, Proceed(w)
        PROVE  DistinctEverywhere'
    BY <2>2, ProceedDistinct
  <2>3. ASSUME NEW w \in Workers, Crash(w)
        PROVE  DistinctEverywhere'
    BY <2>3, ReleaseDistinct DEF Crash
  <2>4. CASE UNCHANGED vars
    BY <2>4, StutterDistinct DEF vars
  <2>5. QED
    BY <2>1, <2>2, <2>3, <2>4 DEF Next
<1>3. DistinctEverywhere => UsersAreDistinct
  BY DEF DistinctEverywhere
<1>4. QED
  BY <1>1, <1>2, <1>3, PTL DEF Spec

-------------------------------------------------------------------------------
(* Removing rules from a list *)

\* A set of numbers that is not empty has a least one.
LEMMA NatMinimum ==
  ASSUME NEW S, S \subseteq Nat, S # {}
  PROVE  \E x \in S : \A y \in S : x <= y
<1>1. \A y, z \in Nat : y < z => <<y, z>> \in OpToRel(<, Nat)
  <2>1. OpToRel(<, Nat) = {p \in Nat \X Nat : p[1] < p[2]}
    BY Zenon DEF OpToRel
  <2>2. QED
    BY <2>1
<1>2. \E R : /\ IsWellFoundedOn(R, Nat)
             /\ \A y, z \in Nat : y < z => <<y, z>> \in R
  BY <1>1, NatLessThanWellFounded, Zenon
<1>3. PICK R : /\ IsWellFoundedOn(R, Nat)
               /\ \A y, z \in Nat : y < z => <<y, z>> \in R
  BY <1>2, Zenon
<1>4. IsWellFoundedOn(R, Nat)
  BY <1>3
<1>5. PICK x \in S : \A y \in S : ~ (<<y, x>> \in R)
  BY <1>4, WFMin
<1>6. \A y \in S : x \in Nat /\ y \in Nat /\ ~(y < x)
  BY <1>3, <1>5
<1>7. QED
  BY <1>6

\* f[i] is what remains of the first i rules.
Keeps(f, rules, gone, n) ==
  f = [i \in 0..n |-> IF i = 0 THEN <<>>
                      ELSE IF rules[i] \in gone THEN f[i - 1]
                      ELSE Append(f[i - 1], rules[i])]

\* Such a function exists: it is continued rule by rule.
LEMMA KeepsExists ==
  ASSUME NEW rules, NEW gone, NEW n \in Nat
  PROVE  \E f : Keeps(f, rules, gone, n)
<1> DEFINE Bad == {m \in Nat : ~ \E f : Keeps(f, rules, gone, m)}
<1>1. SUFFICES ASSUME Bad # {}
               PROVE  FALSE
  OBVIOUS
<1>2. PICK m \in Bad : \A k \in Bad : m <= k
  BY <1>1, NatMinimum
<1>3. CASE m = 0
  <2> DEFINE f == [i \in 0..0 |-> <<>>]
  <2>1. Keeps(f, rules, gone, 0)
    BY DEF Keeps
  <2>2. QED
    BY <1>2, <1>3, <2>1
<1>4. CASE m # 0
  <2>1. m \in Nat /\ m - 1 \in Nat /\ m - 1 \notin Bad
    BY <1>2, <1>4
  <2>2. PICK f : Keeps(f, rules, gone, m - 1)
    BY <2>1
  <2> DEFINE h == [i \in 0..m |-> IF i < m THEN f[i]
                                  ELSE IF rules[m] \in gone THEN f[m - 1]
                                  ELSE Append(f[m - 1], rules[m])]
  <2>3. ASSUME NEW i \in 0..m
        PROVE  h[i] = IF i = 0 THEN <<>>
                      ELSE IF rules[i] \in gone THEN h[i - 1]
                      ELSE Append(h[i - 1], rules[i])
    <3>1. CASE i = m
      BY <2>1, <1>4, <3>1
    <3>2. CASE i < m
      <4>1. i \in 0..(m - 1)
        BY <2>1, <3>2
      <4>2. f[i] = IF i = 0 THEN <<>>
                   ELSE IF rules[i] \in gone THEN f[i - 1]
                   ELSE Append(f[i - 1], rules[i])
        BY <2>2, <4>1 DEF Keeps
      <4>3. h[i] = f[i] /\ (i # 0 => h[i - 1] = f[i - 1])
        BY <2>1, <3>2
      <4>4. QED
        BY <4>2, <4>3
    <3>3. QED
      BY <2>1, <3>1, <3>2
  <2> DEFINE g == [i \in 0..m |-> IF i = 0 THEN <<>>
                      ELSE IF rules[i] \in gone THEN h[i - 1]
                      ELSE Append(h[i - 1], rules[i])]
  <2>4. h = g
    <3>1. \A i \in 0..m : h[i] = g[i]
      BY <2>3
    <3>2. h = [i \in 0..m |-> h[i]] /\ g = [i \in 0..m |-> g[i]]
      OBVIOUS
    <3>3. QED
      BY <3>1, <3>2
  <2> HIDE DEF h
  <2>5. Keeps(h, rules, gone, m)
    BY <2>4 DEF Keeps
  <2>6. QED
    BY <1>2, <2>5
<1>5. QED
  BY <1>3, <1>4

\* Hence Without computes it.
LEMMA WithoutKeeps ==
  ASSUME NEW rules, NEW gone, Len(rules) \in Nat
  PROVE  \E f : /\ Keeps(f, rules, gone, Len(rules))
               /\ Without(rules, gone) = f[Len(rules)]
<1> DEFINE kept[i \in 0..Len(rules)] ==
        IF i = 0 THEN <<>>
        ELSE IF rules[i] \in gone THEN kept[i - 1]
        ELSE Append(kept[i - 1], rules[i])
<1>1. kept = CHOOSE f : Keeps(f, rules, gone, Len(rules))
  BY Zenon DEF Keeps
<1>2. Without(rules, gone) = kept[Len(rules)]
  BY Zenon DEF Without
<1> HIDE DEF kept
<1>3. Keeps(kept, rules, gone, Len(rules))
  BY <1>1, KeepsExists
<1>4. QED
  BY <1>2, <1>3

LEMMA AppendRange ==
  ASSUME NEW T, NEW s \in Seq(T), NEW x \in T
  PROVE  Range(Append(s, x)) = Range(s) \cup {x}
<1>1. /\ Len(Append(s, x)) = Len(s) + 1 /\ Len(s) \in Nat
      /\ Append(s, x)[Len(s) + 1] = x
      /\ \A i \in 1..Len(s) : Append(s, x)[i] = s[i]
      /\ DOMAIN Append(s, x) = 1..Len(s) + 1 /\ DOMAIN s = 1..Len(s)
  OBVIOUS
<1>2. QED
  BY <1>1 DEF Range

LEMMA ConcatRange ==
  ASSUME NEW T, NEW s \in Seq(T), NEW x \in T
  PROVE  <<x>> \o s \in Seq(T) /\ Range(<<x>> \o s) = {x} \cup Range(s)
<1> DEFINE t == <<x>> \o s
<1>1. /\ t \in Seq(T) /\ Len(t) = Len(s) + 1 /\ Len(s) \in Nat
      /\ t[1] = x /\ \A i \in 1..Len(s) : t[i + 1] = s[i]
      /\ DOMAIN t = 1..Len(s) + 1 /\ DOMAIN s = 1..Len(s)
  OBVIOUS
<1> HIDE DEF t
<1>2. Range(t) \subseteq {x} \cup Range(s)
  <2>1. ASSUME NEW i \in 1..Len(s) + 1
        PROVE  t[i] \in {x} \cup Range(s)
    <3>1. CASE i = 1
      BY <1>1, <3>1
    <3>2. CASE i # 1
      <4>1. i - 1 \in 1..Len(s) /\ t[i] = s[i - 1]
        BY <1>1, <3>2
      <4>2. QED
        BY <1>1, <4>1 DEF Range
    <3>3. QED
      BY <3>1, <3>2
  <2>2. QED
    BY <1>1, <2>1 DEF Range
<1>3. {x} \cup Range(s) \subseteq Range(t)
  <2>1. x \in Range(t)
    BY <1>1 DEF Range
  <2>2. ASSUME NEW i \in 1..Len(s)
        PROVE  s[i] \in Range(t)
    <3>1. i + 1 \in 1..Len(s) + 1 /\ t[i + 1] = s[i]
      BY <1>1
    <3>2. QED
      BY <1>1, <3>1 DEF Range
  <2>3. QED
    BY <1>1, <2>1, <2>2 DEF Range
<1>4. QED
  BY <1>1, <1>2, <1>3 DEF t

\* Without leaves exactly the rules that are not in gone.
LEMMA WithoutRange ==
  ASSUME NEW T, NEW rules \in Seq(T), NEW gone
  PROVE  /\ Without(rules, gone) \in Seq(T)
         /\ Range(Without(rules, gone)) = Range(rules) \ gone
<1>1. PICK f : /\ Keeps(f, rules, gone, Len(rules))
               /\ Without(rules, gone) = f[Len(rules)]
  BY WithoutKeeps
<1> DEFINE Good(n) == /\ f[n] \in Seq(T)
                      /\ Range(f[n]) = {rules[i] : i \in 1..n} \ gone
           Bad == {n \in 0..Len(rules) : ~Good(n)}
<1>2. Len(rules) \in Nat /\ \A i \in 1..Len(rules) : rules[i] \in T
  OBVIOUS
<1>3. \A n \in 0..Len(rules) :
        f[n] = IF n = 0 THEN <<>>
               ELSE IF rules[n] \in gone THEN f[n - 1]
               ELSE Append(f[n - 1], rules[n])
  BY <1>1 DEF Keeps
<1>4. Good(0)
  <2>1. f[0] = <<>>
    BY <1>2, <1>3
  <2>2. QED
    BY <2>1 DEF Range
<1>5. ASSUME NEW n \in 1..Len(rules), Good(n - 1)
      PROVE  Good(n)
  <2>1. f[n] = IF rules[n] \in gone THEN f[n - 1] ELSE Append(f[n - 1], rules[n])
    BY <1>2, <1>3
  <2>2. {rules[i] : i \in 1..n} = {rules[i] : i \in 1..(n - 1)} \cup {rules[n]}
    BY <1>2
  <2>3. CASE rules[n] \in gone
    BY <1>5, <2>1, <2>2, <2>3
  <2>4. CASE rules[n] \notin gone
    <3>1. f[n] = Append(f[n - 1], rules[n]) /\ rules[n] \in T /\ f[n - 1] \in Seq(T)
      BY <1>2, <1>5, <2>1, <2>4
    <3>2. Range(Append(f[n - 1], rules[n])) = Range(f[n - 1]) \cup {rules[n]}
      BY <3>1, AppendRange
    <3>3. f[n] \in Seq(T)
      BY <3>1
    <3>4. QED
      BY <1>5, <2>2, <2>4, <3>1, <3>2, <3>3
  <2>5. QED
    BY <2>3, <2>4
<1> HIDE DEF Good
<1>6. Bad = {}
  <2>0. Bad \subseteq Nat
    BY <1>2
  <2>1. SUFFICES ASSUME Bad # {}
                 PROVE  FALSE
    OBVIOUS
  <2>2. PICK n \in Bad : \A m \in Bad : n <= m
    BY <2>0, <2>1, NatMinimum
  <2>3. n # 0
    BY <1>4, <2>2
  <2>4. n \in 1..Len(rules) /\ n - 1 \in 0..Len(rules)
    BY <1>2, <2>2, <2>3
  <2>5. Good(n - 1)
    BY <1>2, <2>2, <2>4
  <2>6. QED
    BY <1>5, <2>2, <2>4, <2>5
<1>7. Good(Len(rules))
  BY <1>2, <1>6
<1>8. Range(rules) = {rules[i] : i \in 1..Len(rules)}
  BY <1>2 DEF Range
<1>9. QED
  BY <1>1, <1>7, <1>8 DEF Good

-------------------------------------------------------------------------------
(* Configurations *)

LEMMA ConfigParts ==
  ASSUME NEW c \in Config
  PROVE  /\ c.users \subseteq Users /\ c.outbounds \subseteq Endpoints
         /\ c.rules \in Seq(Rules) /\ Range(c.rules) \subseteq Rules
<1>1. c.rules \in Seq(Rules)
  BY DEF Config
<1>2. Range(c.rules) \subseteq Rules
  BY <1>1 DEF Range
<1>3. QED
  BY <1>1, <1>2 DEF Config

LEMMA EmptyConfig ==
  /\ Empty \in Config /\ Empty.users = {} /\ Empty.outbounds = {}
  /\ Range(Empty.rules) = {}
<1>1. <<>> \in Seq(Rules) /\ Range(<<>>) = {}
  BY DEF Range
<1>2. QED
  BY <1>1 DEF Empty, Config

\* The users whose rules a binding replaces.
Displaced(c, u, i) == {u} \cup {x.name : x \in Replaced(c, u, i)}

\* What bindTransit makes of a configuration.
LEMMA BoundConfig ==
  ASSUME NEW c \in Config, NEW u \in Names, NEW e \in Endpoints, NEW i \in Ids
  PROVE  /\ Bound(c, u, e, i) \in Config
         /\ Bound(c, u, e, i).users
              = (c.users \ Replaced(c, u, i)) \cup {[name |-> u, id |-> i]}
         /\ Bound(c, u, e, i).outbounds = c.outbounds \cup {e}
         /\ Range(Bound(c, u, e, i).rules)
              = {[user |-> u, out |-> e]}
                  \cup {r \in Range(c.rules) : r.user \notin Displaced(c, u, i)}
<1> DEFINE b == Bound(c, u, e, i)
           new == [user |-> u, out |-> e]
           gone == [user : Displaced(c, u, i), out : Endpoints]
           rest == Without(c.rules, gone)
<1>1. /\ b.users = (c.users \ Replaced(c, u, i)) \cup {[name |-> u, id |-> i]}
      /\ b.outbounds = c.outbounds \cup {e}
      /\ b.rules = <<new>> \o rest
      /\ b = [users |-> b.users, outbounds |-> b.outbounds, rules |-> b.rules]
  BY DEF Bound, Displaced
<1>2. /\ c.users \subseteq Users /\ c.outbounds \subseteq Endpoints
      /\ c.rules \in Seq(Rules) /\ Range(c.rules) \subseteq Rules
  BY ConfigParts
<1>3. rest \in Seq(Rules) /\ Range(rest) = Range(c.rules) \ gone
  <2>1. \A g : /\ Without(c.rules, g) \in Seq(Rules)
               /\ Range(Without(c.rules, g)) = Range(c.rules) \ g
    BY <1>2, WithoutRange
  <2>2. QED
    BY <2>1, Zenon
<1>4. \A r \in Range(c.rules) : r \in gone <=> r.user \in Displaced(c, u, i)
  BY <1>2 DEF Rules
<1>5. new \in Rules
  BY DEF Rules
<1>6. [name |-> u, id |-> i] \in Users
  BY DEF Users
<1> HIDE DEF b, rest, new
<1>7. b.rules \in Seq(Rules) /\ Range(b.rules) = {new} \cup Range(rest)
  BY <1>1, <1>3, <1>5, ConcatRange
<1>8. b.users \in SUBSET Users /\ b.outbounds \in SUBSET Endpoints
  BY <1>1, <1>2, <1>6
<1>9. b \in Config
  BY <1>1, <1>7, <1>8 DEF Config
<1>10. Range(b.rules)
         = {new} \cup {r \in Range(c.rules) : r.user \notin Displaced(c, u, i)}
  BY <1>3, <1>4, <1>7
<1>11. QED
  BY <1>1, <1>9, <1>10 DEF b, new

\* The rules that unbindTransit removes.
Hits(c, u, e) == {r \in Range(c.rules) : r.user = u \/ r.out = e}

\* What unbindTransit makes of a configuration.
LEMMA UnboundConfig ==
  ASSUME NEW c \in Config, NEW u, NEW e
  PROVE  /\ Unbound(c, u, e) \in Config
         /\ Unbound(c, u, e).users
              = {x \in c.users : x.name # u
                                 /\ \A r \in Hits(c, u, e) : x.name # r.user}
         /\ Unbound(c, u, e).outbounds = c.outbounds \ {e}
         /\ Range(Unbound(c, u, e).rules) = Range(c.rules) \ Hits(c, u, e)
<1> DEFINE d == Unbound(c, u, e)
           rest == Without(c.rules, Hits(c, u, e))
<1>1. /\ d.users = {x \in c.users :
                      x.name \notin {u} \cup {r.user : r \in Hits(c, u, e)}}
      /\ d.outbounds = c.outbounds \ {e}
      /\ d.rules = rest
      /\ d = [users |-> d.users, outbounds |-> d.outbounds, rules |-> d.rules]
  BY DEF Unbound, Hits
<1>2. /\ c.users \subseteq Users /\ c.outbounds \subseteq Endpoints
      /\ c.rules \in Seq(Rules)
  BY ConfigParts
<1>3. rest \in Seq(Rules) /\ Range(rest) = Range(c.rules) \ Hits(c, u, e)
  BY <1>2, WithoutRange
<1> HIDE DEF d, rest
<1>4. d.users \in SUBSET Users /\ d.outbounds \in SUBSET Endpoints
  BY <1>1, <1>2
<1>5. d \in Config
  BY <1>1, <1>3, <1>4 DEF Config
<1>6. d.users = {x \in c.users : x.name # u
                                /\ \A r \in Hits(c, u, e) : x.name # r.user}
  BY <1>1
<1>7. QED
  BY <1>1, <1>3, <1>5, <1>6 DEF d

\* What writing a file makes of a configuration.
LEMMA OverwrittenConfig ==
  ASSUME NEW c \in Config, NEW d \in Config, NEW S
  PROVE  /\ Overwritten(c, d, S) \in Config
         /\ Overwritten(c, d, S).users = IF "users" \in S THEN d.users ELSE c.users
         /\ Overwritten(c, d, S).outbounds
              = IF "outbounds" \in S THEN d.outbounds ELSE c.outbounds
         /\ Overwritten(c, d, S).rules = IF "rules" \in S THEN d.rules ELSE c.rules
<1>1. /\ c.users \in SUBSET Users /\ c.outbounds \in SUBSET Endpoints
      /\ c.rules \in Seq(Rules)
      /\ d.users \in SUBSET Users /\ d.outbounds \in SUBSET Endpoints
      /\ d.rules \in Seq(Rules)
  BY DEF Config
<1>2. QED
  BY <1>1 DEF Overwritten, Config

\* A user with a rule is routed by one of its rules, one without is not.
LEMMA RoutedByRule ==
  ASSUME NEW c \in Config, NEW u
  PROVE  /\ (\A r \in Range(c.rules) : r.user # u) => Routed(c, u) = None
         /\ (\E r \in Range(c.rules) : r.user = u) =>
              \E r \in Range(c.rules) : r.user = u /\ Routed(c, u) = r.out
<1> DEFINE I == {i \in 1..Len(c.rules) : c.rules[i].user = u}
           n == SelectInSeq(c.rules, LAMBDA r : r.user = u)
<1>1. c.rules \in Seq(Rules) /\ Len(c.rules) \in Nat
  BY ConfigParts
<1>2. Range(c.rules) = {c.rules[i] : i \in 1..Len(c.rules)}
  BY <1>1 DEF Range
<1>3. n = IF I # {} THEN Min(I) ELSE 0
  BY Zenon DEF SelectInSeq
<1>4. Routed(c, u) = IF n = 0 THEN None ELSE c.rules[n].out
  BY Zenon DEF Routed
<1> HIDE DEF n
<1>5. CASE I = {}
  BY <1>2, <1>3, <1>4, <1>5
<1>6. CASE I # {}
  <2>1. I \subseteq Nat
    BY <1>1
  <2>2. \E x \in I : \A y \in I : x <= y
    BY <1>6, <2>1, NatMinimum
  <2>3. Min(I) \in I
    BY <2>2 DEF Min
  <2>4. n \in I /\ n # 0
    BY <1>1, <1>3, <1>6, <2>3
  <2>5. QED
    BY <1>2, <1>4, <2>4
<1>7. QED
  BY <1>5, <1>6

-------------------------------------------------------------------------------
(* Types, jobs, and one rule for each user *)

\* The jobs there are to do.
Started == [kind : {"bind", "link", "unbind"}, user : Names, endpoint : Endpoints,
            tagged : BOOLEAN]

\* A worker has a job from when it takes one until it ends, and only some jobs
\* come to some places.
JobsInv ==
  /\ interrupted \subseteq Started
  /\ \A w \in Workers :
       /\ pc[w] = "idle" => job[w] = NoJob
       /\ pc[w] # "idle" => job[w] \in Started
       /\ pc[w] = "forget" => job[w].kind = "unbind"
       /\ pc[w] \in {"check", "reload"} => job[w].kind = "bind"

OneRule(c) == \A r, s \in Range(c.rules) : r.user = s.user => r = s

RulesInv == OneRule(conf) /\ \A w \in Workers : OneRule(copy[w])

TransitInv == TypeOK /\ JobsInv /\ RulesInv

LEMMA NoJobType ==
  /\ NoJob \in Jobs /\ NoJob.kind = "none"
  /\ Started \subseteq Jobs
<1>1. NoJob \in Jobs /\ NoJob.kind = "none"
  BY DEF NoJob, Jobs
<1>2. Started \subseteq Jobs
  BY DEF Started, Jobs
<1>3. QED
  BY <1>1, <1>2

LEMMA InitTransit == Init => TransitInv
<1> SUFFICES ASSUME Init
             PROVE  TransitInv
  OBVIOUS
<1>1. TypeOK
  BY EmptyConfig, NoJobType DEF Init, TypeOK, Labels
<1>2. JobsInv
  BY DEF Init, JobsInv
<1>3. RulesInv
  BY EmptyConfig DEF Init, RulesInv, OneRule
<1>4. QED
  BY <1>1, <1>2, <1>3 DEF TransitInv

\* A worker ends its operation.
LEMMA ReleaseKeeps ==
  ASSUME TransitInv, NEW w \in Workers, Release(w), conf' = conf,
         stored' \subseteq Endpoints,
         interrupted' \subseteq Started, crashes' \in Nat
  PROVE  TransitInv'
<1>1. /\ pc' = [pc EXCEPT ![w] = "idle"] /\ job' = [job EXCEPT ![w] = NoJob]
      /\ copy' = [copy EXCEPT ![w] = Empty] /\ dirty' = [dirty EXCEPT ![w] = {}]
  BY DEF Release, Goto
<1>2. TypeOK
  BY DEF TransitInv
<1>3. TypeOK'
  <2>1. interrupted' \subseteq Jobs
    BY NoJobType
  <2>2. pc' \in [Workers -> Labels]
    BY <1>1, <1>2 DEF TypeOK, Labels
  <2>3. job' \in [Workers -> Jobs]
    BY <1>1, <1>2, NoJobType DEF TypeOK
  <2>4. copy' \in [Workers -> Config]
    BY <1>1, <1>2, EmptyConfig DEF TypeOK
  <2>5. dirty' \in [Workers -> SUBSET (DOMAIN Layout)]
    BY <1>1, <1>2 DEF TypeOK
  <2>6. QED
    BY <1>2, <2>1, <2>2, <2>3, <2>4, <2>5 DEF TypeOK
<1>4. JobsInv'
  BY <1>1, <1>2 DEF TransitInv, JobsInv, TypeOK
<1>5. RulesInv'
  <2>1. OneRule(Empty)
    BY EmptyConfig DEF OneRule
  <2>2. \A v \in Workers : copy'[v] = IF v = w THEN Empty ELSE copy[v]
    BY <1>1, <1>2 DEF TypeOK
  <2>3. QED
    BY <2>1, <2>2 DEF TransitInv, RulesInv, OneRule
<1>6. QED
  BY <1>3, <1>4, <1>5 DEF TransitInv

\* A worker moves on with what it has.
LEMMA GotoKeeps ==
  ASSUME TransitInv, NEW w \in Workers, NEW l \in Labels \ {"idle"}, Goto(w, l),
         pc[w] # "idle", l = "forget" => job[w].kind = "unbind",
         l \in {"check", "reload"} => job[w].kind = "bind",
         UNCHANGED <<conf, stored, job, copy, dirty, interrupted,
                     crashes>>
  PROVE  TransitInv'
<1>1. pc' = [pc EXCEPT ![w] = l]
  BY DEF Goto
<1>2. TypeOK'
  BY <1>1 DEF TransitInv, TypeOK
<1>3. JobsInv'
  BY <1>1 DEF TransitInv, TypeOK, JobsInv
<1>4. RulesInv'
  BY DEF TransitInv, RulesInv, OneRule
<1>5. QED
  BY <1>2, <1>3, <1>4 DEF TransitInv

LEMMA StartKeeps ==
  ASSUME TransitInv, NEW w \in Workers, Start(w)
  PROVE  TransitInv'
<1>1. PICK j \in Started : Take(w, j) /\ stored' \in {stored, stored \cup {j.endpoint}}
                           /\ UNCHANGED <<conf, copy, dirty, crashes>>
  BY DEF Start, StartBind, StartLink, StartUnbind, Started
<1>2. /\ pc' = [pc EXCEPT ![w] = "load"] /\ job' = [job EXCEPT ![w] = j]
      /\ interrupted' = interrupted \ {j} /\ pc[w] = "idle"
      /\ j \in Jobs /\ j.endpoint \in Endpoints
  BY <1>1, NoJobType DEF Take, Goto, Started
<1>3. TypeOK'
  <2>1. pc' \in [Workers -> Labels]
    BY <1>2 DEF TransitInv, TypeOK, Labels
  <2>2. job' \in [Workers -> Jobs]
    BY <1>2 DEF TransitInv, TypeOK
  <2>3. stored' \subseteq Endpoints /\ interrupted' \subseteq Jobs
    BY <1>1, <1>2 DEF TransitInv, TypeOK
  <2>4. QED
    BY <1>1, <2>1, <2>2, <2>3 DEF TransitInv, TypeOK
<1>4. JobsInv'
  <2>1. interrupted' \subseteq Started
    BY <1>2 DEF TransitInv, JobsInv
  <2>2. \A v \in Workers : /\ pc'[v] = IF v = w THEN "load" ELSE pc[v]
                           /\ job'[v] = IF v = w THEN j ELSE job[v]
    BY <1>2 DEF TransitInv, TypeOK
  <2>3. QED
    BY <2>1, <2>2 DEF TransitInv, JobsInv
<1>5. RulesInv'
  BY <1>1 DEF TransitInv, RulesInv, OneRule
<1>6. QED
  BY <1>3, <1>4, <1>5 DEF TransitInv

\* What the workers make of a configuration has one rule for each user.
LEMMA BoundOneRule ==
  ASSUME NEW c \in Config, NEW u \in Names, NEW e \in Endpoints, NEW i \in Ids,
         OneRule(c)
  PROVE  OneRule(Bound(c, u, e, i))
<1> DEFINE new == [user |-> u, out |-> e]
<1>1. Range(Bound(c, u, e, i).rules)
        = {new} \cup {r \in Range(c.rules) : r.user \notin Displaced(c, u, i)}
  BY BoundConfig
<1>2. new.user = u /\ u \in Displaced(c, u, i)
  BY DEF Displaced
<1> HIDE DEF new
<1>3. QED
  BY <1>1, <1>2 DEF OneRule

LEMMA UnboundOneRule ==
  ASSUME NEW c \in Config, NEW u, NEW e, OneRule(c)
  PROVE  OneRule(Unbound(c, u, e))
<1>1. Range(Unbound(c, u, e).rules) = Range(c.rules) \ Hits(c, u, e)
  BY UnboundConfig
<1>2. QED
  BY <1>1 DEF OneRule

\* A worker changes its copy.
LEMMA ChangeKeeps ==
  ASSUME TransitInv, NEW w \in Workers, NEW d \in Config, OneRule(d),
         NEW files \in SUBSET DOMAIN Layout, Change(w, d, files), pc[w] = "load",
         UNCHANGED <<conf, stored, job, interrupted, crashes>>
  PROVE  TransitInv'
<1>1. /\ pc' = [pc EXCEPT ![w] = "save"] /\ copy' = [copy EXCEPT ![w] = d]
      /\ dirty' = [dirty EXCEPT ![w] = files]
  BY DEF Change, Goto
<1>2. TypeOK'
  <2>1. pc' \in [Workers -> Labels]
    BY <1>1 DEF TransitInv, TypeOK, Labels
  <2>2. copy' \in [Workers -> Config]
    BY <1>1 DEF TransitInv, TypeOK
  <2>3. dirty' \in [Workers -> SUBSET (DOMAIN Layout)]
    BY <1>1 DEF TransitInv, TypeOK
  <2>4. QED
    BY <2>1, <2>2, <2>3 DEF TransitInv, TypeOK
<1>3. JobsInv'
  BY <1>1 DEF TransitInv, TypeOK, JobsInv
<1>4. RulesInv'
  <2>1. \A v \in Workers : copy'[v] = IF v = w THEN d ELSE copy[v]
    BY <1>1 DEF TransitInv, TypeOK
  <2>2. QED
    BY <2>1 DEF TransitInv, RulesInv, OneRule
<1>5. QED
  BY <1>2, <1>3, <1>4 DEF TransitInv

\* What is written of the configuration that was loaded.
LoadedOf(w) ==
  IF job[w].kind = "unbind"
  THEN {Unbound(conf, job[w].user, out) :
          out \in {IF job[w].tagged \/ job[w].endpoint \in stored
                   THEN job[w].endpoint ELSE None}}
  ELSE {Bound(conf, job[w].user, job[w].endpoint, i) : i \in Ids}

LEMMA LoadKeeps ==
  ASSUME TransitInv, NEW w \in Workers, BindLoad(w) \/ UnbindLoad(w)
  PROVE  /\ TransitInv'
         /\ \E d \in LoadedOf(w) :
              copy' = [copy EXCEPT ![w] = d]
<1>1. conf \in Config /\ OneRule(conf) /\ pc[w] = "load" /\ job[w] \in Started
  BY DEF TransitInv, TypeOK, RulesInv, JobsInv, BindLoad, UnbindLoad
<1>2. job[w].user \in Names /\ job[w].endpoint \in Endpoints
  BY <1>1 DEF Started
<1>3. CASE BindLoad(w)
  <2>1. PICK i \in Ids : Change(w, Bound(conf, job[w].user, job[w].endpoint, i),
                                DOMAIN Layout)
    BY <1>3 DEF BindLoad
  <2> DEFINE d == Bound(conf, job[w].user, job[w].endpoint, i)
  <2>2. d \in Config /\ OneRule(d)
    BY <1>1, <1>2, BoundConfig, BoundOneRule
  <2>3. d \in LoadedOf(w)
    BY <1>3 DEF LoadedOf, BindLoad
  <2> HIDE DEF d
  <2>4. Change(w, d, DOMAIN Layout)
    BY <2>1 DEF d
  <2>5. TransitInv'
    BY <1>1, <1>3, <2>2, <2>4, ChangeKeeps DEF BindLoad
  <2>6. QED
    BY <2>3, <2>4, <2>5 DEF Change
<1>4. CASE UnbindLoad(w)
  <2> DEFINE out == IF job[w].tagged \/ job[w].endpoint \in stored
                    THEN job[w].endpoint ELSE None
             d == Unbound(conf, job[w].user, out)
  <2>1. Change(w, d, Modified(conf, d)) /\ d \in LoadedOf(w)
    BY <1>4 DEF UnbindLoad, LoadedOf
  <2>2. d \in Config /\ OneRule(d)
    BY <1>1, UnboundConfig, UnboundOneRule
  <2> HIDE DEF d
  <2>3. Modified(conf, d) \in SUBSET DOMAIN Layout
    BY DEF Modified
  <2>4. TransitInv'
    BY <1>1, <1>4, <2>1, <2>2, <2>3, ChangeKeeps DEF UnbindLoad
  <2>5. QED
    BY <2>1, <2>4 DEF Change
<1>5. QED
  BY <1>3, <1>4

LEMMA SaveKeeps ==
  ASSUME TransitInv, NEW w \in Workers, NEW k \in DOMAIN Layout, Save(w, k)
  PROVE  TransitInv'
<1>1. /\ conf \in Config /\ copy[w] \in Config
      /\ conf' = Overwritten(conf, copy[w], Layout[k])
      /\ dirty' = [dirty EXCEPT ![w] = dirty[w] \ {k}]
      /\ UNCHANGED <<stored, pc, job, copy, interrupted, crashes>>
  BY DEF TransitInv, TypeOK, Save
<1>2. conf' \in Config /\ conf'.rules \in {conf.rules, copy[w].rules}
  BY <1>1, OverwrittenConfig
<1>3. TypeOK'
  <2>1. dirty' \in [Workers -> SUBSET (DOMAIN Layout)]
    BY <1>1 DEF TransitInv, TypeOK
  <2>2. QED
    BY <1>1, <1>2, <2>1 DEF TransitInv, TypeOK
<1>4. JobsInv'
  BY <1>1 DEF TransitInv, JobsInv
<1>5. RulesInv'
  BY <1>1, <1>2 DEF TransitInv, RulesInv, OneRule
<1>6. QED
  BY <1>3, <1>4, <1>5 DEF TransitInv

LEMMA NextTransit == TransitInv /\ [Next]_vars => TransitInv'
<1> SUFFICES ASSUME TransitInv, [Next]_vars
             PROVE  TransitInv'
  OBVIOUS
<1>1. /\ stored \subseteq Endpoints
      /\ interrupted \subseteq Started /\ crashes \in Nat
  BY DEF TransitInv, TypeOK, JobsInv
<1>2. ASSUME NEW w \in Workers, Proceed(w)
      PROVE  TransitInv'
  <2>1. CASE BindLoad(w) \/ UnbindLoad(w)
    BY <2>1, LoadKeeps
  <2>2. CASE \E k \in DOMAIN Layout : Save(w, k)
    BY <2>2, SaveKeeps
  <2>3. CASE Saved(w)
    <3>1. {"check", "forget"} \subseteq Labels \ {"idle"}
      BY DEF Labels
    <3>2. CASE Release(w)
      BY <1>1, <2>3, <3>2, ReleaseKeeps DEF Saved
    <3>3. CASE ~Release(w)
      <4>1. PICK l \in {"check", "forget"} :
              /\ Goto(w, l) /\ UNCHANGED <<job, copy, dirty>>
              /\ l = "check" => job[w].kind = "bind"
              /\ l = "forget" => job[w].kind = "unbind"
        BY <2>3, <3>3 DEF Saved
      <4>2. l \in Labels \ {"idle"} /\ l # "reload"
        BY <3>1
      <4>3. QED
        BY <2>3, <4>1, <4>2, GotoKeeps DEF Saved
    <3>4. QED
      BY <3>2, <3>3
  <2>4. CASE Forget(w)
    <3>1. stored' \subseteq Endpoints
      BY <1>1, <2>4 DEF Forget
    <3>2. QED
      BY <1>1, <2>4, <3>1, ReleaseKeeps DEF Forget
  <2>5. CASE Check(w)
    <3>1. CASE Release(w)
      BY <1>1, <2>5, <3>1, ReleaseKeeps DEF Check
    <3>2. CASE ~Release(w)
      <4>1. "reload" \in Labels \ {"idle"} /\ job[w].kind = "bind"
        BY <2>5 DEF Check, Labels, TransitInv, JobsInv
      <4>2. QED
        BY <2>5, <3>2, <4>1, GotoKeeps DEF Check
    <3>3. QED
      BY <3>1, <3>2
  <2>6. CASE Reload(w)
    BY <1>1, <2>6, ReleaseKeeps DEF Reload
  <2>7. QED
    BY <1>2, <2>1, <2>2, <2>3, <2>4, <2>5, <2>6 DEF Proceed
<1>3. ASSUME NEW w \in Workers, Crash(w)
      PROVE  TransitInv'
  <2>1. job[w] \in Started /\ crashes + 1 \in Nat
    BY <1>1, <1>3 DEF TransitInv, JobsInv, Crash
  <2>2. QED
    BY <1>1, <1>3, <2>1, ReleaseKeeps DEF Crash
<1>4. CASE UNCHANGED vars
  <2>1. TypeOK'
    BY <1>4 DEF vars, TransitInv, TypeOK
  <2>2. JobsInv' /\ RulesInv'
    BY <1>4 DEF vars, TransitInv, JobsInv, RulesInv, OneRule
  <2>3. QED
    BY <2>1, <2>2 DEF TransitInv
<1>5. QED
  BY <1>2, <1>3, <1>4, StartKeeps DEF Next

LEMMA TransitAlways == Spec => []TransitInv
<1>1. QED
  BY InitTransit, NextTransit, PTL DEF Spec

\* The files, the copies and the jobs keep the values they are of, for any
\* number of processes.
THEOREM TransitTypeCorrect == Spec => []TypeOK
<1>1. TransitInv => TypeOK
  BY DEF TransitInv
<1>2. QED
  BY <1>1, TransitAlways, PTL

-------------------------------------------------------------------------------
(* One operation at a time *)

\* One process changes the configuration: the agent's poll loop runs its tasks
\* one after the other.
Serialised == \A v, w \in Workers : v = w

-------------------------------------------------------------------------------
(* What an interrupted operation leaves behind *)

\* The users, and the outbounds, are written no later than the rules: the last of
\* the files RelayPilot creates is 91-relaypilot-route.json, and a single
\* config.json is written at once.  An operator's files may have other names.
UsersAreFirst ==
  \A i, k \in DOMAIN Layout : "users" \in Layout[i] /\ "rules" \in Layout[k] => i <= k
OutboundsAreFirst ==
  \A i, k \in DOMAIN Layout : "outbounds" \in Layout[i] /\ "rules" \in Layout[k] => i <= k

\* Rules to an outbound there is none of, and users no rule is for.
Dangling(c) == {r \in Range(c.rules) : r.out \notin c.outbounds}
Orphans(c) == {x \in c.users : \A r \in Range(c.rules) : r.user # x.name}

\* The jobs that are going on or have been cut short.
Open == interrupted \cup {job[w] : w \in Workers}

\* Carried out to its end, the job removes the rule, or adds the outbound if that
\* may come after the rule; gives the user a rule.
Explains(j, r) ==
  /\ j.endpoint = r.out
  /\ \/ j.kind = "unbind" /\ (j.tagged \/ j.endpoint \in stored)
     \/ j.kind \in {"bind", "link"} /\ ~ OutboundsAreFirst
Owes(j, x) == j.kind \in {"bind", "link"} /\ j.user = x.name

\* Whatever is half done in the files is the work of an open job.
Explained ==
  /\ \A r \in Dangling(conf) : \E j \in Open : Explains(j, r)
  /\ UsersAreFirst => \A x \in Orphans(conf) : \E j \in Open : Owes(j, x)

\* A section is still to be written.
Pending(w, s) == pc[w] = "save" /\ \E k \in dirty[w] : s \in Layout[k]

\* What a worker writes leaves nothing to its own job; until the rules are
\* written the users and outbounds it writes are those of the files or its own
\* job's.
Saving(w) ==
  pc[w] \in {"save", "forget", "check", "reload"} =>
    /\ \A r \in Dangling(copy[w]) : \E j \in interrupted : Explains(j, r)
    /\ UsersAreFirst => \A x \in Orphans(copy[w]) : \E j \in interrupted : Owes(j, x)
    /\ job[w].kind = "unbind" /\ job[w].endpoint \in stored =>
         \A r \in Range(copy[w].rules) : r.out # job[w].endpoint
    /\ \A x \in copy[w].users : x \in conf.users \/ Owes(job[w], x)
    /\ \A e \in copy[w].outbounds :
         e \in conf.outbounds \/ (job[w].kind \in {"bind", "link"} /\ e = job[w].endpoint)
    /\ \A r \in Range(conf.rules) :
         r.out \notin copy[w].outbounds => \E j \in Open : Explains(j, r)
    /\ conf.users = copy[w].users \/ Pending(w, "users")
    /\ conf.outbounds = copy[w].outbounds \/ Pending(w, "outbounds")
    /\ conf.rules = copy[w].rules \/ Pending(w, "rules")

HalfDone == Explained /\ \A w \in Workers : Saving(w)

LEMMA OpenJobs ==
  ASSUME Serialised, NEW w \in Workers
  PROVE  /\ Open = interrupted \cup {job[w]}
         /\ Open' = interrupted' \cup {job'[w]}
<1>1. \A v \in Workers : v = w
  BY DEF Serialised
<1>2. QED
  BY <1>1 DEF Open

LEMMA InitHalfDone == Init => HalfDone
<1> SUFFICES ASSUME Init
             PROVE  HalfDone
  OBVIOUS
<1>1. Range(conf.rules) = {} /\ conf.users = {}
  BY EmptyConfig DEF Init
<1>2. Explained
  BY <1>1 DEF Explained, Dangling, Orphans
<1>3. \A w \in Workers : pc[w] = "idle"
  BY DEF Init
<1>4. QED
  BY <1>2, <1>3 DEF HalfDone, Saving

\* A worker that takes a job takes over what the job left behind before.
LEMMA StartHalfDone ==
  ASSUME Serialised, TransitInv, HalfDone, NEW w \in Workers, Start(w)
  PROVE  HalfDone'
<1>1. PICK j \in Started : Take(w, j) /\ stored \subseteq stored'
                           /\ UNCHANGED <<conf, copy, dirty, crashes>>
  BY DEF Start, StartBind, StartLink, StartUnbind, Started
<1>2. /\ pc'[w] = "load" /\ job'[w] = j /\ interrupted' = interrupted \ {j}
      /\ job[w] = NoJob
  BY <1>1 DEF Take, Goto, TransitInv, TypeOK, JobsInv
<1>3. /\ Open = interrupted \cup {NoJob}
      /\ Open' = (interrupted \ {j}) \cup {j}
  BY <1>2, OpenJobs
<1>4. NoJob.kind = "none"
  BY NoJobType
<1>5. Explained'
  BY <1>1, <1>3, <1>4 DEF HalfDone, Explained, Explains, Owes, Dangling, Orphans
<1>6. \A v \in Workers : Saving(v)'
  BY <1>2 DEF Saving, Serialised
<1>7. QED
  BY <1>5, <1>6 DEF HalfDone

\* A binding adds a rule with an outbound to it, and takes the rules of no
\* user it leaves.
LEMMA BoundLeaves ==
  ASSUME NEW c \in Config, NEW u \in Names, NEW e \in Endpoints, NEW i \in Ids,
         Distinct(c), NEW d, d = Bound(c, u, e, i)
  PROVE  /\ Dangling(d) \subseteq Dangling(c) /\ \A r \in Dangling(d) : r.out # e
         /\ \A x \in Orphans(d) : x \in Orphans(c) /\ x.name # u
         /\ \A x \in d.users : x \in c.users \/ x.name = u
         /\ d.outbounds = c.outbounds \cup {e}
<1>1. /\ d.users = (c.users \ Replaced(c, u, i)) \cup {[name |-> u, id |-> i]}
      /\ d.outbounds = c.outbounds \cup {e}
      /\ Range(d.rules)
           = {[user |-> u, out |-> e]}
               \cup {r \in Range(c.rules) : r.user \notin Displaced(c, u, i)}
  BY BoundConfig
<1>2. Dangling(d) \subseteq Dangling(c) /\ \A r \in Dangling(d) : r.out # e
  BY <1>1 DEF Dangling
<1>3. ASSUME NEW x \in Orphans(d)
      PROVE  x \in Orphans(c) /\ x.name # u
  <2>1. x \in d.users /\ \A r \in Range(d.rules) : r.user # x.name
    BY DEF Orphans
  <2>2. x.name # u
    <3>1. [user |-> u, out |-> e] \in Range(d.rules)
      BY <1>1
    <3>2. [user |-> u, out |-> e].user = u
      OBVIOUS
    <3>3. QED
      BY <2>1, <3>1, <3>2
  <2>3. x \in c.users /\ x \notin Replaced(c, u, i)
    BY <1>1, <2>1, <2>2
  <2>4. \A y \in Replaced(c, u, i) : y \in c.users /\ y.name # x.name
    BY <2>3 DEF Replaced, Distinct
  <2>5. x.name \notin Displaced(c, u, i)
    BY <2>2, <2>4 DEF Displaced
  <2>6. \A r \in Range(c.rules) : r.user # x.name
    BY <1>1, <2>1, <2>5
  <2>7. QED
    BY <2>2, <2>3, <2>6 DEF Orphans
<1>4. \A x \in d.users : x \in c.users \/ x.name = u
  BY <1>1
<1>5. QED
  BY <1>1, <1>2, <1>3, <1>4

\* An unbinding removes the rules to the outbound, and the users of the rules
\* that it removes.
LEMMA UnboundLeaves ==
  ASSUME NEW c \in Config, NEW u, NEW e, NEW d, d = Unbound(c, u, e)
  PROVE  /\ Dangling(d) \subseteq Dangling(c)
         /\ \A r \in Range(d.rules) : r.out # e
         /\ Orphans(d) \subseteq Orphans(c)
         /\ d.users \subseteq c.users
         /\ d.outbounds = c.outbounds \ {e}
<1>1. /\ d.users = {x \in c.users : x.name # u
                                   /\ \A r \in Hits(c, u, e) : x.name # r.user}
      /\ d.outbounds = c.outbounds \ {e}
      /\ Range(d.rules) = Range(c.rules) \ Hits(c, u, e)
  BY UnboundConfig
<1>2. \A r \in Range(d.rules) : r.out # e /\ r \in Range(c.rules)
  BY <1>1 DEF Hits
<1>3. Dangling(d) \subseteq Dangling(c)
  BY <1>1, <1>2 DEF Dangling
<1>4. Orphans(d) \subseteq Orphans(c)
  BY <1>1 DEF Orphans
<1>5. QED
  BY <1>1, <1>2, <1>3, <1>4

\* Every section has a file.
LEMMA SectionFiles ==
  \A s \in Sections : \E k \in DOMAIN Layout : s \in Layout[k]
<1>1. Sections = UNION Range(Layout)
  BY TransitConfigAssumption
<1>2. QED
  BY <1>1 DEF Range

LEMMA BindLoadHalfDone ==
  ASSUME Serialised, TransitInv, UsersAreDistinct, HalfDone, NEW w \in Workers,
         BindLoad(w)
  PROVE  HalfDone'
<1>1. /\ conf \in Config /\ job[w] \in Started /\ Distinct(conf) /\ Explained
      /\ job[w].kind \in {"bind", "link"}
      /\ copy \in [Workers -> Config] /\ pc \in [Workers -> Labels]
      /\ dirty \in [Workers -> SUBSET (DOMAIN Layout)]
  BY DEF TransitInv, TypeOK, JobsInv, UsersAreDistinct, HalfDone, BindLoad
<1>2. /\ job[w].user \in Names /\ job[w].endpoint \in Endpoints
      /\ job[w].kind # "unbind"
  BY <1>1 DEF Started
<1>3. PICK i \in Ids : Change(w, Bound(conf, job[w].user, job[w].endpoint, i),
                              DOMAIN Layout)
  BY DEF BindLoad
<1>4. PICK d : d = Bound(conf, job[w].user, job[w].endpoint, i)
  OBVIOUS
<1>5. /\ copy'[w] = d /\ dirty'[w] = DOMAIN Layout /\ pc'[w] = "save"
      /\ UNCHANGED <<conf, stored, job, interrupted>>
  BY <1>1, <1>3, <1>4 DEF BindLoad, Change, Goto
<1>6. /\ Dangling(d) \subseteq Dangling(conf)
      /\ \A r \in Dangling(d) : r.out # job[w].endpoint
      /\ \A x \in Orphans(d) : x \in Orphans(conf) /\ x.name # job[w].user
      /\ \A x \in d.users : x \in conf.users \/ x.name = job[w].user
      /\ d.outbounds = conf.outbounds \cup {job[w].endpoint}
  BY <1>1, <1>2, <1>4, BoundLeaves
<1>7. Open = interrupted \cup {job[w]} /\ Open' = Open
  BY <1>5, OpenJobs
<1>8. Explained'
  BY <1>1, <1>5, <1>7 DEF Explained, Explains, Dangling, Orphans
<1>9. Saving(w)'
  <2>1. \A r \in Dangling(d) : \E j \in interrupted : Explains(j, r)
    BY <1>1, <1>2, <1>6, <1>7 DEF Explained, Explains
  <2>2. UsersAreFirst => \A x \in Orphans(d) : \E j \in interrupted : Owes(j, x)
    BY <1>1, <1>6, <1>7 DEF Explained, Owes
  <2>3. \A x \in d.users : x \in conf.users \/ Owes(job[w], x)
    BY <1>1, <1>6 DEF Owes
  <2>4. \A r \in Range(conf.rules) :
          r.out \notin d.outbounds => \E j \in Open : Explains(j, r)
    BY <1>1, <1>6 DEF Explained, Dangling
  <2>5. \A s \in Sections : Pending(w, s)'
    BY <1>5, SectionFiles DEF Pending
  <2>6. (\A r \in Dangling(copy[w]) : \E j \in interrupted : Explains(j, r))'
    BY <1>5, <2>1 DEF Dangling, Explains
  <2>7. UsersAreFirst => (\A x \in Orphans(copy[w]) : \E j \in interrupted : Owes(j, x))'
    BY <1>5, <2>2 DEF Orphans
  <2>8. (\A r \in Range(conf.rules) : r.out \notin copy[w].outbounds =>
           \E j \in Open : Explains(j, r))'
    BY <1>5, <1>7, <2>4 DEF Explains
  <2>9. (\A x \in copy[w].users : x \in conf.users \/ Owes(job[w], x))'
    BY <1>5, <2>3 DEF Owes
  <2>10. (\A e \in copy[w].outbounds :
            \/ e \in conf.outbounds
            \/ job[w].kind \in {"bind", "link"} /\ e = job[w].endpoint)'
    BY <1>1, <1>5, <1>6
  <2>11. (job[w].kind # "unbind")'
    BY <1>2, <1>5
  <2>12. Pending(w, "users")' /\ Pending(w, "outbounds")' /\ Pending(w, "rules")'
    BY <2>5 DEF Sections
  <2>13. QED
    BY <2>6, <2>7, <2>8, <2>9, <2>10, <2>11, <2>12 DEF Saving
<1>10. QED
  BY <1>8, <1>9 DEF HalfDone, Serialised

LEMMA UnbindLoadHalfDone ==
  ASSUME Serialised, TransitInv, HalfDone, NEW w \in Workers, UnbindLoad(w)
  PROVE  HalfDone'
<1>1. /\ conf \in Config /\ job[w] \in Started /\ Explained
      /\ job[w].kind = "unbind"
      /\ copy \in [Workers -> Config] /\ pc \in [Workers -> Labels]
      /\ dirty \in [Workers -> SUBSET (DOMAIN Layout)]
  BY DEF TransitInv, TypeOK, JobsInv, HalfDone, UnbindLoad
<1>2. job[w].endpoint \in Endpoints /\ Range(conf.rules) \subseteq Rules
  BY <1>1, ConfigParts DEF Started
<1>3. PICK e : e = IF job[w].tagged \/ job[w].endpoint \in stored
                   THEN job[w].endpoint ELSE None
  OBVIOUS
<1>4. PICK d : d = Unbound(conf, job[w].user, e)
  OBVIOUS
<1>5. /\ copy'[w] = d /\ dirty'[w] = Modified(conf, d) /\ pc'[w] = "save"
      /\ UNCHANGED <<conf, stored, job, interrupted>>
  BY <1>1, <1>3, <1>4 DEF UnbindLoad, Change, Goto
<1>6. /\ Dangling(d) \subseteq Dangling(conf)
      /\ \A r \in Range(d.rules) : r.out # e
      /\ Orphans(d) \subseteq Orphans(conf)
      /\ d.users \subseteq conf.users
      /\ d.outbounds = conf.outbounds \ {e}
  BY <1>1, <1>4, UnboundLeaves
<1>7. Open = interrupted \cup {job[w]} /\ Open' = Open
  BY <1>5, OpenJobs
<1>8. Explained'
  BY <1>1, <1>5, <1>7 DEF Explained, Explains, Dangling, Orphans
<1>9. Saving(w)'
  <2>1. \A r \in Dangling(d) : \E j \in interrupted : Explains(j, r)
    <3>1. \A r \in Dangling(d) : ~Explains(job[w], r)
      BY <1>1, <1>3, <1>6 DEF Explains, Dangling
    <3>2. QED
      BY <1>1, <1>6, <1>7, <3>1 DEF Explained
  <2>2. UsersAreFirst => \A x \in Orphans(d) : \E j \in interrupted : Owes(j, x)
    BY <1>1, <1>6, <1>7 DEF Explained, Owes
  <2>3. job[w].endpoint \in stored =>
          \A r \in Range(d.rules) : r.out # job[w].endpoint
    BY <1>3, <1>6
  <2>4. ASSUME NEW r \in Range(conf.rules), r.out \notin d.outbounds
        PROVE  \E j \in Open : Explains(j, r)
    <3>1. CASE r.out \notin conf.outbounds
      BY <1>1, <3>1 DEF Explained, Dangling
    <3>2. CASE r.out = e
      <4>1. r.out # None
        BY <1>2, TransitConfigAssumption DEF Rules
      <4>2. Explains(job[w], r)
        BY <1>1, <1>3, <3>2, <4>1 DEF Explains
      <4>3. QED
        BY <1>7, <4>2
    <3>3. QED
      BY <1>6, <2>4, <3>1, <3>2
  <2>5. /\ conf.users = d.users \/ Pending(w, "users")'
        /\ conf.outbounds = d.outbounds \/ Pending(w, "outbounds")'
        /\ conf.rules = d.rules \/ Pending(w, "rules")'
    <3>1. ASSUME NEW s \in Sections, conf[s] # d[s]
          PROVE  Pending(w, s)'
      BY <1>5, <3>1, SectionFiles DEF Pending, Modified
    <3>2. QED
      BY <3>1 DEF Sections
  <2>6. (\A r \in Dangling(copy[w]) : \E j \in interrupted : Explains(j, r))'
    BY <1>5, <2>1 DEF Dangling, Explains
  <2>7. UsersAreFirst => (\A x \in Orphans(copy[w]) : \E j \in interrupted : Owes(j, x))'
    BY <1>5, <2>2 DEF Orphans
  <2>8. (\A r \in Range(conf.rules) : r.out \notin copy[w].outbounds =>
           \E j \in Open : Explains(j, r))'
    BY <1>5, <1>7, <2>4 DEF Explains
  <2>9. QED
    BY <1>5, <1>6, <2>3, <2>5, <2>6, <2>7, <2>8 DEF Saving
<1>10. QED
  BY <1>8, <1>9 DEF HalfDone, Serialised

\* The files are written in their order, so that sections that come no later than
\* the rules are written when the rules are.
LEMMA SaveHalfDone ==
  ASSUME Serialised, TransitInv, HalfDone, NEW w \in Workers,
         NEW k \in DOMAIN Layout, Save(w, k)
  PROVE  HalfDone'
<1>1. /\ conf \in Config /\ copy[w] \in Config /\ dirty[w] \subseteq DOMAIN Layout
      /\ pc[w] = "save" /\ k \in dirty[w] /\ \A i \in dirty[w] : k <= i
      /\ conf' = Overwritten(conf, copy[w], Layout[k])
      /\ dirty'[w] = dirty[w] \ {k}
      /\ UNCHANGED <<stored, pc, job, copy, interrupted>>
  BY DEF TransitInv, TypeOK, Save
<1>2. /\ conf'.users = IF "users" \in Layout[k] THEN copy[w].users ELSE conf.users
      /\ conf'.outbounds = IF "outbounds" \in Layout[k] THEN copy[w].outbounds
                           ELSE conf.outbounds
      /\ conf'.rules = IF "rules" \in Layout[k] THEN copy[w].rules ELSE conf.rules
  BY <1>1, OverwrittenConfig
<1>3. Saving(w) /\ Explained
  BY DEF HalfDone
<1>4. Open' = Open /\ interrupted \subseteq Open /\ job[w] \in Open
  BY <1>1 DEF Open
<1>5. /\ \A r \in Dangling(copy[w]) : \E j \in interrupted : Explains(j, r)
      /\ UsersAreFirst => \A x \in Orphans(copy[w]) : \E j \in interrupted : Owes(j, x)
      /\ job[w].kind = "unbind" /\ job[w].endpoint \in stored =>
           \A r \in Range(copy[w].rules) : r.out # job[w].endpoint
      /\ \A x \in copy[w].users : x \in conf.users \/ Owes(job[w], x)
      /\ \A e \in copy[w].outbounds :
           e \in conf.outbounds \/ (job[w].kind \in {"bind", "link"} /\ e = job[w].endpoint)
      /\ \A r \in Range(conf.rules) :
           r.out \notin copy[w].outbounds => \E j \in Open : Explains(j, r)
      /\ conf.users = copy[w].users \/ Pending(w, "users")
      /\ conf.outbounds = copy[w].outbounds \/ Pending(w, "outbounds")
      /\ conf.rules = copy[w].rules \/ Pending(w, "rules")
  BY <1>1, <1>3 DEF Saving
<1>6. ASSUME NEW s, s \notin Layout[k], Pending(w, s)
      PROVE  \E i \in DOMAIN Layout : s \in Layout[i] /\ ~ (i <= k)
  <2>1. DOMAIN Layout \subseteq Nat
    BY TransitConfigAssumption
  <2>2. QED
    BY <1>1, <1>6, <2>1 DEF Pending
\* A rule is written without its outbound only if that is written later.
<1>7. ASSUME NEW r \in Dangling(conf')
      PROVE  \E j \in Open : Explains(j, r)
  <2>1. r \in Range(conf'.rules) /\ r.out \notin conf'.outbounds
    BY DEF Dangling
  <2>2. CASE r.out \notin copy[w].outbounds
    BY <1>2, <1>4, <1>5, <2>1, <2>2 DEF Dangling
  <2>3. CASE r.out \in copy[w].outbounds
    <3>1. "outbounds" \notin Layout[k] /\ r.out \notin conf.outbounds
      BY <1>2, <2>1, <2>3
    <3>2. CASE r \in Range(conf.rules)
      BY <1>3, <3>1, <3>2 DEF Explained, Dangling
    <3>3. CASE r \notin Range(conf.rules)
      <4>1. "rules" \in Layout[k]
        BY <1>2, <2>1, <3>3
      <4>2. ~ OutboundsAreFirst
        BY <1>5, <1>6, <2>3, <3>1, <4>1 DEF OutboundsAreFirst
      <4>3. job[w].kind \in {"bind", "link"} /\ job[w].endpoint = r.out
        BY <1>5, <2>3, <3>1
      <4>4. Explains(job[w], r)
        BY <4>2, <4>3 DEF Explains
      <4>5. QED
        BY <1>4, <4>4
    <3>4. QED
      BY <3>2, <3>3
  <2>4. QED
    BY <2>2, <2>3
<1>8. ASSUME UsersAreFirst, NEW x \in Orphans(conf')
      PROVE  \E j \in Open : Owes(j, x)
  <2>1. CASE "rules" \in Layout[k]
    <3>1. conf'.users = copy[w].users /\ conf'.rules = copy[w].rules
      BY <1>2, <1>5, <1>6, <1>8, <2>1 DEF UsersAreFirst
    <3>2. x \in Orphans(copy[w])
      BY <3>1 DEF Orphans
    <3>3. QED
      BY <1>4, <1>5, <1>8, <3>2
  <2>2. CASE "rules" \notin Layout[k]
    <3>1. x \in conf'.users /\ \A r \in Range(conf.rules) : r.user # x.name
      BY <1>2, <2>2 DEF Orphans
    <3>2. CASE x \in conf.users
      BY <1>3, <1>8, <3>1, <3>2 DEF Explained, Orphans
    <3>3. CASE x \notin conf.users
      BY <1>2, <1>4, <1>5, <3>1, <3>3
    <3>4. QED
      BY <3>2, <3>3
  <2>3. QED
    BY <2>1, <2>2
<1>9. \A j, r : Explains(j, r)' <=> Explains(j, r)
  BY <1>1 DEF Explains, OutboundsAreFirst
<1>10. Explained'
  <2>1. (\A r \in Dangling(conf) : \E j \in Open : Explains(j, r))'
    BY <1>4, <1>7, <1>9 DEF Dangling
  <2>2. (UsersAreFirst => \A x \in Orphans(conf) : \E j \in Open : Owes(j, x))'
    BY <1>4, <1>8 DEF Orphans, UsersAreFirst
  <2>3. QED
    BY <2>1, <2>2 DEF Explained
<1>11. Saving(w)'
  <2>1. (\A r \in Dangling(copy[w]) : \E j \in interrupted : Explains(j, r))'
    BY <1>1, <1>5, <1>9 DEF Dangling
  <2>2. (UsersAreFirst => \A x \in Orphans(copy[w]) : \E j \in interrupted : Owes(j, x))'
    BY <1>1, <1>5 DEF Orphans, UsersAreFirst
  <2>3. ASSUME NEW r \in Range(conf'.rules), r.out \notin copy[w].outbounds
        PROVE  \E j \in Open : Explains(j, r)
    BY <1>2, <1>4, <1>5, <2>3 DEF Dangling
  <2>4. (\A r \in Range(conf.rules) : r.out \notin copy[w].outbounds =>
           \E j \in Open : Explains(j, r))'
    BY <1>1, <1>4, <1>9, <2>3
  <2>5. (\A x \in copy[w].users : x \in conf.users \/ Owes(job[w], x))'
    BY <1>1, <1>2, <1>5
  <2>6. (\A e \in copy[w].outbounds :
           e \in conf.outbounds \/ (job[w].kind \in {"bind", "link"} /\ e = job[w].endpoint))'
    BY <1>1, <1>2, <1>5
  <2>7. \A s : s \in Layout[k] \/ ~Pending(w, s) \/ Pending(w, s)'
    BY <1>1 DEF Pending
  <2>8. /\ (conf.users = copy[w].users \/ Pending(w, "users"))'
        /\ (conf.outbounds = copy[w].outbounds \/ Pending(w, "outbounds"))'
        /\ (conf.rules = copy[w].rules \/ Pending(w, "rules"))'
    BY <1>1, <1>2, <1>5, <2>7
  <2>9. QED
    BY <1>1, <1>5, <2>1, <2>2, <2>4, <2>5, <2>6, <2>8 DEF Saving
<1>12. QED
  BY <1>10, <1>11 DEF HalfDone, Serialised

\* A worker that has written everything is left with what is interrupted.
LEMMA WrittenLeaves ==
  ASSUME HalfDone, NEW w \in Workers,
         \/ pc[w] = "save" /\ dirty[w] = {}
         \/ pc[w] \in {"forget", "check", "reload"}
  PROVE  /\ \A r \in Dangling(conf) : \E j \in interrupted : Explains(j, r)
         /\ UsersAreFirst => \A x \in Orphans(conf) : \E j \in interrupted : Owes(j, x)
         /\ conf.users = copy[w].users /\ conf.outbounds = copy[w].outbounds
         /\ conf.rules = copy[w].rules
         /\ job[w].kind = "unbind" /\ job[w].endpoint \in stored =>
              \A r \in Range(conf.rules) : r.out # job[w].endpoint
<1>1. \A s : ~Pending(w, s)
  BY DEF Pending
<1>2. Saving(w) /\ pc[w] \in {"save", "forget", "check", "reload"}
  BY DEF HalfDone
<1>3. /\ conf.users = copy[w].users /\ conf.outbounds = copy[w].outbounds
      /\ conf.rules = copy[w].rules
  BY <1>1, <1>2 DEF Saving
<1>4. Dangling(conf) = Dangling(copy[w]) /\ Orphans(conf) = Orphans(copy[w])
  BY <1>3 DEF Dangling, Orphans
<1>5. QED
  BY <1>2, <1>3, <1>4 DEF Saving

\* Ending an operation, having written everything, and moving on with it.
LEMMA ReleaseHalfDone ==
  ASSUME Serialised, TransitInv, HalfDone, NEW w \in Workers, Release(w),
         UNCHANGED <<conf, stored, interrupted>>,
         \/ pc[w] = "save" /\ dirty[w] = {}
         \/ pc[w] \in {"check", "reload"}
  PROVE  HalfDone'
<1>1. /\ \A r \in Dangling(conf) : \E j \in interrupted : Explains(j, r)
      /\ UsersAreFirst => \A x \in Orphans(conf) : \E j \in interrupted : Owes(j, x)
  BY WrittenLeaves
<1>2. pc'[w] = "idle"
  BY DEF Release, Goto, TransitInv, TypeOK
<1>3. Explained'
  BY <1>1 DEF Explained, Open, Explains, Dangling, Orphans
<1>4. \A v \in Workers : Saving(v)'
  BY <1>2 DEF Saving, Serialised
<1>5. QED
  BY <1>3, <1>4 DEF HalfDone

LEMMA GotoHalfDone ==
  ASSUME Serialised, TransitInv, HalfDone, NEW w \in Workers,
         UNCHANGED <<conf, stored, job, copy, dirty, interrupted>>,
         \/ pc[w] = "save" /\ dirty[w] = {}
         \/ pc[w] \in {"forget", "check", "reload"}
  PROVE  HalfDone'
<1>1. /\ conf.users = copy[w].users /\ conf.outbounds = copy[w].outbounds
      /\ conf.rules = copy[w].rules
  BY WrittenLeaves
<1>2. Explained /\ Saving(w) /\ pc[w] \in {"save", "forget", "check", "reload"}
  BY DEF HalfDone
<1>3. Open' = Open
  BY DEF Open
<1>4. Explained'
  BY <1>2, <1>3 DEF Explained, Explains, Dangling, Orphans
<1>5. Saving(w)'
  <2>1. (\A r \in Dangling(copy[w]) : \E j \in interrupted : Explains(j, r))'
    BY <1>2 DEF Saving, Dangling, Explains
  <2>2. UsersAreFirst => (\A x \in Orphans(copy[w]) : \E j \in interrupted : Owes(j, x))'
    BY <1>2 DEF Saving, Orphans
  <2>3. (\A r \in Range(conf.rules) : r.out \notin copy[w].outbounds =>
           \E j \in Open : Explains(j, r))'
    BY <1>2, <1>3 DEF Saving, Explains
  <2>4. QED
    BY <1>1, <1>2, <2>1, <2>2, <2>3 DEF Saving
<1>6. QED
  BY <1>4, <1>5 DEF HalfDone, Serialised

\* The endpoint that is forgotten explains nothing that is left.
LEMMA ForgetHalfDone ==
  ASSUME Serialised, TransitInv, HalfDone, NEW w \in Workers, Forget(w)
  PROVE  HalfDone'
<1>1. /\ \A r \in Dangling(conf) : \E j \in interrupted : Explains(j, r)
      /\ UsersAreFirst => \A x \in Orphans(conf) : \E j \in interrupted : Owes(j, x)
      /\ job[w].kind = "unbind" /\ job[w].endpoint \in stored =>
           \A r \in Range(conf.rules) : r.out # job[w].endpoint
  BY WrittenLeaves DEF Forget
<1>2. /\ job[w].kind = "unbind" /\ pc'[w] = "idle"
      /\ stored' = stored \ {job[w].endpoint} /\ UNCHANGED <<conf, interrupted>>
  BY DEF Forget, Release, Goto, TransitInv, TypeOK, JobsInv
<1>3. ASSUME NEW r \in Dangling(conf)
      PROVE  \E j \in interrupted : Explains(j, r)'
  <2>1. PICK j \in interrupted : Explains(j, r)
    BY <1>1
  <2>2. r \in Range(conf.rules)
    BY DEF Dangling
  <2>3. Explains(j, r)'
    BY <1>1, <1>2, <2>1, <2>2 DEF Explains
  <2>4. QED
    BY <2>3
<1>4. Explained'
  <2>1. Dangling(conf)' = Dangling(conf) /\ Orphans(conf)' = Orphans(conf)
    BY <1>2 DEF Dangling, Orphans
  <2>2. interrupted \subseteq Open'
    BY <1>2 DEF Open
  <2>3. QED
    BY <1>1, <1>3, <2>1, <2>2 DEF Explained
<1>5. \A v \in Workers : Saving(v)'
  BY <1>2 DEF Saving, Serialised
<1>6. QED
  BY <1>4, <1>5 DEF HalfDone

\* A killed job stays open.
LEMMA CrashHalfDone ==
  ASSUME TransitInv, HalfDone, Serialised, NEW w \in Workers, Crash(w)
  PROVE  HalfDone'
<1>1. /\ interrupted' = interrupted \cup {job[w]} /\ UNCHANGED <<conf, stored>>
      /\ pc'[w] = "idle"
  BY DEF Crash, Release, Goto, TransitInv, TypeOK
<1>2. Open \subseteq Open'
  BY <1>1, OpenJobs
<1>3. Explained'
  BY <1>1, <1>2 DEF HalfDone, Explained, Explains, Dangling, Orphans
<1>4. \A v \in Workers : Saving(v)'
  BY <1>1 DEF Saving, Serialised
<1>5. QED
  BY <1>3, <1>4 DEF HalfDone

LEMMA NextHalfDone ==
  ASSUME Serialised, TransitInv, UsersAreDistinct, HalfDone, [Next]_vars
  PROVE  HalfDone'
<1>1. ASSUME NEW w \in Workers, Proceed(w)
      PROVE  HalfDone'
  <2>1. CASE BindLoad(w) \/ UnbindLoad(w)
    BY <2>1, BindLoadHalfDone, UnbindLoadHalfDone
  <2>2. CASE \E k \in DOMAIN Layout : Save(w, k)
    BY <2>2, SaveHalfDone
  <2>3. CASE Saved(w)
    <3>1. /\ pc[w] = "save" /\ dirty[w] = {}
          /\ UNCHANGED <<conf, stored, interrupted>>
          /\ Release(w) \/ UNCHANGED <<job, copy, dirty>>
      BY <2>3 DEF Saved
    <3>2. QED
      BY <3>1, ReleaseHalfDone, GotoHalfDone
  <2>4. CASE Forget(w)
    BY <2>4, ForgetHalfDone
  <2>5. CASE Check(w)
    <3>1. /\ pc[w] = "check" /\ UNCHANGED <<conf, stored, interrupted>>
          /\ Release(w) \/ UNCHANGED <<job, copy, dirty>>
      BY <2>5 DEF Check
    <3>2. QED
      BY <3>1, ReleaseHalfDone, GotoHalfDone
  <2>6. CASE Reload(w)
    BY <2>6, ReleaseHalfDone DEF Reload
  <2>7. QED
    BY <1>1, <2>1, <2>2, <2>3, <2>4, <2>5, <2>6 DEF Proceed
<1>2. CASE UNCHANGED vars
  <2>1. Explained'
    BY <1>2 DEF vars, HalfDone, Explained, Open, Explains, Dangling, Orphans
  <2>2. ASSUME NEW w \in Workers
        PROVE  Saving(w)'
    BY <1>2 DEF vars, HalfDone, Saving, Pending, Open, Explains, Dangling, Orphans
  <2>3. QED
    BY <2>1, <2>2 DEF HalfDone
<1>3. QED
  BY <1>1, <1>2, StartHalfDone, CrashHalfDone DEF Next

LEMMA HalfDoneAlways ==
  ASSUME Serialised
  PROVE  Spec => [](TransitInv /\ HalfDone)
<1>1. TransitInv /\ UsersAreDistinct /\ HalfDone /\ [Next]_vars => HalfDone'
  BY NextHalfDone
<1>2. QED
  BY <1>1, InitHalfDone, TransitAlways, UsersStayDistinct, PTL DEF Spec

\* With one process, and the outbounds in no later file than the rules, a
\* configuration that sing-box refuses is the work of an unbind task that is going
\* on or was killed: no killed bind task or command keeps sing-box from starting.
THEOREM BindsNeverDangle ==
  ASSUME Serialised, OutboundsAreFirst
  PROVE  Spec => []BindNeverDangles
<1>1. TransitInv /\ HalfDone => BindNeverDangles
  <2> SUFFICES ASSUME TransitInv, HalfDone, ~Checks(conf)
               PROVE  \/ \E j \in interrupted : j.kind = "unbind"
                      \/ \E w \in Workers : job[w].kind = "unbind"
    BY DEF BindNeverDangles
  <2>1. PICK r \in Dangling(conf) : TRUE
    BY DEF Checks, Dangling
  <2>2. PICK j \in Open : j.kind = "unbind"
    BY <2>1 DEF HalfDone, Explained, Explains
  <2>3. QED
    BY <2>2 DEF Open
<1>2. QED
  BY <1>1, HalfDoneAlways, PTL

\* With one process, and the users in no later file than the rules, once every job
\* that was killed has been repeated, whatever else was done in between, every user
\* has a route and sing-box accepts the configuration.
THEOREM SettledStaysConsistent ==
  ASSUME Serialised, UsersAreFirst
  PROVE  Spec => []SettledIsConsistent
<1>1. TransitInv /\ HalfDone => SettledIsConsistent
  <2> SUFFICES ASSUME TransitInv, HalfDone, interrupted = {},
                      \A w \in Workers : pc[w] = "idle"
               PROVE  Consistent(conf)
    BY DEF SettledIsConsistent
  <2>1. \A j \in Open : j.kind = "none"
    BY NoJobType DEF Open, TransitInv, JobsInv
  <2>2. Dangling(conf) = {} /\ Orphans(conf) = {}
    BY <2>1 DEF HalfDone, Explained, Explains, Owes
  <2>3. Checks(conf)
    BY <2>2 DEF Dangling, Checks
  <2>4. conf \in Config /\ Range(conf.rules) \subseteq Rules
    BY ConfigParts DEF TransitInv, TypeOK
  <2>5. ASSUME NEW x \in conf.users
        PROVE  Routed(conf, x.name) # None
    <3>1. PICK r \in Range(conf.rules) : r.user = x.name
      BY <2>2 DEF Orphans
    <3>2. PICK s \in Range(conf.rules) : Routed(conf, x.name) = s.out
      BY <2>4, <3>1, RoutedByRule
    <3>3. s.out \in Endpoints
      BY <2>4 DEF Rules
    <3>4. QED
      BY <3>2, <3>3, TransitConfigAssumption
  <2>6. QED
    BY <2>3, <2>5 DEF Consistent
<1>2. QED
  BY <1>1, HalfDoneAlways, PTL

-------------------------------------------------------------------------------
(* Operations implement LinkTable *)

RuleOf(c, v) == \E r \in Range(c.rules) : r.user = v

\* A rule is for a user of the inbound.
Housed(c) == \A r \in Range(c.rules) : HasUser(c, r.user)

\* The name is linked in the one as it is in the other; it is in neither the
\* users nor the rules.
Alike(c, d, v) ==
  /\ HasUser(c, v) <=> HasUser(d, v)
  /\ \A r \in Rules : r.user = v => (r \in Range(c.rules) <=> r \in Range(d.rules))
Absent(d, v) == ~HasUser(d, v) /\ ~RuleOf(d, v)

\* What is written for a job changes the files c only where the job is about
\* it: the user's link to the endpoint is made, and with the command one name
\* may give way; the links of the user and to the endpoint are removed.
BindWrites(j, c, d) ==
  /\ HasUser(d, j.user) /\ [user |-> j.user, out |-> j.endpoint] \in Range(d.rules)
  /\ HasUser(c, j.user)
     \/ \A r \in Range(c.rules) : r.user = j.user => r.out = j.endpoint
  /\ \E old \in IF j.kind = "link" THEN Names ELSE {j.user} :
       \A v \in Names \ {j.user} : Alike(c, d, v) \/ (v = old /\ Absent(d, v))

UnbindWrites(j, c, d) ==
  /\ ~RuleOf(d, j.user)
  /\ j.tagged => \A r \in Range(d.rules) : r.out # j.endpoint
  /\ \A v \in Names :
       \/ Alike(c, d, v)
       \/ /\ Absent(d, v)
          /\ \/ v = j.user \/ ~HasUser(c, v) \/ ~RuleOf(c, v)
             \/ [user |-> v, out |-> j.endpoint] \in Range(c.rules)

Writes(j, c, d) == /\ Housed(d)
                   /\ j.kind \in {"bind", "link"} => BindWrites(j, c, d)
                   /\ j.kind = "unbind" => UnbindWrites(j, c, d)

\* As long as no operation has been cut short.
Unbroken ==
  crashes = 0 =>
    \A w \in Workers : /\ pc[w] \in {"idle", "load"} => Housed(conf)
                       /\ pc[w] \in {"save", "forget", "check", "reload"} =>
                            Writes(job[w], conf, copy[w])

\* The entry of the table for a user.
LinkOf(c, v) == IF HasUser(c, v) THEN Routed(c, v) ELSE None

LEMMA LinkOfRule ==
  ASSUME NEW c \in Config, OneRule(c), NEW v
  PROVE  /\ ~HasUser(c, v) \/ ~RuleOf(c, v) => LinkOf(c, v) = None
         /\ \A r \in Range(c.rules) :
              r.user = v /\ HasUser(c, v) => LinkOf(c, v) = r.out
         /\ LinkOf(c, v) \in Endpoints \cup {None}
<1>1. Range(c.rules) \subseteq Rules
  BY ConfigParts
<1>2. ~RuleOf(c, v) => Routed(c, v) = None
  BY RoutedByRule DEF RuleOf
<1>3. RuleOf(c, v) =>
        \E r \in Range(c.rules) : r.user = v /\ Routed(c, v) = r.out
  BY RoutedByRule DEF RuleOf
<1>4. \A r \in Range(c.rules) : r.user = v => RuleOf(c, v)
  BY DEF RuleOf
<1>5. \A r \in Range(c.rules) : r.user = v => Routed(c, v) = r.out
  BY <1>3, <1>4 DEF OneRule
<1>6. Routed(c, v) \in Endpoints \cup {None}
  BY <1>1, <1>2, <1>3 DEF Rules
<1>7. QED
  BY <1>2, <1>5, <1>6 DEF LinkOf

LEMMA AlikeLinks ==
  ASSUME NEW c \in Config, NEW d \in Config, OneRule(c), OneRule(d), NEW v,
         Alike(c, d, v)
  PROVE  LinkOf(c, v) = LinkOf(d, v)
<1>1. HasUser(c, v) <=> HasUser(d, v)
  BY DEF Alike
<1>2. Range(c.rules) \subseteq Rules /\ Range(d.rules) \subseteq Rules
  BY ConfigParts
<1>3. CASE ~HasUser(c, v)
  BY <1>1, <1>3, LinkOfRule
<1>4. CASE HasUser(c, v) /\ RuleOf(c, v)
  <2>1. PICK r \in Range(c.rules) : r.user = v
    BY <1>4 DEF RuleOf
  <2>2. r \in Range(d.rules)
    BY <1>2, <2>1 DEF Alike
  <2>3. QED
    BY <1>1, <1>4, <2>1, <2>2, LinkOfRule
<1>5. CASE ~RuleOf(c, v)
  <2>1. ~RuleOf(d, v)
    BY <1>2, <1>5 DEF RuleOf, Alike
  <2>2. QED
    BY <1>5, <2>1, LinkOfRule
<1>6. QED
  BY <1>3, <1>4, <1>5

\* bindTransit touches the rules and users with the user's name or, if it is
\* given a UUID that is in use, of the one user with it.
LEMMA BoundWrites ==
  ASSUME NEW j \in Started, j.kind \in {"bind", "link"}, NEW c \in Config,
         NEW i \in Ids, Distinct(c), Housed(c),
         j.kind = "bind" => i \notin {x.id : x \in c.users},
         NEW d, d = Bound(c, j.user, j.endpoint, i)
  PROVE  Writes(j, c, d)
<1> DEFINE u == j.user
           e == j.endpoint
           new == [user |-> u, out |-> e]
<1>1. u \in Names /\ e \in Endpoints /\ c.users \subseteq Users
  BY ConfigParts DEF Started
<1>2. /\ d.users = (c.users \ Replaced(c, u, i)) \cup {[name |-> u, id |-> i]}
      /\ Range(d.rules)
           = {new} \cup {r \in Range(c.rules) : r.user \notin Displaced(c, u, i)}
  BY <1>1, BoundConfig
<1>3. \A v : HasUser(d, v) <=> v = u \/ \E x \in c.users \ Replaced(c, u, i) : x.name = v
  <2>1. PICK y : y = [name |-> u, id |-> i]
    OBVIOUS
  <2>2. y.name = u /\ d.users = (c.users \ Replaced(c, u, i)) \cup {y}
    BY <1>2, <2>1
  <2>3. QED
    BY <2>2, Zenon DEF HasUser
<1>4. new.user = u
  OBVIOUS
<1>5. \A x \in c.users : x.name \notin Displaced(c, u, i) => x \notin Replaced(c, u, i)
  BY DEF Displaced
<1>6. Housed(d)
  <2>1. ASSUME NEW r \in Range(c.rules), r.user \notin Displaced(c, u, i)
        PROVE  HasUser(d, r.user)
    BY <1>3, <1>5, <2>1 DEF Housed, HasUser
  <2>2. HasUser(d, new.user)
    BY <1>3, <1>4
  <2>3. QED
    BY <1>2, <2>1, <2>2 DEF Housed
<1>7. ASSUME NEW v \in Names, v \notin Displaced(c, u, i)
      PROVE  Alike(c, d, v)
  <2>1. v # u /\ \A x \in c.users : x.name = v => x \notin Replaced(c, u, i)
    BY <1>5, <1>7 DEF Displaced
  <2>2. HasUser(c, v) <=> HasUser(d, v)
    BY <1>3, <2>1 DEF HasUser
  <2>3. \A r \in Rules : r.user = v => (r \in Range(c.rules) <=> r \in Range(d.rules))
    BY <1>2, <1>4, <1>7, <2>1
  <2>4. QED
    BY <2>2, <2>3 DEF Alike
<1>8. ASSUME NEW v \in Displaced(c, u, i), v # u
      PROVE  Absent(d, v)
  <2>1. PICK y \in Replaced(c, u, i) : y.name = v
    BY <1>8 DEF Displaced
  <2>2. \A x \in c.users : x.name = v => x = y
    BY <2>1 DEF Replaced, Distinct
  <2>3. ~HasUser(d, v)
    BY <1>3, <1>8, <2>1, <2>2
  <2>4. ~RuleOf(d, v)
    BY <1>2, <1>4, <1>8 DEF RuleOf
  <2>5. QED
    BY <2>3, <2>4 DEF Absent
<1>9. \E old \in IF j.kind = "link" THEN Names ELSE {u} :
        \A v \in Displaced(c, u, i) : v = u \/ v = old
  <2>1. CASE \E y \in c.users : y.id = i
    <3>1. PICK y \in c.users : y.id = i
      BY <2>1
    <3>2. j.kind = "link" /\ y.name \in Names
      BY <1>1, <3>1 DEF Users
    <3>3. \A x \in Replaced(c, u, i) : x.name = u \/ x.name = y.name
      BY <3>1 DEF Replaced, Distinct
    <3>4. \A v \in Displaced(c, u, i) : v = u \/ v = y.name
      BY <3>3 DEF Displaced
    <3>5. QED
      BY <3>2, <3>4
  <2>2. CASE ~\E y \in c.users : y.id = i
    <3>1. \A x \in Replaced(c, u, i) : x.name = u
      BY <2>2 DEF Replaced
    <3>2. \A v \in Displaced(c, u, i) : v = u
      BY <3>1 DEF Displaced
    <3>3. QED
      BY <1>1, <3>2
  <2>3. QED
    BY <2>1, <2>2
<1>10. BindWrites(j, c, d)
  <2>1. HasUser(d, u) /\ new \in Range(d.rules)
    BY <1>2, <1>3
  <2>2. HasUser(c, u) \/ \A r \in Range(c.rules) : r.user = u => r.out = e
    BY DEF Housed
  <2>3. \E old \in IF j.kind = "link" THEN Names ELSE {u} :
          \A v \in Names \ {u} : Alike(c, d, v) \/ (v = old /\ Absent(d, v))
    BY <1>7, <1>8, <1>9
  <2>4. QED
    BY <2>1, <2>2, <2>3 DEF BindWrites
<1>11. QED
  BY <1>6, <1>10 DEF Writes

\* unbindTransit touches the users it removes the rules of, and no other.
LEMMA UnboundWrites ==
  ASSUME NEW j \in Started, j.kind = "unbind", NEW c \in Config, OneRule(c),
         Housed(c), NEW e, e \in {j.endpoint, None}, j.tagged => e = j.endpoint,
         NEW d, d = Unbound(c, j.user, e)
  PROVE  Writes(j, c, d)
<1> DEFINE u == j.user
<1>1. Range(c.rules) \subseteq Rules
  BY ConfigParts
<1>2. /\ d.users = {x \in c.users : x.name # u
                                   /\ \A r \in Hits(c, u, e) : x.name # r.user}
      /\ Range(d.rules) = Range(c.rules) \ Hits(c, u, e)
  BY UnboundConfig
<1>3. \A r \in Range(c.rules) :
        r \in Hits(c, u, e) <=> r.user = u \/ r.out = e
  BY DEF Hits
<1>4. \A v : HasUser(d, v) <=> /\ HasUser(c, v) /\ v # u
                               /\ \A r \in Hits(c, u, e) : v # r.user
  BY <1>2 DEF HasUser
<1>5. ASSUME NEW v, v = u \/ \E r \in Hits(c, u, e) : v = r.user
      PROVE  Absent(d, v)
  <2>1. ~HasUser(d, v)
    BY <1>4, <1>5
  <2>2. \A r \in Range(c.rules) : r.user = v => r \in Hits(c, u, e)
    BY <1>3, <1>5 DEF OneRule, Hits
  <2>3. QED
    BY <1>2, <2>1, <2>2 DEF Absent, RuleOf
<1>6. ASSUME NEW v \in Names, v # u, \A r \in Hits(c, u, e) : v # r.user
      PROVE  Alike(c, d, v)
  BY <1>2, <1>4, <1>6 DEF Alike
<1>7. Housed(d)
  BY <1>2, <1>3, <1>4, <1>5 DEF Housed, Absent, RuleOf
<1>8. ASSUME NEW v \in Names, NEW r \in Hits(c, u, e), v = r.user, v # u
      PROVE  [user |-> v, out |-> j.endpoint] \in Range(c.rules)
  <2>1. r \in Rules /\ r \in Range(c.rules) /\ r.out = e
    BY <1>1, <1>8 DEF Hits
  <2>2. r.out = j.endpoint
    BY <2>1, TransitConfigAssumption DEF Rules
  <2>3. r = [user |-> v, out |-> j.endpoint]
    BY <1>8, <2>1, <2>2 DEF Rules
  <2>4. QED
    BY <2>1, <2>3
<1>9. UnbindWrites(j, c, d)
  <2>1. ~RuleOf(d, u)
    BY <1>5 DEF Absent
  <2>2. j.tagged => \A r \in Range(d.rules) : r.out # j.endpoint
    BY <1>2, <1>3
  <2>3. QED
    BY <1>5, <1>6, <1>8, <2>1, <2>2 DEF UnbindWrites
<1>10. QED
  BY <1>7, <1>9 DEF Writes

\* What a saved file makes of the users and rules.
LEMMA SaveSections ==
  ASSUME TransitInv, NEW w \in Workers, NEW k \in DOMAIN Layout, Save(w, k)
  PROVE  /\ conf'.users \in {conf.users, copy[w].users}
         /\ conf'.rules \in {conf.rules, copy[w].rules}
<1>1. conf' = Overwritten(conf, copy[w], Layout[k])
  BY DEF Save
<1>2. QED
  BY <1>1, OverwrittenConfig DEF TransitInv, TypeOK

\* A step towards what is written stays one, and changes the table as the job
\* may, whichever of the users and the rules are written first.
LEMMA StepWrites ==
  ASSUME NEW j \in Started, NEW c \in Config, NEW b \in Config, NEW d \in Config,
         OneRule(c), OneRule(b), OneRule(d), Writes(j, c, d),
         b.users \in {c.users, d.users}, b.rules \in {c.rules, d.rules}
  PROVE  /\ Writes(j, b, d)
         /\ j.kind \in {"bind", "link"} =>
              \E old \in IF j.kind = "link" THEN Names ELSE {j.user} :
                \A v \in Names : LinkOf(b, v) \in
                  {LinkOf(c, v)} \cup (IF v = j.user THEN {j.endpoint} ELSE {})
                    \cup (IF v = old /\ v # j.user THEN {None} ELSE {})
         /\ j.kind = "unbind" =>
              \A v \in Names : LinkOf(b, v) \in
                {LinkOf(c, v)} \cup (IF v = j.user \/ LinkOf(c, v) = j.endpoint
                                     THEN {None} ELSE {})
<1>1. /\ \A v : HasUser(b, v) \in {HasUser(c, v), HasUser(d, v)}
      /\ \A v : RuleOf(b, v) \in {RuleOf(c, v), RuleOf(d, v)}
      /\ b.users = c.users => \A v : HasUser(b, v) <=> HasUser(c, v)
      /\ b.users = d.users => \A v : HasUser(b, v) <=> HasUser(d, v)
      /\ b.rules = c.rules => \A v : RuleOf(b, v) <=> RuleOf(c, v)
      /\ b.rules = d.rules => \A v : RuleOf(b, v) <=> RuleOf(d, v)
  BY DEF HasUser, RuleOf
<1>2. ASSUME NEW v, Alike(c, d, v)
      PROVE  Alike(b, d, v) /\ LinkOf(b, v) = LinkOf(c, v)
  <2>1. Alike(b, d, v)
    BY <1>1, <1>2 DEF Alike
  <2>2. QED
    BY <1>2, <2>1, AlikeLinks
<1>3. ASSUME NEW v, Absent(d, v)
      PROVE  \/ LinkOf(b, v) = None /\ (~HasUser(b, v) \/ ~RuleOf(b, v))
             \/ /\ LinkOf(b, v) = LinkOf(c, v) /\ b.users = c.users
                /\ b.rules = c.rules
  <2>1. CASE b.users = d.users \/ b.rules = d.rules
    BY <1>1, <1>3, <2>1, LinkOfRule DEF Absent
  <2>2. CASE b.users = c.users /\ b.rules = c.rules
    <3>1. Alike(b, c, v)
      BY <1>1, <2>2 DEF Alike
    <3>2. QED
      BY <2>2, <3>1, AlikeLinks
  <2>3. QED
    BY <2>1, <2>2
<1>4. CASE j.kind \in {"bind", "link"}
  <2> DEFINE u == j.user
             e == j.endpoint
             Olds == IF j.kind = "link" THEN Names ELSE {u}
  <2>1. BindWrites(j, c, d)
    BY <1>4 DEF Writes
  <2>2. PICK old \in Olds :
          \A v \in Names \ {u} : Alike(c, d, v) \/ (v = old /\ Absent(d, v))
    BY <2>1 DEF BindWrites
  <2>3. /\ HasUser(d, u) /\ [user |-> u, out |-> e] \in Range(d.rules)
        /\ HasUser(c, u) \/ \A r \in Range(c.rules) : r.user = u => r.out = e
    BY <2>1 DEF BindWrites
  <2>4. \A v \in Names \ {u} : Alike(b, d, v) \/ (v = old /\ Absent(d, v))
    BY <1>2, <2>2
  <2>5. \A r \in Range(d.rules) : r.user = u => r.out = e
    BY <2>3 DEF OneRule
  <2>6. HasUser(b, u) \/ \A r \in Range(b.rules) : r.user = u => r.out = e
    BY <1>1, <2>3, <2>5
  <2>7. LinkOf(b, u) \in {LinkOf(c, u), e}
    <3>1. CASE ~HasUser(b, u)
      <4>1. ~HasUser(c, u)
        BY <1>1, <2>3, <3>1
      <4>2. QED
        BY <3>1, <4>1, LinkOfRule
    <3>2. CASE HasUser(b, u) /\ b.rules = d.rules
      BY <2>3, <3>2, LinkOfRule
    <3>3. CASE HasUser(b, u) /\ b.rules = c.rules /\ RuleOf(c, u)
      <4>1. PICK r \in Range(c.rules) : r.user = u
        BY <3>3 DEF RuleOf
      <4>2. LinkOf(b, u) = r.out
        BY <3>3, <4>1, LinkOfRule
      <4>3. HasUser(c, u) => LinkOf(c, u) = r.out
        BY <4>1, LinkOfRule
      <4>4. QED
        BY <2>3, <4>1, <4>2, <4>3
    <3>4. CASE b.rules = c.rules /\ ~RuleOf(c, u)
      <4>1. ~RuleOf(b, u)
        BY <1>1, <3>4
      <4>2. QED
        BY <3>4, <4>1, LinkOfRule
    <3>5. QED
      BY <3>1, <3>2, <3>3, <3>4
  <2>8. \A v \in Names : LinkOf(b, v) \in
          {LinkOf(c, v)} \cup (IF v = u THEN {e} ELSE {})
            \cup (IF v = old /\ v # u THEN {None} ELSE {})
    BY <1>2, <1>3, <2>2, <2>7
  <2>9. BindWrites(j, b, d)
    BY <2>3, <2>4, <2>6 DEF BindWrites
  <2>10. j.kind # "unbind"
    BY <1>4
  <2>11. QED
    BY <2>8, <2>9, <2>10 DEF Writes
<1>5. CASE j.kind = "unbind"
  <2>1. UnbindWrites(j, c, d)
    BY <1>5 DEF Writes
  <2>2. ASSUME NEW v \in Names
        PROVE  \/ Alike(b, d, v)
               \/ /\ Absent(d, v)
                  /\ \/ v = j.user \/ ~HasUser(b, v) \/ ~RuleOf(b, v)
                     \/ [user |-> v, out |-> j.endpoint] \in Range(b.rules)
    <3>1. CASE Alike(c, d, v)
      BY <1>2, <3>1
    <3>2. CASE ~Alike(c, d, v)
      <4>1. /\ Absent(d, v)
            /\ \/ v = j.user \/ ~HasUser(c, v) \/ ~RuleOf(c, v)
               \/ [user |-> v, out |-> j.endpoint] \in Range(c.rules)
        BY <2>1, <3>2 DEF UnbindWrites
      <4>2. QED
        BY <1>1, <1>3, <4>1
    <3>3. QED
      BY <3>1, <3>2
  <2>3. UnbindWrites(j, b, d)
    BY <2>1, <2>2 DEF UnbindWrites
  <2>4. ASSUME NEW v \in Names
        PROVE  LinkOf(b, v) \in
          {LinkOf(c, v)} \cup (IF v = j.user \/ LinkOf(c, v) = j.endpoint
                               THEN {None} ELSE {})
    <3>1. CASE Alike(c, d, v)
      BY <1>2, <3>1
    <3>2. CASE ~Alike(c, d, v)
      <4>1. Absent(d, v) /\ (\/ v = j.user \/ ~HasUser(c, v) \/ ~RuleOf(c, v)
                             \/ [user |-> v, out |-> j.endpoint] \in Range(c.rules))
        BY <2>1, <3>2 DEF UnbindWrites
      <4>2. LinkOf(b, v) \in {None, LinkOf(c, v)}
        BY <1>3, <4>1
      <4>3. CASE ~HasUser(c, v) \/ ~RuleOf(c, v)
        BY <4>2, <4>3, LinkOfRule
      <4>4. CASE /\ [user |-> v, out |-> j.endpoint] \in Range(c.rules)
                 /\ HasUser(c, v)
        <5>1. LinkOf(c, v) = j.endpoint
          BY <4>4, LinkOfRule
        <5>2. QED
          BY <4>2, <5>1
      <4>5. QED
        BY <4>1, <4>2, <4>3, <4>4
    <3>3. QED
      BY <3>1, <3>2
  <2>5. QED
    BY <1>5, <2>3, <2>4 DEF Writes
<1>6. QED
  BY <1>4, <1>5 DEF Started

\* The worker that Links takes the task from is the only one.
LEMMA OnlyWorker ==
  ASSUME Serialised, NEW w \in Workers
  PROVE  (CHOOSE v \in Workers : TRUE) = w
BY DEF Serialised

\* The table of Links.
Table == [v \in Names |-> LinkOf(conf, v)]

\* A step of the system is this, as long as nothing has been cut short.
LinkStep(j, k) ==
  \/ UNCHANGED Table /\ k = j
  \/ j.kind = "none" /\ k.kind \in {"bind", "link", "unbind"} /\ UNCHANGED Table
  \/ /\ j.kind \in {"bind", "link"} /\ k = j
     /\ \E old \in IF j.kind = "link" THEN Names ELSE {j.user} :
          \A v \in Names : Table'[v] \in
            {Table[v]} \cup (IF v = j.user THEN {j.endpoint} ELSE {})
              \cup (IF v = old /\ v # j.user THEN {None} ELSE {})
  \/ /\ j.kind = "unbind" /\ k = j
     /\ \A v \in Names : Table'[v] \in
          {Table[v]} \cup (IF v = j.user \/ Table[v] = j.endpoint
                           THEN {None} ELSE {})
  \/ /\ k.kind = "none" /\ UNCHANGED Table
     /\ j.kind \in {"bind", "link", "unbind"}
     /\ j.kind \in {"bind", "link"} => Table[j.user] = j.endpoint
     /\ j.kind = "unbind" =>
          /\ Table[j.user] = None
          /\ j.tagged => \A v \in Names : Table[v] # j.endpoint

LEMMA StartLinks ==
  ASSUME Serialised, TransitInv, Unbroken, NEW w \in Workers, Start(w)
  PROVE  Unbroken' /\ LinkStep(job[w], job'[w])
<1>1. PICK j \in Started : Take(w, j) /\ UNCHANGED <<conf, copy, crashes>>
  BY DEF Start, StartBind, StartLink, StartUnbind, Started
<1>2. /\ pc[w] = "idle" /\ pc'[w] = "load" /\ job'[w] = j /\ job[w] = NoJob
  BY <1>1 DEF Take, Goto, TransitInv, TypeOK, JobsInv
<1>3. Unbroken'
  BY <1>1, <1>2 DEF Unbroken, Serialised, Housed, HasUser
<1>4. UNCHANGED Table
  BY <1>1 DEF Table
<1>5. j.kind \in {"bind", "link", "unbind"} /\ NoJob.kind = "none"
  BY NoJobType DEF Started
<1>6. QED
  BY <1>2, <1>3, <1>4, <1>5 DEF LinkStep

LEMMA LoadLinks ==
  ASSUME Serialised, TransitInv, UsersAreDistinct, Unbroken, NEW w \in Workers,
         BindLoad(w) \/ UnbindLoad(w)
  PROVE  Unbroken' /\ LinkStep(job[w], job'[w])
<1>1. /\ conf \in Config /\ job[w] \in Started /\ Distinct(conf) /\ OneRule(conf)
      /\ copy \in [Workers -> Config] /\ pc \in [Workers -> Labels]
      /\ pc[w] = "load"
  BY DEF TransitInv, TypeOK, JobsInv, RulesInv, UsersAreDistinct, BindLoad,
         UnbindLoad
<1>2. UNCHANGED <<conf, job, crashes>>
  BY DEF BindLoad, UnbindLoad
<1>3. crashes = 0 => Housed(conf)
  BY <1>1 DEF Unbroken
<1>4. \E d, files : Change(w, d, files) /\ (crashes = 0 => Writes(job[w], conf, d))
  <2>1. CASE BindLoad(w)
    <3>1. /\ job[w].kind \in {"bind", "link"}
          /\ \E i \in Ids :
               /\ job[w].kind = "bind" => i \notin {x.id : x \in conf.users}
               /\ Change(w, Bound(conf, job[w].user, job[w].endpoint, i),
                         DOMAIN Layout)
      BY <2>1 DEF BindLoad
    <3>2. PICK i \in Ids :
               /\ job[w].kind = "bind" => i \notin {x.id : x \in conf.users}
               /\ Change(w, Bound(conf, job[w].user, job[w].endpoint, i),
                         DOMAIN Layout)
      BY <3>1
    <3>3. crashes = 0 =>
            Writes(job[w], conf, Bound(conf, job[w].user, job[w].endpoint, i))
      BY <1>1, <1>3, <3>1, <3>2, BoundWrites
    <3>4. QED
      BY <3>2, <3>3
  <2>2. CASE UnbindLoad(w)
    <3>1. PICK e : e = IF job[w].tagged \/ job[w].endpoint \in stored
                       THEN job[w].endpoint ELSE None
      OBVIOUS
    <3>2. PICK d : d = Unbound(conf, job[w].user, e)
      OBVIOUS
    <3>3. job[w].kind = "unbind" /\ Change(w, d, Modified(conf, d))
      BY <2>2, <3>1, <3>2 DEF UnbindLoad
    <3>4. e \in {job[w].endpoint, None} /\ (job[w].tagged => e = job[w].endpoint)
      BY <3>1
    <3>5. crashes = 0 => Writes(job[w], conf, d)
      BY <1>1, <1>3, <3>2, <3>3, <3>4, UnboundWrites
    <3>6. QED
      BY <3>3, <3>5
  <2>3. QED
    BY <2>1, <2>2
<1>5. PICK d, files : Change(w, d, files) /\ (crashes = 0 => Writes(job[w], conf, d))
  BY <1>4
<1>6. copy'[w] = d /\ pc'[w] = "save"
  BY <1>1, <1>5 DEF Change, Goto
<1>7. Unbroken'
  BY <1>2, <1>5, <1>6 DEF Unbroken, Serialised
<1>8. LinkStep(job[w], job'[w])
  BY <1>2 DEF LinkStep, Table
<1>9. QED
  BY <1>7, <1>8

LEMMA SaveLinks ==
  ASSUME Serialised, TransitInv, TransitInv', Unbroken, crashes = 0, NEW w \in Workers, NEW k \in DOMAIN Layout, Save(w, k)
  PROVE  Unbroken' /\ LinkStep(job[w], job'[w])
<1>1. /\ conf \in Config /\ conf' \in Config /\ copy[w] \in Config
      /\ OneRule(conf) /\ OneRule(conf') /\ OneRule(copy[w])
      /\ job[w] \in Started /\ pc[w] = "save" /\ UNCHANGED <<pc, job, copy, crashes>>
  BY DEF TransitInv, TypeOK, JobsInv, RulesInv, OneRule, Save
<1>2. Writes(job[w], conf, copy[w])
  BY <1>1 DEF Unbroken
<1>3. /\ conf'.users \in {conf.users, copy[w].users}
      /\ conf'.rules \in {conf.rules, copy[w].rules}
  BY SaveSections
<1> DEFINE j == job[w]
<1>4. /\ Writes(j, conf', copy[w])
      /\ j.kind \in {"bind", "link"} =>
           \E old \in IF j.kind = "link" THEN Names ELSE {j.user} :
             \A v \in Names : LinkOf(conf', v) \in
               {LinkOf(conf, v)} \cup (IF v = j.user THEN {j.endpoint} ELSE {})
                 \cup (IF v = old /\ v # j.user THEN {None} ELSE {})
      /\ j.kind = "unbind" =>
           \A v \in Names : LinkOf(conf', v) \in
             {LinkOf(conf, v)} \cup (IF v = j.user \/ LinkOf(conf, v) = j.endpoint
                                     THEN {None} ELSE {})
  BY <1>1, <1>2, <1>3, StepWrites
<1>5. \A v \in Names : Table[v] = LinkOf(conf, v) /\ Table'[v] = LinkOf(conf', v)
  BY DEF Table
<1>6. j.kind \in {"bind", "link", "unbind"} /\ job'[w] = j
  BY <1>1 DEF Started
<1>7. LinkStep(j, j)
  BY <1>4, <1>5, <1>6 DEF LinkStep
<1>8. Unbroken'
  <2>1. Writes(job[w], conf, copy[w])'
    BY <1>1, <1>4
  <2>2. QED
    BY <1>1, <2>1 DEF Unbroken, Serialised
<1>9. QED
  BY <1>6, <1>7, <1>8

\* When a job ends the table is as it wants it.
LEMMA ReleaseLinks ==
  ASSUME Serialised, TransitInv, HalfDone, Unbroken, crashes = 0,
         NEW w \in Workers, Release(w), UNCHANGED <<conf, crashes>>,
         \/ pc[w] = "save" /\ dirty[w] = {}
         \/ pc[w] \in {"forget", "check", "reload"}
  PROVE  Unbroken' /\ LinkStep(job[w], job'[w])
<1> DEFINE j == job[w]
<1>1. /\ conf \in Config /\ OneRule(conf) /\ pc'[w] = "idle" /\ job'[w] = NoJob
      /\ j \in Started /\ j.kind \in {"bind", "link", "unbind"}
      /\ j.user \in Names /\ j.endpoint \in Endpoints
  BY DEF TransitInv, TypeOK, JobsInv, RulesInv, Release, Goto, Started
<1>2. conf.users = copy[w].users /\ conf.rules = copy[w].rules
  BY WrittenLeaves
<1>3. Writes(j, conf, copy[w])
  BY DEF Unbroken
<1>4. \A v : HasUser(conf, v) <=> HasUser(copy[w], v)
  BY <1>2 DEF HasUser
<1>5. Housed(conf)
  BY <1>2, <1>3, <1>4 DEF Writes, Housed
<1>6. Unbroken'
  BY <1>1, <1>5 DEF Unbroken, Serialised, Housed, HasUser
<1>7. j.kind \in {"bind", "link"} => LinkOf(conf, j.user) = j.endpoint
  BY <1>1, <1>2, <1>3, <1>4, LinkOfRule DEF Writes, BindWrites
<1>8. j.kind = "unbind" => LinkOf(conf, j.user) = None
  BY <1>1, <1>2, <1>3, LinkOfRule DEF Writes, UnbindWrites, RuleOf
<1>9. ASSUME j.kind = "unbind", j.tagged, NEW v \in Names
      PROVE  LinkOf(conf, v) # j.endpoint
  <2>1. \A r \in Range(conf.rules) : r.out # j.endpoint
    BY <1>2, <1>3, <1>9 DEF Writes, UnbindWrites
  <2>2. LinkOf(conf, v) = None \/ \E r \in Range(conf.rules) : LinkOf(conf, v) = r.out
    BY <1>1, LinkOfRule DEF RuleOf
  <2>3. QED
    BY <1>1, <2>1, <2>2, TransitConfigAssumption
<1>10. UNCHANGED Table /\ \A v \in Names : Table[v] = LinkOf(conf, v)
  BY DEF Table
<1>11. LinkStep(j, NoJob)
  BY <1>1, <1>7, <1>8, <1>9, <1>10, NoJobType DEF LinkStep
<1>12. QED
  BY <1>1, <1>6, <1>11

LEMMA GotoLinks ==
  ASSUME Serialised, TransitInv, Unbroken, NEW w \in Workers,
         NEW l \in {"forget", "check", "reload"}, Goto(w, l),
         pc[w] \in {"save", "check"}, UNCHANGED <<conf, job, copy, crashes>>
  PROVE  Unbroken' /\ LinkStep(job[w], job'[w])
<1>1. pc'[w] = l
  BY DEF Goto, TransitInv, TypeOK
<1>2. Unbroken'
  BY <1>1 DEF Unbroken, Serialised
<1>3. QED
  BY <1>2 DEF LinkStep, Table

LEMMA NextLinks ==
  ASSUME Serialised, TransitInv, TransitInv', UsersAreDistinct,
         HalfDone, Unbroken, [Next]_vars
  PROVE  /\ Unbroken'
         /\ \/ crashes' > 0
            \/ crashes = 0 /\ crashes' = 0
               /\ \A w \in Workers : LinkStep(job[w], job'[w])
<1>1. crashes \in Nat
  BY DEF TransitInv, TypeOK
<1>2. CASE crashes = 0 /\ UNCHANGED crashes
  <2>1. ASSUME NEW w \in Workers, Proceed(w)
        PROVE  Unbroken' /\ LinkStep(job[w], job'[w])
    <3>1. CASE BindLoad(w) \/ UnbindLoad(w)
      BY <3>1, LoadLinks
    <3>2. CASE \E k \in DOMAIN Layout : Save(w, k)
      BY <1>2, <3>2, SaveLinks
    <3>3. CASE Saved(w)
      <4>1. pc[w] = "save" /\ dirty[w] = {} /\ UNCHANGED <<conf, crashes>>
        BY <3>3 DEF Saved
      <4>2. \/ Release(w)
            \/ \E l \in {"forget", "check", "reload"} :
                 Goto(w, l) /\ UNCHANGED <<job, copy>>
        BY <3>3 DEF Saved
      <4>3. QED
        BY <1>2, <4>1, <4>2, ReleaseLinks, GotoLinks
    <3>4. CASE Forget(w)
      BY <1>2, <3>4, ReleaseLinks DEF Forget
    <3>5. CASE Check(w)
      <4>1. pc[w] = "check" /\ UNCHANGED <<conf, crashes>>
        BY <3>5 DEF Check
      <4>2. \/ Release(w)
            \/ \E l \in {"forget", "check", "reload"} :
                 Goto(w, l) /\ UNCHANGED <<job, copy>>
        BY <3>5 DEF Check
      <4>3. QED
        BY <1>2, <4>1, <4>2, ReleaseLinks, GotoLinks
    <3>6. CASE Reload(w)
      BY <1>2, <3>6, ReleaseLinks DEF Reload
    <3>7. QED
      BY <2>1, <3>1, <3>2, <3>3, <3>4, <3>5, <3>6 DEF Proceed
  <2>2. CASE UNCHANGED vars
    <3>1. UNCHANGED <<conf, job, pc, copy>>
      BY <2>2 DEF vars
    <3>2. Unbroken'
      BY <1>2, <3>1 DEF Unbroken
    <3>3. UNCHANGED Table
      BY <3>1 DEF Table
    <3>4. \A w \in Workers : LinkStep(job[w], job'[w])
      BY <3>1, <3>3 DEF LinkStep
    <3>5. QED
      BY <1>2, <3>2, <3>4
  <2>3. ASSUME NEW w \in Workers, Crash(w)
        PROVE  FALSE
    BY <1>1, <1>2, <2>3 DEF Crash
  <2>4. ASSUME NEW w \in Workers, Start(w)
        PROVE  Unbroken' /\ LinkStep(job[w], job'[w])
    BY <2>4, StartLinks
  <2>5. ASSUME NEW w \in Workers, Unbroken' /\ LinkStep(job[w], job'[w])
        PROVE  Unbroken' /\ \A v \in Workers : LinkStep(job[v], job'[v])
    <3>1. \A v \in Workers : v = w
      BY DEF Serialised
    <3>2. QED
      BY <2>5, <3>1
  <2>6. Unbroken' /\ \A v \in Workers : LinkStep(job[v], job'[v])
    BY <1>2, <2>1, <2>2, <2>3, <2>4, <2>5 DEF Next
  <2>7. QED
    BY <1>2, <2>6
<1>3. CASE ~(crashes = 0 /\ UNCHANGED crashes)
  <2>1. ASSUME NEW w \in Workers, Start(w)
        PROVE  UNCHANGED crashes
    BY <2>1 DEF Start, StartBind, StartLink, StartUnbind
  <2>2. ASSUME NEW w \in Workers, Proceed(w)
        PROVE  UNCHANGED crashes
    BY <2>2 DEF Proceed, BindLoad, UnbindLoad, Save, Saved, Forget, Check, Reload
  <2>3. UNCHANGED crashes \/ crashes' = crashes + 1
    BY <2>1, <2>2 DEF Next, Crash, vars
  <2>4. crashes' > 0
    BY <1>1, <1>3, <2>3
  <2>5. Unbroken'
    BY <2>4 DEF Unbroken
  <2>6. QED
    BY <2>4, <2>5
<1>4. QED
  BY <1>2, <1>3

\* With one process, and the sections in whatever files, binding and unbinding
\* implement LinkTable as long as no operation has been cut short: while one
\* is carried out, file by file, only the links it is about change, and when it
\* ends they are as it was to make them.
THEOREM LinksImplementTable ==
  ASSUME Serialised, Workers # {}
  PROVE  Spec => LinksSpec
<1>1. PICK w \in Workers : (CHOOSE v \in Workers : TRUE) = w
  BY OnlyWorker
<1> DEFINE T == [u \in Names |-> IF HasUser(conf, u) THEN Routed(conf, u) ELSE None]
           t == job[CHOOSE v \in Workers : TRUE]
<1>2. Table = T /\ Table' = T' /\ t = job[w] /\ t' = job'[w]
  BY <1>1 DEF Table, LinkOf
<1>3. Init => Unbroken /\ Links!Init
  <2> SUFFICES ASSUME Init
               PROVE  Unbroken /\ Links!Init
    OBVIOUS
  <2>1. conf = Empty /\ job[w] = NoJob /\ crashes = 0
    BY DEF Init
  <2>2. \A u : ~HasUser(conf, u)
    BY <2>1, EmptyConfig DEF HasUser
  <2>3. Housed(conf) /\ \A v \in Workers : pc[v] = "idle"
    BY <2>1, EmptyConfig DEF Housed, Init
  <2>4. Unbroken
    BY <2>3 DEF Unbroken
  <2>5. T = [u \in Names |-> None]
    BY <2>2, Zenon
  <2>6. t.kind = "none" /\ (crashes > 0) = FALSE
    BY <1>2, <2>1, NoJobType
  <2>7. Links!Init
    BY <2>5, <2>6 DEF Links!Init
  <2>8. QED
    BY <2>4, <2>7
<1>4. TransitInv /\ TransitInv' /\ UsersAreDistinct /\ HalfDone /\ Unbroken
        /\ [Next]_vars => Unbroken' /\ [Links!Next]_(Links!vars)
  <2> SUFFICES ASSUME TransitInv, TransitInv', UsersAreDistinct, HalfDone,
                      Unbroken, [Next]_vars
               PROVE  Unbroken' /\ [Links!Next]_(Links!vars)
    OBVIOUS
  <2>1. Unbroken' /\ (crashes' > 0 \/ (crashes = 0 /\ crashes' = 0
                                       /\ LinkStep(job[w], job'[w])))
    BY NextLinks
  <2>2. CASE crashes' > 0
    BY <2>1, <2>2 DEF Links!Next, Links!Break
  <2>3. CASE crashes = 0 /\ crashes' = 0 /\ LinkStep(job[w], job'[w])
    <3>1. T' \in [Names -> Endpoints \cup {None}]
      <4>1. conf' \in Config /\ OneRule(conf')
        BY DEF TransitInv, TypeOK, RulesInv, OneRule
      <4>2. \A v \in Names : LinkOf(conf', v) \in Endpoints \cup {None}
        BY <4>1, LinkOfRule
      <4>3. QED
        BY <1>2, <4>2 DEF Table
    <3>2. LinkStep(t, t')
      BY <1>2, <2>3
    <3> HIDE DEF T, t
    <3>3. \/ UNCHANGED <<T, t>>
          \/ Links!Ask \/ Links!Bind \/ Links!Unbind \/ Links!Done
      <4>1. CASE UNCHANGED Table /\ t' = t
        BY <1>2, <4>1
      <4>2. CASE /\ t.kind = "none" /\ t'.kind \in {"bind", "link", "unbind"}
                 /\ UNCHANGED Table
        BY <1>2, <4>2 DEF Links!Ask, Links!Kinds, T, t
      <4>3. CASE /\ t.kind \in {"bind", "link"} /\ t' = t
                 /\ \E old \in IF t.kind = "link" THEN Names ELSE {t.user} :
                      \A v \in Names : T'[v] \in
                        {T[v]} \cup (IF v = t.user THEN {t.endpoint} ELSE {})
                          \cup (IF v = old /\ v # t.user THEN {None} ELSE {})
        BY <4>3 DEF Links!Bind, T, t
      <4>4. CASE /\ t.kind = "unbind" /\ t' = t
                 /\ \A v \in Names : T'[v] \in
                      {T[v]} \cup (IF v = t.user \/ T[v] = t.endpoint
                                   THEN {None} ELSE {})
        BY <4>4 DEF Links!Unbind, T, t
      <4>5. CASE /\ t'.kind = "none" /\ UNCHANGED T
                 /\ t.kind \in {"bind", "link", "unbind"}
                 /\ t.kind \in {"bind", "link"} => T[t.user] = t.endpoint
                 /\ t.kind = "unbind" =>
                      /\ T[t.user] = None
                      /\ t.tagged => \A v \in Names : T[v] # t.endpoint
        BY <4>5 DEF Links!Done, T, t
      <4>6. QED
        BY <1>2, <3>2, <4>1, <4>2, <4>3, <4>4, <4>5 DEF LinkStep
    <3>4. QED
      BY <2>1, <2>3, <3>1, <3>3 DEF Links!Next, Links!Step, Links!vars, T, t
  <2>4. QED
    BY <2>1, <2>2, <2>3
<1>5. QED
  BY <1>3, <1>4, TransitAlways, UsersStayDistinct, HalfDoneAlways, PTL
  DEF Spec, LinksSpec, Links!Spec
===============================================================================
