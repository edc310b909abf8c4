----------------------------- MODULE VaadinProofs ----------------------------
(* Theorems about Vaadin for all finite sets of http services and factories, and *)
(* any aliases: the registry, its shadow and the disposal of instances.          *)
EXTENDS Vaadin, FiniteSetTheorems, TLAPS

\* What the services are: their registrations are distinct objects, and finitely many.
Registrations ==
    /\ IsFiniteSet(Http) /\ IsFiniteSet(Factory) /\ Http \cap Factory = {}
    /\ Null \notin Http \X Factory

------------------------------------------------------------------------------
(* The inductive invariant.                                                   *)

\* Of what was there, apps forgets nothing, and https and the http services what is gone.
Services ==
    /\ service \in [Http \cup Factory -> {"away", "here", "gone"}]
    /\ apps = {f \in Factory : service[f] # "away"}
    /\ DOMAIN https \subseteq {h \in Http : service[h] = "here"}
    /\ DOMAIN registered = Http
    /\ \A h \in Http : h \notin DOMAIN https => registered[h] = Nothing

\* Under an alias stands a servlet that was made for a factory of this alias.
Placed(h, map) ==
    \A a \in DOMAIN map : \E f \in apps : AliasOf[f] = a /\ map[a] = <<h, f>> /\ <<h, f>> \in DOMAIN servlets
\* A map has what is registered, but for servlets over it that could not be.
Follows(h, map) ==
    /\ DOMAIN registered[h] \subseteq DOMAIN map
    /\ \A a \in DOMAIN map :
          servlets[map[a]].reached => a \in DOMAIN registered[h] /\ registered[h][a] = map[a]
Entries ==
    /\ \A h \in Http : Placed(h, registered[h])
    /\ \A h \in DOMAIN https : Placed(h, https[h]) /\ Follows(h, https[h])

\* A servlet is made when both its services are there.
Made ==
    \A s \in DOMAIN servlets :
        \E h \in Http, f \in Factory : s = <<h, f>> /\ service[h] # "away" /\ service[f] # "away"

\* Servlets that are being closed were made, and are no longer open.
Closings ==
    \A c \in closers :
        c.todo \subseteq DOMAIN servlets /\ (c.at # Null => c.at \in DOMAIN servlets /\ ~ servlets[c.at].open)

\* Nothing is disposed before the close, which comes by every instance that was put before it.
Accounted(r) ==
    /\ r \in [open : BOOLEAN, reached : BOOLEAN, asking : Nat, made : Nat, instances : SUBSET Nat,
              early : SUBSET Nat, left : SUBSET Nat, disposed : Seq(Nat), ended : BOOLEAN]
    /\ Len(r.disposed) = r.made
    /\ r.instances \subseteq 1 .. r.made /\ r.early \subseteq 1 .. r.made /\ r.left \subseteq 1 .. r.made
    /\ \A n \in 1 .. r.made : r.disposed[n] <= 1
    /\ \A n \in r.left : r.disposed[n] = 0
    /\ r.open => r.early \subseteq r.instances /\ ~ r.ended /\ \A n \in 1 .. r.made : r.disposed[n] = 0
    /\ ~ r.open => \A n \in r.early : n \in r.left \/ r.disposed[n] = 1
    /\ r.ended => \A n \in r.early : r.disposed[n] = 1
Instances == \A s \in DOMAIN servlets : Accounted(servlets[s])

VaadinInv == Services /\ Entries /\ Made /\ Closings /\ OpenWhileServed /\ Instances /\ Served

------------------------------------------------------------------------------
(* Register.                                                                  *)

\* An order of a finite set is one of its elements, each in one place.
LEMMA Ordered ==
    ASSUME NEW S, IsFiniteSet(S), NEW order \in Orders(S)
    PROVE  /\ \E n \in Nat : DOMAIN order = 1 .. n
           /\ \A i \in DOMAIN order : order[i] \in S
           /\ \A i, j \in DOMAIN order : i # j => order[i] # order[j]
           /\ \A x \in S : \E i \in DOMAIN order : order[i] = x
<1>1. Cardinality(S) \in Nat
  BY FS_CardinalityType
<1>2. /\ order \in [1 .. Cardinality(S) -> S]
      /\ \A i, j \in 1 .. Cardinality(S) : i # j => order[i] # order[j]
  BY DEF Orders, SetToSeqs
<1>3. order \in Injection(1 .. Cardinality(S), S)
  BY <1>2 DEF Injection, IsInjective
<1>4. IsFiniteSet(1 .. Cardinality(S)) /\ Cardinality(1 .. Cardinality(S)) = Cardinality(S)
  BY <1>1, FS_Interval
<1>5. order \in Surjection(1 .. Cardinality(S), S)
  BY <1>3, <1>4, FS_Injection
<1>6. \A x \in S : \E i \in 1 .. Cardinality(S) : order[i] = x
  BY <1>5 DEF Surjection
<1>q. QED BY <1>1, <1>2, <1>6

\* What register leaves in the three maps, however far it comes.
Entered(pairs, old, new) ==
    \A h \in DOMAIN old : \A a \in DOMAIN new[h] :
        \/ a \in DOMAIN old[h] /\ new[h][a] = old[h][a]
        \/ \E i \in DOMAIN pairs : /\ pairs[i][1] = h /\ AliasOf[pairs[i][2]] = a /\ new[h][a] = pairs[i]
                                   /\ pairs[i] \in DOMAIN servlets'
Registered(pairs, maps) ==
    /\ DOMAIN https' = DOMAIN maps /\ DOMAIN registered' = Http
    /\ \A h \in Http \ DOMAIN maps : registered[h] = Nothing => registered'[h] = Nothing
    /\ \A h \in Http : \A a \in DOMAIN registered[h] :
          a \in DOMAIN registered'[h] /\ registered'[h][a] = registered[h][a]
    /\ Entered(pairs, maps, https') /\ Entered(pairs, registered, registered')
    /\ \A h \in DOMAIN maps : Follows(h, https[h])'
    /\ DOMAIN servlets \subseteq DOMAIN servlets'
    /\ \A s \in DOMAIN servlets : servlets'[s] = servlets[s]
    /\ \A s \in DOMAIN servlets' \ DOMAIN servlets :
          /\ \E i \in DOMAIN pairs : s = pairs[i]
          /\ \E b \in BOOLEAN : servlets'[s] = [NewServlet EXCEPT !.reached = b]
    /\ \/ \A i \in DOMAIN pairs : LET h == pairs[i][1]
                                      a == AliasOf[pairs[i][2]]
                                  IN a \in DOMAIN registered'[h] /\ registered'[h][a] = pairs[i]
       \/ \E i \in DOMAIN pairs : pairs[i] \in DOMAIN servlets' /\ ~ servlets'[pairs[i]].reached

\* The first n pairs are registered under aliases of their own; the next is put, and not reached.
LEMMA RegisterEnters ==
    ASSUME NEW m \in Nat, NEW n \in 0 .. m, NEW pairs, DOMAIN pairs = 1 .. m, NEW maps, DOMAIN maps \subseteq Http,
           \A i \in 1 .. m : pairs[i][1] \in DOMAIN maps /\ pairs[i] \notin DOMAIN servlets,
           \A i, j \in 1 .. m : i # j => pairs[i] # pairs[j],
           DOMAIN registered = Http,
           \A h \in DOMAIN maps : Follows(h, maps[h]) /\ \A a \in DOMAIN maps[h] : maps[h][a] \in DOMAIN servlets,
           Register(pairs, n, maps)
    PROVE  Registered(pairs, maps)
<1> DEFINE
        alias(i) == AliasOf[pairs[i][2]]
        tried == {i \in DOMAIN pairs : i <= n + 1}
        done == {i \in DOMAIN pairs : i <= n}
        In(h, I) == {i \in I : pairs[i][1] = h}
        Named(h, a, I) == {i \in In(h, I) : alias(i) = a}
        Over(map, h, I) == [a \in DOMAIN map \cup {alias(i) : i \in In(h, I)} |->
                               IF Named(h, a, I) = {} THEN map[a]
                               ELSE pairs[CHOOSE i \in Named(h, a, I) : \A j \in Named(h, a, I) : j <= i]]
<1>1. /\ \A i \in done : /\ alias(i) \notin DOMAIN registered[pairs[i][1]]
                         /\ \A j \in 1 .. i - 1 : pairs[j][1] = pairs[i][1] => alias(j) # alias(i)
      /\ https' = [h \in DOMAIN maps |-> Over(maps[h], h, tried)]
      /\ registered' = [h \in Http |-> Over(registered[h], h, done)]
      /\ servlets' = [s \in DOMAIN servlets \cup {pairs[i] : i \in tried} |->
                         IF s \in DOMAIN servlets THEN servlets[s]
                         ELSE [NewServlet EXCEPT !.reached = \E i \in done : pairs[i] = s]]
  BY DEF Register
<1>2. done = 1 .. n /\ done \subseteq tried /\ tried \subseteq 1 .. m /\ \A i \in tried : i \in done \/ i = n + 1
  OBVIOUS
\* Those that are done have aliases of their own.
<1>d. \A i, j \in done : pairs[i][1] = pairs[j][1] /\ alias(i) = alias(j) => i = j
  <2> SUFFICES ASSUME NEW i \in done, NEW j \in done, pairs[i][1] = pairs[j][1], alias(i) = alias(j) PROVE i = j
    OBVIOUS
  <2>1. ~ (i \in 1 .. j - 1) /\ ~ (j \in 1 .. i - 1)
    BY <1>1
  <2>q. QED BY <1>2, <2>1
<1>3. \A h, a, I : I \in {tried, done} /\ Named(h, a, I) # {} =>
          \E i \in Named(h, a, I) : \A j \in Named(h, a, I) : j <= i
  <2> TAKE h, a, I
  <2> HAVE I \in {tried, done} /\ Named(h, a, I) # {}
  <2>1. CASE n + 1 \in Named(h, a, I)
    BY <1>2, <2>1
  <2>2. CASE n + 1 \notin Named(h, a, I)
    <3>1. PICK i \in Named(h, a, I) : TRUE
      OBVIOUS
    <3>2. \A j \in Named(h, a, I) : j \in done /\ pairs[j][1] = h /\ alias(j) = a
      BY <1>2, <2>2
    <3>3. \A j \in Named(h, a, I) : j = i
      BY ONLY <1>d, <3>1, <3>2
    <3>q. QED BY <1>2, <3>1, <3>2, <3>3
  <2>q. QED BY <2>1, <2>2
\* What stands in a map after the pairs of I were put.
<1>4. ASSUME NEW map, NEW h, NEW I, I \in {tried, done}, NEW new, new = Over(map, h, I)
      PROVE  /\ \A a : a \in DOMAIN new <=> a \in DOMAIN map \/ \E i \in I : pairs[i][1] = h /\ alias(i) = a
             /\ \A a \in DOMAIN new :
                    \/ /\ a \in DOMAIN map /\ new[a] = map[a]
                       /\ \A i \in I : ~ (pairs[i][1] = h /\ alias(i) = a)
                    \/ \E i \in I : pairs[i][1] = h /\ alias(i) = a /\ new[a] = pairs[i]
  <2>1. \A a : a \in DOMAIN new <=> a \in DOMAIN map \/ \E i \in I : pairs[i][1] = h /\ alias(i) = a
    BY <1>4
  <2>2. ASSUME NEW a \in DOMAIN new
        PROVE  \/ /\ a \in DOMAIN map /\ new[a] = map[a]
                  /\ \A i \in I : ~ (pairs[i][1] = h /\ alias(i) = a)
               \/ \E i \in I : pairs[i][1] = h /\ alias(i) = a /\ new[a] = pairs[i]
    <3>1. CASE Named(h, a, I) = {}
      BY <1>4, <2>1, <3>1
    <3>2. CASE Named(h, a, I) # {}
      <4>1. PICK k : k = CHOOSE i \in Named(h, a, I) : \A j \in Named(h, a, I) : j <= i
        OBVIOUS
      <4>2. \E i \in Named(h, a, I) : \A j \in Named(h, a, I) : j <= i
        BY <1>3, <1>4, <3>2, ZenonT(40)
      <4>3. k \in Named(h, a, I)
        BY ONLY <4>1, <4>2
      <4>4. new[a] = pairs[k]
        BY <1>4, <3>2, <4>1
      <4>q. QED BY <4>3, <4>4
    <3>q. QED BY <3>1, <3>2
  <2>q. QED BY <2>1, <2>2
<1>5. /\ DOMAIN https' = DOMAIN maps /\ DOMAIN registered' = Http
      /\ DOMAIN servlets' = DOMAIN servlets \cup {pairs[i] : i \in tried}
      /\ \A s \in DOMAIN servlets : servlets'[s] = servlets[s]
      /\ \A s \in DOMAIN servlets' \ DOMAIN servlets :
            /\ \E i \in DOMAIN pairs : s = pairs[i]
            /\ servlets'[s] = [NewServlet EXCEPT !.reached = \E i \in done : pairs[i] = s]
  BY <1>1
<1>6. \A i \in tried : servlets'[pairs[i]].reached <=> i \in done
  <2> SUFFICES ASSUME NEW i \in tried PROVE servlets'[pairs[i]].reached <=> i \in done
    OBVIOUS
  <2>1. pairs[i] \in DOMAIN servlets' \ DOMAIN servlets
    BY <1>2, <1>5
  <2>2. servlets'[pairs[i]].reached <=> \E j \in done : pairs[j] = pairs[i]
    <3>1. PICK s : s = pairs[i]
      OBVIOUS
    <3>2. PICK b \in BOOLEAN : b = \E j \in done : pairs[j] = s
      OBVIOUS
    <3>3. servlets'[s] = [NewServlet EXCEPT !.reached = b]
      BY ONLY <1>5, <2>1, <3>1, <3>2
    <3>4. servlets'[s].reached = b
      BY ONLY <3>3 DEF NewServlet
    <3>q. QED BY ONLY <3>1, <3>2, <3>4
  <2>3. (\E j \in done : pairs[j] = pairs[i]) <=> i \in done
    BY <1>2
  <2>q. QED BY <2>2, <2>3
<1>7. ASSUME NEW h \in DOMAIN maps
      PROVE  /\ \A a : a \in DOMAIN https'[h] <=> a \in DOMAIN maps[h] \/ \E i \in tried : pairs[i][1] = h /\ alias(i) = a
             /\ \A a \in DOMAIN https'[h] :
                    \/ a \in DOMAIN maps[h] /\ https'[h][a] = maps[h][a]
                    \/ \E i \in tried : pairs[i][1] = h /\ alias(i) = a /\ https'[h][a] = pairs[i]
  <2>1. https'[h] = Over(maps[h], h, tried)
    BY <1>1
  <2> HIDE DEF tried, done, Over
  <2>q. QED BY <1>4, <2>1
<1>8. ASSUME NEW h \in Http
      PROVE  /\ \A a : a \in DOMAIN registered'[h]
                           <=> a \in DOMAIN registered[h] \/ \E i \in done : pairs[i][1] = h /\ alias(i) = a
             /\ \A a \in DOMAIN registered'[h] :
                    \/ /\ a \in DOMAIN registered[h] /\ registered'[h][a] = registered[h][a]
                       /\ \A i \in done : ~ (pairs[i][1] = h /\ alias(i) = a)
                    \/ \E i \in done : pairs[i][1] = h /\ alias(i) = a /\ registered'[h][a] = pairs[i]
  <2>1. registered'[h] = Over(registered[h], h, done)
    BY <1>1
  <2> HIDE DEF tried, done, Over
  <2>q. QED BY <1>4, <2>1
<1>t. \A i \in tried : pairs[i][1] \in Http /\ pairs[i][1] \in DOMAIN maps /\ pairs[i] \in DOMAIN servlets'
  BY <1>2, <1>5
<1>u. \A i \in done : i \in tried /\ alias(i) \notin DOMAIN registered[pairs[i][1]]
  BY <1>1, <1>2
<1>m. DOMAIN pairs = 1 .. m /\ tried \subseteq DOMAIN pairs
  BY <1>2
<1> HIDE DEF tried, done, Over, Named, In
\* What was registered stays, and what is done comes.
<1>9. ASSUME NEW h \in Http, NEW a \in DOMAIN registered[h]
      PROVE  a \in DOMAIN registered'[h] /\ registered'[h][a] = registered[h][a]
  <2>1. a \in DOMAIN registered'[h]
    BY <1>8
  <2>2. \A i \in done : ~ (pairs[i][1] = h /\ alias(i) = a)
    BY <1>u
  <2>q. QED BY <1>8, <2>1, <2>2
<1>10. ASSUME NEW i \in done
       PROVE  alias(i) \in DOMAIN registered'[pairs[i][1]] /\ registered'[pairs[i][1]][alias(i)] = pairs[i]
  <2>1. PICK h, a : h = pairs[i][1] /\ a = alias(i)
    OBVIOUS
  <2>2. h \in Http /\ a \in DOMAIN registered'[h]
    BY <1>8, <1>t, <1>u, <2>1
  <2>3. PICK k \in done : pairs[k][1] = h /\ alias(k) = a /\ registered'[h][a] = pairs[k]
    BY <1>8, <1>10, <2>1, <2>2
  <2>4. k = i
    BY ONLY <1>d, <1>10, <2>1, <2>3
  <2>q. QED BY ONLY <2>1, <2>2, <2>3, <2>4
<1>11. Entered(pairs, maps, https')
  BY <1>m, <1>t, <1>7 DEF Entered
<1>12. Entered(pairs, registered, registered')
  BY <1>m, <1>t, <1>u, <1>8 DEF Entered
<1>13. ASSUME NEW h \in Http \ DOMAIN maps, registered[h] = Nothing PROVE registered'[h] = Nothing
  <2>1. registered'[h] = Over(registered[h], h, done)
    BY <1>1
  <2>2. In(h, done) = {} /\ DOMAIN registered[h] = {}
    BY <1>13, <1>t, <1>u DEF In, Nothing
  <2>3. \A a : a \notin DOMAIN registered[h] \cup {alias(i) : i \in In(h, done)}
    BY <2>2
  <2>4. DOMAIN registered[h] \cup {alias(i) : i \in In(h, done)} = {}
    BY <2>3
  <2>q. QED BY <2>1, <2>4 DEF Over, Nothing
<1>14. ASSUME NEW h \in DOMAIN maps PROVE Follows(h, https[h])'
  <2>0. Follows(h, maps[h]) /\ h \in Http /\ \A a \in DOMAIN maps[h] : maps[h][a] \in DOMAIN servlets
    OBVIOUS
  <2>1. ASSUME NEW a \in DOMAIN registered'[h] PROVE a \in DOMAIN https'[h]
    <3>1. CASE a \in DOMAIN registered[h]
      BY <1>7, <2>0, <3>1 DEF Follows
    <3>2. CASE \E i \in done : pairs[i][1] = h /\ alias(i) = a
      BY <1>7, <1>u, <3>2
    <3>q. QED BY <1>8, <2>0, <3>1, <3>2
  <2>2. ASSUME NEW a \in DOMAIN https'[h], servlets'[https'[h][a]].reached
        PROVE  a \in DOMAIN registered'[h] /\ registered'[h][a] = https'[h][a]
    <3>1. CASE a \in DOMAIN maps[h] /\ https'[h][a] = maps[h][a]
      <4>1. servlets[maps[h][a]].reached
        BY <1>5, <2>0, <2>2, <3>1
      <4>2. a \in DOMAIN registered[h] /\ registered[h][a] = maps[h][a]
        BY <2>0, <3>1, <4>1 DEF Follows
      <4>q. QED BY <1>9, <2>0, <3>1, <4>2
    <3>2. CASE \E i \in tried : pairs[i][1] = h /\ alias(i) = a /\ https'[h][a] = pairs[i]
      BY <1>6, <1>10, <2>2, <3>2
    <3>q. QED BY <1>7, <3>1, <3>2
  <2>q. QED BY <2>1, <2>2 DEF Follows
<1>15. \/ \A i \in DOMAIN pairs : /\ alias(i) \in DOMAIN registered'[pairs[i][1]]
                                  /\ registered'[pairs[i][1]][alias(i)] = pairs[i]
       \/ \E i \in DOMAIN pairs : pairs[i] \in DOMAIN servlets' /\ ~ servlets'[pairs[i]].reached
  <2>1. CASE n = m
    <3>1. \A i \in DOMAIN pairs : i \in done
      BY <2>1 DEF done
    <3>q. QED BY <1>10, <3>1
  <2>2. CASE n # m
    <3>1. n + 1 \in tried /\ n + 1 \notin done /\ n + 1 \in DOMAIN pairs
      BY <2>2 DEF tried, done
    <3>q. QED BY <1>6, <1>t, <3>1
  <2>q. QED BY <2>1, <2>2
<1>16. /\ DOMAIN servlets \subseteq DOMAIN servlets'
       /\ \A s \in DOMAIN servlets' \ DOMAIN servlets :
             /\ \E i \in DOMAIN pairs : s = pairs[i]
             /\ \E b \in BOOLEAN : servlets'[s] = [NewServlet EXCEPT !.reached = b]
  BY <1>5
<1>q. QED BY <1>5, <1>9, <1>11, <1>12, <1>13, <1>14, <1>15, <1>16 DEF Registered

------------------------------------------------------------------------------
(* The invariant.                                                             *)

LEMMA VaadinInvInit == Registrations /\ VaadinInit => VaadinInv
<1> SUFFICES ASSUME Registrations, VaadinInit PROVE VaadinInv
  OBVIOUS
<1>1. Services /\ Entries
  BY DEF Registrations, VaadinInit, Services, Entries, Placed, Nothing
<1>2. Made /\ Closings /\ OpenWhileServed /\ Instances /\ Served
  BY DEF VaadinInit, Made, Closings, OpenWhileServed, Instances, Served, Nothing
<1>q. QED BY <1>1, <1>2 DEF VaadinInv

\* A servlet has the name of an http service and a factory, which no closer has.
LEMMA Names ==
    ASSUME Registrations, VaadinInv
    PROVE  /\ \A s \in DOMAIN servlets : s # Null
           /\ \A h \in Http : \A a \in DOMAIN registered[h] : registered[h][a] \in DOMAIN servlets
           /\ \A h \in DOMAIN https : \A a \in DOMAIN https[h] : https[h][a] \in DOMAIN servlets
<1>1. ASSUME NEW s \in DOMAIN servlets PROVE s # Null
  <2>1. s \in Http \X Factory
    BY DEF VaadinInv, Made
  <2>q. QED BY <2>1 DEF Registrations
<1>2. ASSUME NEW h \in Http, NEW a \in DOMAIN registered[h] PROVE registered[h][a] \in DOMAIN servlets
  <2>1. Placed(h, registered[h])
    BY DEF VaadinInv, Entries
  <2>q. QED BY <2>1 DEF Placed
<1>3. ASSUME NEW h \in DOMAIN https, NEW a \in DOMAIN https[h] PROVE https[h][a] \in DOMAIN servlets
  <2>1. Placed(h, https[h])
    BY DEF VaadinInv, Entries
  <2>q. QED BY <2>1 DEF Placed
<1>q. QED BY <1>1, <1>2, <1>3

\* An excuse remains.
LEMMA StillExcused ==
    ASSUME DOMAIN servlets \subseteq DOMAIN servlets', \A s \in DOMAIN servlets : servlets'[s].reached = servlets[s].reached
    PROVE  \A h, a : Excused(h, a) => Excused(h, a)'
BY DEF Excused

\* What is served or excused stays so when services, factories and servlets do.
LEMMA StillServed ==
    ASSUME VaadinInv, DOMAIN https' \subseteq DOMAIN https, \A h \in DOMAIN https' : registered'[h] = registered[h],
           \A f \in Factory : service'[f] = "here" => service[f] = "here",
           DOMAIN servlets \subseteq DOMAIN servlets', \A s \in DOMAIN servlets : servlets'[s].reached = servlets[s].reached
    PROVE  Served'
<1> SUFFICES ASSUME NEW h \in DOMAIN https', NEW f \in Factory, service'[f] = "here"
             PROVE  \/ AliasOf[f] \in DOMAIN registered'[h] /\ registered'[h][AliasOf[f]] = <<h, f>>
                    \/ Excused(h, AliasOf[f])'
  BY DEF Served, Here
<1>1. \/ AliasOf[f] \in DOMAIN registered[h] /\ registered[h][AliasOf[f]] = <<h, f>>
      \/ Excused(h, AliasOf[f])
  BY DEF VaadinInv, Served, Here
<1>q. QED BY <1>1, StillExcused

\* A step of one servlet, and of those who close it.
LEMMA ServletSteps ==
    ASSUME Registrations, VaadinInv, NEW s \in DOMAIN servlets, UNCHANGED <<service, https, apps, registered>>,
           DOMAIN servlets' = DOMAIN servlets, \A t \in DOMAIN servlets \ {s} : servlets'[t] = servlets[t],
           Accounted(servlets'[s]), servlets'[s].reached = servlets[s].reached,
           \/ servlets'[s].open = servlets[s].open
           \/ ~ servlets'[s].open /\ \E d \in closers : s \in d.todo,
           \A c \in closers' : \E d \in closers :
               /\ c.todo \subseteq d.todo
               /\ c.at \in {Null, d.at} \/ (c.at = s /\ ~ servlets'[s].open /\ s \in d.todo)
    PROVE  VaadinInv'
<1>1. Services' /\ Made'
  BY DEF VaadinInv, Services, Made
<1>2. Entries'
  <2>1. ASSUME NEW h \in Http PROVE Placed(h, registered[h])'
    <3>1. Placed(h, registered[h])
      BY DEF VaadinInv, Entries
    <3>q. QED BY <3>1 DEF Placed
  <2>2. ASSUME NEW h \in DOMAIN https' PROVE (Placed(h, https[h]) /\ Follows(h, https[h]))'
    <3>1. Placed(h, https[h]) /\ Follows(h, https[h])
      BY DEF VaadinInv, Entries
    <3>2. \A a \in DOMAIN https[h] : servlets'[https[h][a]].reached = servlets[https[h][a]].reached
      BY Names
    <3>q. QED BY <3>1, <3>2 DEF Placed, Follows
  <2>q. QED BY <2>1, <2>2 DEF Entries
<1>3. Served'
  BY StillServed
<1>4. Closings'
  BY DEF VaadinInv, Closings
<1>5. Instances'
  BY DEF VaadinInv, Instances
<1>6. OpenWhileServed'
  BY Names DEF VaadinInv, OpenWhileServed
<1>q. QED BY <1>1, <1>2, <1>3, <1>4, <1>5, <1>6 DEF VaadinInv

\* Requests for instances, and the steps of a close.
LEMMA ServletNext ==
    ASSUME Registrations, VaadinInv,
           \/ \E s \in DOMAIN servlets : GetNewApplication(s) \/ PutInstance(s) \/ MakeThrows(s)
           \/ \E c \in closers : Close(c) \/ Dispose(c) \/ CloseThrows(c) \/ Clear(c)
    PROVE  VaadinInv'
<1> USE DEF Accounted
<1>1. \A s \in DOMAIN servlets : Accounted(servlets[s])
  BY DEF VaadinInv, Instances
<1>2. \A c \in closers :
          c.todo \subseteq DOMAIN servlets /\ (c.at # Null => c.at \in DOMAIN servlets /\ ~ servlets[c.at].open)
  BY DEF VaadinInv, Closings
<1>3. ASSUME NEW s \in DOMAIN servlets, GetNewApplication(s) \/ MakeThrows(s) PROVE VaadinInv'
  <2>0. servlets[s].asking \in Nat
    BY <1>1
  <2>1. PICK k \in Nat : servlets' = [servlets EXCEPT ![s].asking = k]
    <3>1. CASE GetNewApplication(s)
      <4>1. servlets' = [servlets EXCEPT ![s].asking = servlets[s].asking + 1] /\ servlets[s].asking + 1 \in Nat
        BY <2>0, <3>1 DEF GetNewApplication
      <4>q. QED BY <4>1
    <3>2. CASE MakeThrows(s)
      <4>1. servlets' = [servlets EXCEPT ![s].asking = servlets[s].asking - 1] /\ servlets[s].asking - 1 \in Nat
        BY <2>0, <3>2 DEF MakeThrows
      <4>q. QED BY <4>1
    <3>q. QED BY <1>3, <3>1, <3>2
  <2>2. PICK r : r = servlets[s]
    OBVIOUS
  <2>3. servlets'[s] = [r EXCEPT !.asking = k]
    BY <2>1, <2>2
  <2>4. Accounted(r) /\ Accounted(servlets'[s]) /\ servlets'[s].open = r.open /\ servlets'[s].reached = r.reached
    BY <1>1, <2>2, <2>3, SMTT(30)
  <2>5. /\ UNCHANGED <<service, https, apps, registered, closers>>
        /\ DOMAIN servlets' = DOMAIN servlets /\ \A t \in DOMAIN servlets \ {s} : servlets'[t] = servlets[t]
    BY <1>3, <2>1 DEF GetNewApplication, MakeThrows
  <2> HIDE DEF Accounted
  <2>q. QED BY ServletSteps, <2>2, <2>4, <2>5
<1>4. ASSUME NEW s \in DOMAIN servlets, PutInstance(s) PROVE VaadinInv'
  <2>1. PICK r : r = servlets[s]
    OBVIOUS
  <2>0. PICK found \in BOOLEAN : \E q :
            /\ found => ~ r.open
            /\ servlets' = [servlets EXCEPT ![s] = q]
            /\ q = [r EXCEPT !.asking = r.asking - 1, !.made = r.made + 1, !.instances = r.instances \cup {r.made + 1},
                             !.early = IF r.open THEN r.early \cup {r.made + 1} ELSE r.early,
                             !.left = IF found THEN r.left \cup {r.made + 1} ELSE r.left,
                             !.disposed = Append(r.disposed, 0)]
            /\ r.asking > 0
    <3>1. PICK found \in BOOLEAN :
            /\ found => \E c \in closers : c.at = s
            /\ servlets' = [servlets EXCEPT ![s].asking = @ - 1, ![s].made = servlets[s].made + 1,
                                 ![s].instances = @ \cup {servlets[s].made + 1},
                                 ![s].early = IF servlets[s].open THEN @ \cup {servlets[s].made + 1} ELSE @,
                                 ![s].left = IF found THEN @ \cup {servlets[s].made + 1} ELSE @,
                                 ![s].disposed = Append(@, 0)]
      BY ONLY <1>4 DEF PutInstance
    <3>2. found => ~ r.open
      BY <1>2, <2>1, <3>1, Names
    <3>3. servlets' = [servlets EXCEPT ![s] =
              [r EXCEPT !.asking = r.asking - 1, !.made = r.made + 1, !.instances = r.instances \cup {r.made + 1},
                             !.early = IF r.open THEN r.early \cup {r.made + 1} ELSE r.early,
                             !.left = IF found THEN r.left \cup {r.made + 1} ELSE r.left,
                             !.disposed = Append(r.disposed, 0)]]
      BY ONLY <2>1, <3>1, ZenonT(40)
    <3>4. r.asking > 0
      BY ONLY <1>4, <2>1 DEF PutInstance
    <3>q. QED BY ONLY <3>2, <3>3, <3>4
  <2>2. PICK q :
            /\ found => ~ r.open
            /\ servlets' = [servlets EXCEPT ![s] = q]
            /\ q = [r EXCEPT !.asking = r.asking - 1, !.made = r.made + 1, !.instances = r.instances \cup {r.made + 1},
                             !.early = IF r.open THEN r.early \cup {r.made + 1} ELSE r.early,
                             !.left = IF found THEN r.left \cup {r.made + 1} ELSE r.left,
                             !.disposed = Append(r.disposed, 0)]
            /\ r.asking > 0
    BY ONLY <2>0
  <2>3. PICK d : d = Append(r.disposed, 0)
    OBVIOUS
  <2>4. Accounted(r)
    BY <1>1, <2>1
  <2>5. d \in Seq(Nat) /\ Len(d) = r.made + 1 /\ d[r.made + 1] = 0 /\ \A n \in 1 .. r.made : d[n] = r.disposed[n]
    BY <2>3, <2>4
  <2>6. PICK t : t = servlets'[s]
    OBVIOUS
  <2>7. /\ t \in [open : BOOLEAN, reached : BOOLEAN, asking : Nat, made : Nat, instances : SUBSET Nat,
                  early : SUBSET Nat, left : SUBSET Nat, disposed : Seq(Nat), ended : BOOLEAN]
        /\ t.open = r.open /\ t.reached = r.reached /\ t.made = r.made + 1 /\ t.instances = r.instances \cup {r.made + 1} /\ t.ended = r.ended
        /\ t.early = IF r.open THEN r.early \cup {r.made + 1} ELSE r.early
        /\ t.left = IF found THEN r.left \cup {r.made + 1} ELSE r.left
        /\ t.disposed = d
    <3>1. t = q
      BY ONLY <2>2, <2>6, s \in DOMAIN servlets
    <3>2. /\ r \in [open : BOOLEAN, reached : BOOLEAN, asking : Nat, made : Nat, instances : SUBSET Nat,
                     early : SUBSET Nat, left : SUBSET Nat, disposed : Seq(Nat), ended : BOOLEAN]
          /\ r.asking - 1 \in Nat /\ r.made + 1 \in Nat
      BY ONLY <2>2, <2>4 DEF Accounted
    <3>3. q = [r EXCEPT !.asking = r.asking - 1, !.made = r.made + 1, !.instances = r.instances \cup {r.made + 1},
                        !.early = IF r.open THEN r.early \cup {r.made + 1} ELSE r.early,
                        !.left = IF found THEN r.left \cup {r.made + 1} ELSE r.left, !.disposed = d]
      BY ONLY <2>2, <2>3
    <3>q. QED BY ONLY <2>5, <3>1, <3>2, <3>3
  <2>8. Accounted(t)
    <3>1. t.instances \subseteq 1 .. t.made /\ t.early \subseteq 1 .. t.made /\ t.left \subseteq 1 .. t.made
      BY ONLY <2>4, <2>7 DEF Accounted
    <3>2. 1 .. t.made = (1 .. r.made) \cup {r.made + 1} /\ r.made + 1 \notin 1 .. r.made
      BY ONLY <2>4, <2>7 DEF Accounted
    <3>3. /\ \A n \in 1 .. t.made : t.disposed[n] <= 1
          /\ \A n \in t.left : t.disposed[n] = 0
          /\ t.open => \A n \in 1 .. t.made : t.disposed[n] = 0
      <4>1. \A n \in 1 .. t.made : (n \in 1 .. r.made /\ t.disposed[n] = r.disposed[n])
                                    \/ (n = r.made + 1 /\ t.disposed[n] = 0)
        BY ONLY <2>5, <2>7, <3>2
      <4>2. \A n \in t.left : n \in r.left \/ n = r.made + 1
        BY ONLY <2>7
      <4>3. /\ \A n \in 1 .. r.made : r.disposed[n] <= 1
            /\ \A n \in r.left : n \in 1 .. r.made /\ r.disposed[n] = 0
            /\ r.open => \A n \in 1 .. r.made : r.disposed[n] = 0
        BY ONLY <2>4 DEF Accounted
      <4>q. QED BY ONLY <2>5, <2>7, <3>2, <4>1, <4>2, <4>3, SMTT(30)
    <3>4. /\ t.open => t.early \subseteq t.instances /\ ~ t.ended
          /\ ~ t.open => \A n \in t.early : n \in t.left \/ t.disposed[n] = 1
          /\ t.ended => \A n \in t.early : t.disposed[n] = 1
      BY ONLY <2>4, <2>5, <2>7, <3>2, SMTT(30) DEF Accounted
    <3>q. QED BY ONLY <2>5, <2>7, <3>1, <3>3, <3>4 DEF Accounted
  <2>9. /\ UNCHANGED <<service, https, apps, registered, closers>>
        /\ DOMAIN servlets' = DOMAIN servlets /\ \A u \in DOMAIN servlets \ {s} : servlets'[u] = servlets[u]
    BY <1>4, <2>2 DEF PutInstance
  <2>10. Accounted(servlets'[s]) /\ servlets'[s].open = servlets[s].open /\ servlets'[s].reached = servlets[s].reached
    BY <2>1, <2>6, <2>7, <2>8
  <2> HIDE DEF Accounted
  <2>q. QED BY ServletSteps, <2>9, <2>10
<1>5. ASSUME NEW c \in closers, Close(c) PROVE VaadinInv'
  <2>1. PICK s \in c.todo :
          /\ servlets' = IF servlets[s].open
                         THEN [servlets EXCEPT ![s].open = FALSE, ![s].left = servlets[s].instances] ELSE servlets
          /\ closers' = (closers \ {c}) \cup
                            (IF servlets[s].open THEN {[todo |-> c.todo \ {s}, at |-> s]} ELSE Closer(c.todo \ {s}))
    BY <1>5 DEF Close
  <2>2. s \in DOMAIN servlets /\ Accounted(servlets[s]) /\ UNCHANGED <<service, https, apps, registered>>
    BY <1>1, <1>2, <1>5 DEF Close
  <2>3. CASE servlets[s].open
    <3>1. PICK r : r = servlets[s]
      OBVIOUS
    <3>2. servlets' = [servlets EXCEPT ![s] = [r EXCEPT !.open = FALSE, !.left = r.instances]]
      BY ONLY <2>1, <2>3, <3>1
    <3>3. servlets'[s] = [r EXCEPT !.open = FALSE, !.left = r.instances] /\ Accounted(r) /\ r.open
      BY ONLY <2>2, <2>3, <3>1, <3>2
    <3>4. Accounted(servlets'[s]) /\ ~ servlets'[s].open /\ servlets'[s].reached = servlets[s].reached
      <4>1. PICK t : t = servlets'[s]
        OBVIOUS
      <4>2. /\ t \in [open : BOOLEAN, reached : BOOLEAN, asking : Nat, made : Nat, instances : SUBSET Nat,
                      early : SUBSET Nat, left : SUBSET Nat, disposed : Seq(Nat), ended : BOOLEAN]
            /\ ~ t.open /\ t.reached = r.reached /\ t.left = r.instances /\ t.made = r.made /\ t.instances = r.instances
            /\ t.early = r.early /\ t.disposed = r.disposed /\ t.ended = r.ended
        BY ONLY <3>3, <4>1 DEF Accounted
      <4>q. QED BY ONLY <3>1, <3>3, <4>1, <4>2 DEF Accounted
    <3>5. DOMAIN servlets' = DOMAIN servlets /\ \A t \in DOMAIN servlets \ {s} : servlets'[t] = servlets[t]
      BY <3>2
    <3>6. \A d \in closers' : d \in closers \/ (d.todo \subseteq c.todo /\ d.at = s)
      BY <2>1, <2>3
    <3> HIDE DEF Accounted
    <3>q. QED BY ServletSteps, <2>2, <3>4, <3>5, <3>6
  <2>4. CASE ~ servlets[s].open
    <3>1. servlets' = servlets /\ \A d \in closers' : d \in closers \/ (d.todo \subseteq c.todo /\ d.at = Null)
      BY <2>1, <2>4 DEF Closer
    <3> HIDE DEF Accounted
    <3>q. QED BY ServletSteps, <2>2, <3>1
  <2>q. QED BY <2>3, <2>4
<1>6. ASSUME NEW c \in closers, Dispose(c) PROVE VaadinInv'
  <2>1. PICK s, r : s = c.at /\ r = servlets[s]
    OBVIOUS
  <2>2. /\ s \in DOMAIN servlets /\ Accounted(r) /\ ~ r.open
        /\ UNCHANGED <<service, https, apps, registered, closers>>
    <3> HIDE DEF Accounted
    <3>q. QED BY <1>1, <1>2, <1>6, <2>1 DEF Dispose
  <2>3. PICK n \in r.left :
            servlets' = [servlets EXCEPT ![s] = [r EXCEPT !.left = r.left \ {n},
                                                          !.disposed = [r.disposed EXCEPT ![n] = r.disposed[n] + 1]]]
    <3>1. PICK n \in r.left : servlets' = [servlets EXCEPT ![s].left = @ \ {n}, ![s].disposed[n] = @ + 1]
      BY ONLY <1>6, <2>1 DEF Dispose
    <3>2. servlets' = [servlets EXCEPT ![s] = [r EXCEPT !.left = r.left \ {n},
                                                        !.disposed = [r.disposed EXCEPT ![n] = r.disposed[n] + 1]]]
      BY ONLY <2>1, <2>2, <3>1 DEF Accounted
    <3>q. QED BY <3>2
  <2>4. PICK d, t : d = [r.disposed EXCEPT ![n] = r.disposed[n] + 1] /\ t = servlets'[s]
    OBVIOUS
  <2>5. /\ d \in Seq(Nat) /\ Len(d) = r.made /\ n \in 1 .. r.made
        /\ d[n] = 1 /\ \A k \in 1 .. r.made : k # n => d[k] = r.disposed[k]
    BY ONLY <2>2, <2>3, <2>4 DEF Accounted
  <2>6. t = [r EXCEPT !.left = r.left \ {n}, !.disposed = d]
    BY ONLY <2>2, <2>3, <2>4
  <2>7. Accounted(t) /\ t.open = r.open /\ t.reached = r.reached
    <3>1. /\ t \in [open : BOOLEAN, reached : BOOLEAN, asking : Nat, made : Nat, instances : SUBSET Nat,
                    early : SUBSET Nat, left : SUBSET Nat, disposed : Seq(Nat), ended : BOOLEAN]
          /\ t.open = r.open /\ t.reached = r.reached /\ t.left = r.left \ {n} /\ t.made = r.made /\ t.instances = r.instances
          /\ t.early = r.early /\ t.disposed = d /\ t.ended = r.ended
      BY ONLY <2>2, <2>5, <2>6 DEF Accounted
    <3>2. /\ \A k \in 1 .. r.made : d[k] <= 1
          /\ \A k \in r.left \ {n} : d[k] = 0
          /\ \A k \in r.early : r.disposed[k] = 1 => d[k] = 1
      <4>1. /\ \A k \in 1 .. r.made : r.disposed[k] <= 1
            /\ \A k \in r.left : r.disposed[k] = 0
            /\ r.left \subseteq 1 .. r.made /\ r.early \subseteq 1 .. r.made
        BY ONLY <2>2 DEF Accounted
      <4>q. QED BY ONLY <2>5, <4>1, SMTT(30)
    <3>q. QED BY ONLY <2>2, <2>5, <3>1, <3>2 DEF Accounted
  <2>8. DOMAIN servlets' = DOMAIN servlets /\ \A u \in DOMAIN servlets \ {s} : servlets'[u] = servlets[u]
    BY <2>3
  <2> HIDE DEF Accounted
  <2>q. QED BY ServletSteps, <2>1, <2>2, <2>4, <2>7, <2>8
<1>7. ASSUME NEW c \in closers, CloseThrows(c) PROVE VaadinInv'
  <2>1. c.at \in DOMAIN servlets /\ Accounted(servlets[c.at]) /\ closers' \subseteq closers
    BY <1>1, <1>2, <1>7 DEF CloseThrows
  <2> HIDE DEF Accounted
  <2>q. QED BY ServletSteps, <1>7, <2>1 DEF CloseThrows
<1>8. ASSUME NEW c \in closers, Clear(c) PROVE VaadinInv'
  <2>1. PICK s, r : s = c.at /\ r = servlets[s]
    OBVIOUS
  <2>2. /\ s \in DOMAIN servlets /\ Accounted(r) /\ ~ r.open /\ r.left = {}
        /\ UNCHANGED <<service, https, apps, registered>>
    <3> HIDE DEF Accounted
    <3>q. QED BY <1>1, <1>2, <1>8, <2>1 DEF Clear
  <2>3. servlets' = [servlets EXCEPT ![s] = [r EXCEPT !.instances = {}, !.ended = TRUE]]
    BY ONLY <1>8, <2>1 DEF Clear
  <2>4. servlets'[s] = [r EXCEPT !.instances = {}, !.ended = TRUE]
    BY ONLY <2>2, <2>3
  <2>5. Accounted(servlets'[s]) /\ servlets'[s].open = r.open /\ servlets'[s].reached = r.reached
    BY ONLY <2>2, <2>4 DEF Accounted
  <2>6. \A d \in closers' : d \in closers \/ (d.todo \subseteq c.todo /\ d.at = Null)
    BY <1>8 DEF Clear, Closer
  <2>7. DOMAIN servlets' = DOMAIN servlets /\ \A u \in DOMAIN servlets \ {s} : servlets'[u] = servlets[u]
    BY <2>3
  <2> HIDE DEF Accounted
  <2>q. QED BY ServletSteps, <2>1, <2>2, <2>5, <2>6, <2>7
<1>q. QED BY <1>3, <1>4, <1>5, <1>6, <1>7, <1>8

\* What is registered for services that just came is new: nobody closes it, and it is open.
LEMMA Coming ==
    ASSUME Registrations, VaadinInv, NEW n \in Nat, NEW pairs, DOMAIN pairs = 1 .. n, NEW maps,
           Registered(pairs, maps), UNCHANGED closers, DOMAIN maps \subseteq Http,
           \A h \in DOMAIN maps : (h \in DOMAIN https /\ maps[h] = https[h]) \/ DOMAIN maps[h] = {},
           \A i \in 1 .. n : (\E h \in DOMAIN maps, f \in apps' : pairs[i] = <<h, f>>) /\ pairs[i] \notin DOMAIN servlets,
           apps \subseteq apps', apps' \subseteq Factory
    PROVE  Entries' /\ Closings' /\ OpenWhileServed' /\ Instances'
<1>1. ASSUME NEW h \in DOMAIN maps PROVE Placed(h, maps[h])
  <2>1. CASE DOMAIN maps[h] = {}
    BY <2>1 DEF Placed
  <2>2. CASE h \in DOMAIN https /\ maps[h] = https[h]
    BY <2>2 DEF VaadinInv, Entries
  <2>q. QED BY <2>1, <2>2
<1>2. ASSUME NEW h \in DOMAIN maps PROVE Placed(h, https[h])'
  <2> SUFFICES ASSUME NEW a \in DOMAIN https'[h]
               PROVE  \E f \in apps' : AliasOf[f] = a /\ https'[h][a] = <<h, f>> /\ <<h, f>> \in DOMAIN servlets'
    BY DEF Placed
  <2>1. CASE a \in DOMAIN maps[h] /\ https'[h][a] = maps[h][a]
    <3>1. PICK f \in apps : AliasOf[f] = a /\ maps[h][a] = <<h, f>> /\ <<h, f>> \in DOMAIN servlets
      BY <1>1, <2>1 DEF Placed
    <3>2. f \in apps' /\ <<h, f>> \in DOMAIN servlets'
      BY <3>1 DEF Registered
    <3>q. QED BY <2>1, <3>1, <3>2
  <2>2. CASE \E i \in DOMAIN pairs : /\ pairs[i][1] = h /\ AliasOf[pairs[i][2]] = a /\ https'[h][a] = pairs[i]
                                     /\ pairs[i] \in DOMAIN servlets'
    <3>1. PICK i \in 1 .. n : /\ pairs[i][1] = h /\ AliasOf[pairs[i][2]] = a /\ https'[h][a] = pairs[i]
                              /\ pairs[i] \in DOMAIN servlets'
      BY <2>2
    <3>2. PICK g \in DOMAIN maps, f \in apps' : pairs[i] = <<g, f>>
      OBVIOUS
    <3>3. g = h /\ AliasOf[f] = a
      BY ONLY <3>1, <3>2
    <3>q. QED BY ONLY <3>1, <3>2, <3>3
  <2>3. Entered(pairs, maps, https') /\ h \in DOMAIN maps /\ a \in DOMAIN https'[h]
    BY DEF Registered
  <2>4. \/ a \in DOMAIN maps[h] /\ https'[h][a] = maps[h][a]
        \/ \E i \in DOMAIN pairs : /\ pairs[i][1] = h /\ AliasOf[pairs[i][2]] = a /\ https'[h][a] = pairs[i]
                                   /\ pairs[i] \in DOMAIN servlets'
    BY ONLY <2>3 DEF Entered
  <2>q. QED BY ONLY <2>1, <2>2, <2>4
<1>3. ASSUME NEW h \in Http PROVE Placed(h, registered[h])'
  <2> SUFFICES ASSUME NEW a \in DOMAIN registered'[h]
               PROVE  \E f \in apps' : AliasOf[f] = a /\ registered'[h][a] = <<h, f>> /\ <<h, f>> \in DOMAIN servlets'
    BY DEF Placed
  <2>0. Placed(h, registered[h]) /\ h \in DOMAIN registered
    BY DEF VaadinInv, Entries, Services
  <2>1. CASE a \in DOMAIN registered[h] /\ registered'[h][a] = registered[h][a]
    <3>1. PICK f \in apps : AliasOf[f] = a /\ registered[h][a] = <<h, f>> /\ <<h, f>> \in DOMAIN servlets
      BY <2>0, <2>1 DEF Placed
    <3>2. f \in apps' /\ <<h, f>> \in DOMAIN servlets'
      BY <3>1 DEF Registered
    <3>q. QED BY <2>1, <3>1, <3>2
  <2>2. CASE \E i \in DOMAIN pairs : /\ pairs[i][1] = h /\ AliasOf[pairs[i][2]] = a /\ registered'[h][a] = pairs[i]
                                     /\ pairs[i] \in DOMAIN servlets'
    <3>1. PICK i \in 1 .. n : /\ pairs[i][1] = h /\ AliasOf[pairs[i][2]] = a /\ registered'[h][a] = pairs[i]
                              /\ pairs[i] \in DOMAIN servlets'
      BY <2>2
    <3>2. PICK g \in DOMAIN maps, f \in apps' : pairs[i] = <<g, f>>
      OBVIOUS
    <3>3. g = h /\ AliasOf[f] = a
      BY ONLY <3>1, <3>2
    <3>q. QED BY ONLY <3>1, <3>2, <3>3
  <2>3. Entered(pairs, registered, registered') /\ h \in DOMAIN registered /\ a \in DOMAIN registered'[h]
    BY <2>0 DEF Registered
  <2>4. \/ a \in DOMAIN registered[h] /\ registered'[h][a] = registered[h][a]
        \/ \E i \in DOMAIN pairs : /\ pairs[i][1] = h /\ AliasOf[pairs[i][2]] = a /\ registered'[h][a] = pairs[i]
                                   /\ pairs[i] \in DOMAIN servlets'
    BY ONLY <2>3 DEF Entered
  <2>q. QED BY ONLY <2>1, <2>2, <2>4
<1>4. Entries'
  BY <1>2, <1>3 DEF Entries, Registered
<1>5. Closings'
  BY DEF VaadinInv, Closings, Registered
<1>6. Instances'
  <2>1. \A b \in BOOLEAN : Accounted([NewServlet EXCEPT !.reached = b])
    <3> SUFFICES ASSUME NEW b \in BOOLEAN PROVE Accounted([NewServlet EXCEPT !.reached = b])
      OBVIOUS
    <3>1. PICK r : r = [NewServlet EXCEPT !.reached = b]
      OBVIOUS
    <3>2. <<>> \in Seq(Nat) /\ Len(<<>>) = 0 /\ 1 .. 0 = {}
      OBVIOUS
    <3>3. /\ r \in [open : BOOLEAN, reached : BOOLEAN, asking : Nat, made : Nat, instances : SUBSET Nat,
                    early : SUBSET Nat, left : SUBSET Nat, disposed : Seq(Nat), ended : BOOLEAN]
          /\ r.open /\ r.made = 0 /\ r.instances = {} /\ r.early = {} /\ r.left = {} /\ r.disposed = <<>> /\ ~ r.ended
      BY <3>1, <3>2 DEF NewServlet
    <3>4. Accounted(r)
      BY ONLY <3>2, <3>3 DEF Accounted
    <3>q. QED BY <3>1, <3>4
  <2>q. QED BY <2>1 DEF VaadinInv, Instances, Registered
<1>7. OpenWhileServed'
  <2> SUFFICES ASSUME NEW h \in Http, NEW a \in DOMAIN registered'[h], NEW s, s = registered'[h][a]
               PROVE  servlets'[s].open /\ \A c \in closers : s \notin c.todo /\ s # c.at
    BY DEF OpenWhileServed
  <2>0. h \in DOMAIN registered
    BY DEF VaadinInv, Services
  <2>1. CASE a \in DOMAIN registered[h] /\ registered'[h][a] = registered[h][a]
    BY <2>1, Names DEF VaadinInv, OpenWhileServed, Registered
  <2>2. CASE \E i \in DOMAIN pairs : registered'[h][a] = pairs[i] /\ pairs[i] \in DOMAIN servlets'
    <3>0. PICK i \in 1 .. n : registered'[h][a] = pairs[i] /\ pairs[i] \in DOMAIN servlets'
      BY <2>2
    <3>a. pairs[i] \in Http \X Factory /\ pairs[i] \notin DOMAIN servlets
      <4>1. PICK g \in Http, f \in Factory : pairs[i] = <<g, f>>
        OBVIOUS
      <4>q. QED BY <4>1
    <3>1. s \in DOMAIN servlets' \ DOMAIN servlets /\ s \in Http \X Factory
      BY <3>0, <3>a
    <3>2. servlets'[s].open
      BY <3>1 DEF Registered, NewServlet
    <3>3. \A c \in closers : s \notin c.todo /\ s # c.at
      BY <3>1 DEF VaadinInv, Closings, Registrations
    <3>q. QED BY <3>2, <3>3
  <2>q. QED BY <2>0, <2>1, <2>2 DEF Registered, Entered
<1>q. QED BY <1>4, <1>5, <1>6, <1>7

\* Services that come are registered, followed, and served unless one throws.
LEMMA SetHttpNext ==
    ASSUME Registrations, VaadinInv, NEW h0 \in Http, SetHttp(h0) PROVE VaadinInv'
<1>1. /\ service[h0] = "away" /\ service' = [service EXCEPT ![h0] = "here"] /\ UNCHANGED <<apps, closers>>
      /\ apps \subseteq Factory /\ IsFiniteSet(apps) /\ h0 \notin Factory
  <2>1. apps \subseteq Factory
    BY DEF VaadinInv, Services
  <2>q. QED BY <2>1, FS_Subset DEF SetHttp, Registrations
<1>2. PICK maps : maps = Put(https, h0, Nothing)
  OBVIOUS
<1>3. PICK pairs \in Orders({<<h0, f>> : f \in apps}) : \E k \in 0 .. Len(pairs) : Register(pairs, k, maps)
  BY <1>2 DEF SetHttp
<1>4. IsFiniteSet({<<h0, f>> : f \in apps})
  <2>1. IsFiniteSet({h0}) /\ IsFiniteSet({h0} \X apps)
    BY <1>1, FS_Singleton, FS_Product
  <2>2. {<<h0, f>> : f \in apps} \subseteq {h0} \X apps
    OBVIOUS
  <2>q. QED BY <2>1, <2>2, FS_Subset
<1>5. PICK n \in Nat :
          /\ DOMAIN pairs = 1 .. n
          /\ \A i \in 1 .. n : \E f \in apps : pairs[i] = <<h0, f>>
          /\ \A i, j \in 1 .. n : i # j => pairs[i] # pairs[j]
          /\ \A f \in apps : \E i \in 1 .. n : pairs[i] = <<h0, f>>
  <2>1. PICK S : S = {<<h0, f>> : f \in apps}
    OBVIOUS
  <2>2. /\ \E n \in Nat : DOMAIN pairs = 1 .. n
        /\ \A i \in DOMAIN pairs : pairs[i] \in S
        /\ \A i, j \in DOMAIN pairs : i # j => pairs[i] # pairs[j]
        /\ \A x \in S : \E i \in DOMAIN pairs : pairs[i] = x
    BY ONLY <1>3, <1>4, <2>1, Ordered
  <2>q. QED BY ONLY <2>1, <2>2
<1>6. /\ DOMAIN maps = DOMAIN https \cup {h0} /\ DOMAIN maps[h0] = {} /\ h0 \notin DOMAIN https
      /\ \A h \in DOMAIN https : maps[h] = https[h]
      /\ maps[h0] = Nothing /\ registered[h0] = Nothing
      /\ DOMAIN https \subseteq {h \in Http : service[h] = "here"} /\ DOMAIN registered = Http
      /\ DOMAIN maps \subseteq Http
  BY <1>1, <1>2 DEF VaadinInv, Services, Put, Nothing
<1>7. \A h \in DOMAIN maps : Follows(h, maps[h]) /\ \A a \in DOMAIN maps[h] : maps[h][a] \in DOMAIN servlets
  <2>1. Follows(h0, maps[h0])
    BY <1>6 DEF Follows, Nothing
  <2>q. QED BY <1>6, <2>1, Names DEF VaadinInv, Entries
<1>0. \A i \in 1 .. n : (\E h \in DOMAIN maps, f \in apps' : pairs[i] = <<h, f>>) /\ pairs[i] \notin DOMAIN servlets
  BY <1>1, <1>5, <1>6 DEF VaadinInv, Made
<1>8. Registered(pairs, maps)
  <2>1. PICK k \in 0 .. Len(pairs) : Register(pairs, k, maps)
    BY <1>3
  <2>2. k \in 0 .. n
    BY <1>5
  <2>3. \A i \in 1 .. n : pairs[i][1] \in DOMAIN maps /\ pairs[i] \notin DOMAIN servlets
    BY <1>0
  <2>q. QED BY ONLY <1>5, <1>6, <1>7, <2>1, <2>2, <2>3, RegisterEnters
<1>9. Entries' /\ Closings' /\ OpenWhileServed' /\ Instances'
  BY <1>1, <1>5, <1>6, <1>8, <1>0, Coming
<1>10. Services'
  <2>1. service' \in [Http \cup Factory -> {"away", "here", "gone"}] /\ apps' = {f \in Factory : service'[f] # "away"}
    BY <1>1 DEF VaadinInv, Services
  <2>2. DOMAIN https' \subseteq {h \in Http : service'[h] = "here"} /\ DOMAIN registered' = Http
    BY <1>1, <1>6, <1>8 DEF VaadinInv, Services, Registered
  <2>3. \A h \in Http : h \notin DOMAIN https' => registered'[h] = Nothing
    BY <1>1, <1>6, <1>8 DEF VaadinInv, Services, Registered
  <2>q. QED BY <2>1, <2>2, <2>3 DEF Services
<1>11. Made'
  <2> SUFFICES ASSUME NEW s \in DOMAIN servlets'
               PROVE  \E h \in Http, f \in Factory : s = <<h, f>> /\ service'[h] # "away" /\ service'[f] # "away"
    BY DEF Made
  <2>0. \A x \in Http \cup Factory : service[x] # "away" => service'[x] # "away"
    BY <1>1 DEF VaadinInv, Services
  <2>1. CASE s \in DOMAIN servlets
    BY <2>0, <2>1 DEF VaadinInv, Made
  <2>2. CASE s \notin DOMAIN servlets
    <3>1. PICK f \in apps : s = <<h0, f>>
      <4>1. PICK i \in DOMAIN pairs : s = pairs[i]
        BY <1>8, <2>2 DEF Registered
      <4>q. QED BY ONLY <1>5, <4>1
    <3>2. service'[h0] # "away" /\ service'[f] # "away"
      BY <1>1, <2>0 DEF VaadinInv, Services
    <3>q. QED BY <1>1, <3>1, <3>2
  <2>q. QED BY <2>1, <2>2
<1>12. Served'
  <2> SUFFICES ASSUME NEW h \in DOMAIN https', NEW f \in Factory, service'[f] = "here"
               PROVE  \/ AliasOf[f] \in DOMAIN registered'[h] /\ registered'[h][AliasOf[f]] = <<h, f>>
                      \/ Excused(h, AliasOf[f])'
    BY DEF Served, Here
  <2>0. service[f] = "here" /\ f \in apps /\ h \in Http /\ h \in DOMAIN maps
    BY <1>1, <1>6, <1>8 DEF VaadinInv, Services, Registered
  <2>1. CASE h = h0
    <3>1. PICK i \in 1 .. n : pairs[i] = <<h0, f>>
      BY <1>5, <2>0
    <3>2. CASE AliasOf[f] \in DOMAIN registered'[h0] /\ registered'[h0][AliasOf[f]] = pairs[i]
      BY <2>1, <3>1, <3>2
    <3>3. CASE \E j \in DOMAIN pairs : pairs[j] \in DOMAIN servlets' /\ ~ servlets'[pairs[j]].reached
      <4>1. PICK j \in 1 .. n : pairs[j] \in DOMAIN servlets' /\ ~ servlets'[pairs[j]].reached
        BY <1>5, <3>3
      <4>2. pairs[j][1] = h
        BY <1>5, <2>1
      <4>q. QED BY ONLY <4>1, <4>2 DEF Excused
    <3>q. QED BY <1>5, <1>8, <3>1, <3>2, <3>3 DEF Registered
  <2>2. CASE h # h0
    <3>1. h \in DOMAIN https
      BY <1>6, <2>0, <2>2
    <3>2. CASE AliasOf[f] \in DOMAIN registered[h] /\ registered[h][AliasOf[f]] = <<h, f>>
      BY <1>8, <2>0, <3>2 DEF Registered
    <3>3. CASE Excused(h, AliasOf[f])
      BY <1>8, <3>3, StillExcused DEF Registered
    <3>q. QED BY <2>0, <3>1, <3>2, <3>3 DEF VaadinInv, Served, Here
  <2>q. QED BY <2>1, <2>2
<1>q. QED BY <1>9, <1>10, <1>11, <1>12 DEF VaadinInv

LEMMA AddApplicationNext ==
    ASSUME Registrations, VaadinInv, NEW f0 \in Factory, AddApplication(f0) PROVE VaadinInv'
<1>1. /\ service[f0] = "away" /\ service' = [service EXCEPT ![f0] = "here"] /\ UNCHANGED closers
      /\ apps' = apps \cup {f0} /\ apps \subseteq Factory /\ f0 \notin apps /\ f0 \notin Http
  BY DEF VaadinInv, Services, AddApplication, Registrations
<1>2. PICK pairs \in Orders({<<h, f0>> : h \in DOMAIN https}) : \E k \in 0 .. Len(pairs) : Register(pairs, k, https)
  BY DEF AddApplication
<1>3. /\ DOMAIN https \subseteq {h \in Http : service[h] = "here"} /\ DOMAIN https \subseteq Http /\ DOMAIN registered = Http
      /\ \A h \in DOMAIN https : Follows(h, https[h]) /\ \A a \in DOMAIN https[h] : https[h][a] \in DOMAIN servlets
  BY Names DEF VaadinInv, Services, Entries
<1>4. IsFiniteSet({<<h, f0>> : h \in DOMAIN https})
  <2>1. IsFiniteSet({f0}) /\ IsFiniteSet(Http)
    BY FS_Singleton DEF Registrations
  <2>2. IsFiniteSet(Http \X {f0})
    BY <2>1, FS_Product
  <2>3. {<<h, f0>> : h \in DOMAIN https} \subseteq Http \X {f0}
    BY <1>3
  <2>q. QED BY <2>2, <2>3, FS_Subset
<1>5. PICK n \in Nat :
          /\ DOMAIN pairs = 1 .. n
          /\ \A i \in 1 .. n : \E h \in DOMAIN https : pairs[i] = <<h, f0>>
          /\ \A i, j \in 1 .. n : i # j => pairs[i] # pairs[j]
          /\ \A h \in DOMAIN https : \E i \in 1 .. n : pairs[i] = <<h, f0>>
  <2>1. PICK S : S = {<<h, f0>> : h \in DOMAIN https}
    OBVIOUS
  <2>2. /\ \E n \in Nat : DOMAIN pairs = 1 .. n
        /\ \A i \in DOMAIN pairs : pairs[i] \in S
        /\ \A i, j \in DOMAIN pairs : i # j => pairs[i] # pairs[j]
        /\ \A x \in S : \E i \in DOMAIN pairs : pairs[i] = x
    BY ONLY <1>2, <1>4, <2>1, Ordered
  <2>q. QED BY ONLY <2>1, <2>2
<1>0. \A i \in 1 .. n : (\E h \in DOMAIN https, f \in apps' : pairs[i] = <<h, f>>) /\ pairs[i] \notin DOMAIN servlets
  BY <1>1, <1>5 DEF VaadinInv, Made
<1>6. Registered(pairs, https)
  <2>1. PICK k \in 0 .. Len(pairs) : Register(pairs, k, https)
    BY <1>2
  <2>2. k \in 0 .. n
    BY <1>5
  <2>3. \A i \in 1 .. n : pairs[i][1] \in DOMAIN https /\ pairs[i] \notin DOMAIN servlets
    BY <1>5, <1>0
  <2>q. QED BY ONLY <1>3, <1>5, <2>1, <2>2, <2>3, RegisterEnters
<1>7. Entries' /\ Closings' /\ OpenWhileServed' /\ Instances'
  <2>1. \A i \in 1 .. n : (\E h \in DOMAIN https, f \in apps' : pairs[i] = <<h, f>>) /\ pairs[i] \notin DOMAIN servlets
    BY <1>0
  <2>2. \A h \in DOMAIN https : h \in DOMAIN https /\ https[h] = https[h]
    OBVIOUS
  <2>3. apps \subseteq apps' /\ apps' \subseteq Factory /\ DOMAIN pairs = 1 .. n
    BY <1>1, <1>5
  <2>q. QED BY ONLY Registrations, VaadinInv, <1>1, <1>3, <1>6, <2>1, <2>2, <2>3, Coming
<1>8. Services'
  <2>1. service' \in [Http \cup Factory -> {"away", "here", "gone"}] /\ apps' = {f \in Factory : service'[f] # "away"}
    BY <1>1 DEF VaadinInv, Services
  <2>2. DOMAIN https' \subseteq {h \in Http : service'[h] = "here"} /\ DOMAIN registered' = Http
    BY <1>1, <1>3, <1>6 DEF VaadinInv, Services, Registered
  <2>3. \A h \in Http : h \notin DOMAIN https' => registered'[h] = Nothing
    BY <1>1, <1>3, <1>6 DEF VaadinInv, Services, Registered
  <2>q. QED BY <2>1, <2>2, <2>3 DEF Services
<1>9. Made'
  <2> SUFFICES ASSUME NEW s \in DOMAIN servlets'
               PROVE  \E h \in Http, f \in Factory : s = <<h, f>> /\ service'[h] # "away" /\ service'[f] # "away"
    BY DEF Made
  <2>0. \A x \in Http \cup Factory : service[x] # "away" => service'[x] # "away"
    BY <1>1 DEF VaadinInv, Services
  <2>1. CASE s \in DOMAIN servlets
    BY <2>0, <2>1 DEF VaadinInv, Made
  <2>2. CASE s \notin DOMAIN servlets
    <3>1. PICK h \in DOMAIN https : s = <<h, f0>>
      <4>1. PICK i \in DOMAIN pairs : s = pairs[i]
        BY <1>6, <2>2 DEF Registered
      <4>q. QED BY ONLY <1>5, <4>1
    <3>2. h \in Http /\ service'[h] # "away" /\ service'[f0] # "away"
      BY <1>1, <1>3, <2>0 DEF VaadinInv, Services
    <3>q. QED BY <3>1, <3>2
  <2>q. QED BY <2>1, <2>2
<1>10. Served'
  <2> SUFFICES ASSUME NEW h \in DOMAIN https', NEW f \in Factory, service'[f] = "here"
               PROVE  \/ AliasOf[f] \in DOMAIN registered'[h] /\ registered'[h][AliasOf[f]] = <<h, f>>
                      \/ Excused(h, AliasOf[f])'
    BY DEF Served, Here
  <2>0. h \in Http /\ h \in DOMAIN https
    BY <1>3, <1>6 DEF Registered
  <2>1. CASE f = f0
    <3>1. PICK i \in 1 .. n : pairs[i] = <<h, f0>>
      BY <1>5, <2>0
    <3>2. CASE AliasOf[f0] \in DOMAIN registered'[h] /\ registered'[h][AliasOf[f0]] = pairs[i]
      BY <2>1, <3>1, <3>2
    <3>3. CASE \E j \in DOMAIN pairs : pairs[j] \in DOMAIN servlets' /\ ~ servlets'[pairs[j]].reached
      <4>1. PICK j \in 1 .. n : pairs[j] \in DOMAIN servlets' /\ ~ servlets'[pairs[j]].reached
        BY <1>5, <3>3
      <4>2. pairs[j][2] = f
        BY <1>5, <2>1
      <4>q. QED BY ONLY <4>1, <4>2 DEF Excused
    <3>q. QED BY <1>5, <1>6, <3>1, <3>2, <3>3 DEF Registered
  <2>2. CASE f # f0
    <3>1. service[f] = "here"
      BY <1>1, <2>2 DEF VaadinInv, Services
    <3>2. CASE AliasOf[f] \in DOMAIN registered[h] /\ registered[h][AliasOf[f]] = <<h, f>>
      BY <1>6, <2>0, <3>2 DEF Registered
    <3>3. CASE Excused(h, AliasOf[f])
      BY <1>6, <3>3, StillExcused DEF Registered
    <3>q. QED BY <2>0, <3>1, <3>2, <3>3 DEF VaadinInv, Served, Here
  <2>q. QED BY <2>1, <2>2
<1>q. QED BY <1>7, <1>8, <1>9, <1>10 DEF VaadinInv

\* Of services that go, nothing new is registered, and what is still registered is not closed.
LEMMA Going ==
    ASSUME Registrations, VaadinInv, NEW x \in Http \cup Factory, service[x] = "here",
           service' = [service EXCEPT ![x] = "gone"], UNCHANGED <<apps, servlets>>,
           NEW todo \in SUBSET DOMAIN servlets, closers' = closers \cup Closer(todo),
           DOMAIN registered' = Http, DOMAIN https' \subseteq DOMAIN https,
           \A h \in Http : \A a \in DOMAIN registered'[h] :
               a \in DOMAIN registered[h] /\ registered'[h][a] = registered[h][a] /\ registered[h][a] \notin todo,
           \A h \in DOMAIN https' :
               /\ DOMAIN registered'[h] \subseteq DOMAIN https'[h]
               /\ \A a \in DOMAIN https'[h] : a \in DOMAIN registered[h] => a \in DOMAIN registered'[h]
               /\ \A a \in DOMAIN https'[h] : a \in DOMAIN https[h] /\ https'[h][a] = https[h][a]
    PROVE  Entries' /\ Made' /\ Closings' /\ OpenWhileServed' /\ Instances'
<1>1. \A c \in closers' : c \in closers \/ (c.todo = todo /\ c.at = Null)
  BY DEF Closer
<1>2. ASSUME NEW h \in Http PROVE Placed(h, registered[h])'
  <2> SUFFICES ASSUME NEW a \in DOMAIN registered'[h]
               PROVE  \E f \in apps : AliasOf[f] = a /\ registered'[h][a] = <<h, f>> /\ <<h, f>> \in DOMAIN servlets
    BY DEF Placed
  <2>1. Placed(h, registered[h])
    BY DEF VaadinInv, Entries
  <2>2. a \in DOMAIN registered[h] /\ registered'[h][a] = registered[h][a]
    OBVIOUS
  <2>q. QED BY ONLY <2>1, <2>2 DEF Placed
<1>3. ASSUME NEW h \in DOMAIN https' PROVE Placed(h, https[h])'
  <2> SUFFICES ASSUME NEW a \in DOMAIN https'[h]
               PROVE  \E f \in apps : AliasOf[f] = a /\ https'[h][a] = <<h, f>> /\ <<h, f>> \in DOMAIN servlets
    BY DEF Placed
  <2>1. Placed(h, https[h])
    BY DEF VaadinInv, Entries
  <2>2. a \in DOMAIN https[h] /\ https'[h][a] = https[h][a]
    OBVIOUS
  <2>q. QED BY ONLY <2>1, <2>2 DEF Placed
<1>0. ASSUME NEW h \in DOMAIN https' PROVE Follows(h, https[h])'
  <2>1. Follows(h, https[h]) /\ h \in Http
    BY DEF VaadinInv, Entries, Services
  <2>q. QED BY <2>1 DEF Follows
<1>4. Entries'
  BY <1>2, <1>3, <1>0 DEF Entries
<1>5. Made'
  <2>1. \A y \in Http \cup Factory : service[y] # "away" => service'[y] # "away"
    BY DEF VaadinInv, Services
  <2>q. QED BY <2>1 DEF VaadinInv, Made
<1>6. Closings'
  BY <1>1 DEF VaadinInv, Closings
<1>7. OpenWhileServed'
  BY <1>1, Names DEF VaadinInv, OpenWhileServed
<1>8. Instances'
  BY DEF VaadinInv, Instances
<1>q. QED BY <1>4, <1>5, <1>6, <1>7, <1>8

\* An http service goes with its registrations and with its part of the shadow.
LEMMA UnsetHttpNext ==
    ASSUME Registrations, VaadinInv, NEW h0 \in Http, UnsetHttp(h0) PROVE VaadinInv'
<1>1. /\ service[h0] = "here" /\ service' = [service EXCEPT ![h0] = "gone"] /\ UNCHANGED <<apps, servlets>>
      /\ registered' = [registered EXCEPT ![h0] = Nothing]
      /\ https' = [h \in DOMAIN https \ {h0} |-> https[h]]
  BY DEF UnsetHttp, RemoveAll
<1>2. PICK todo : todo = ServletsOf(h0)
  OBVIOUS
<1>3. closers' = closers \cup Closer(todo)
  BY <1>2 DEF UnsetHttp
<1>4. /\ DOMAIN https \subseteq {h \in Http : service[h] = "here"} /\ DOMAIN registered = Http
      /\ service \in [Http \cup Factory -> {"away", "here", "gone"}] /\ h0 \notin Factory
  BY <1>1 DEF VaadinInv, Services, Registrations
<1>5. /\ DOMAIN registered' = Http /\ DOMAIN https' = DOMAIN https \ {h0} /\ registered'[h0] = Nothing
      /\ \A h \in Http \ {h0} : registered'[h] = registered[h]
      /\ \A h \in DOMAIN https' : https'[h] = https[h] /\ h \in Http \ {h0}
  BY <1>1, <1>4
<1>6. todo \subseteq DOMAIN servlets /\ \A s \in todo : \E f \in apps : s = <<h0, f>>
  <2>1. CASE h0 \in DOMAIN https
    <3>1. Placed(h0, https[h0])
      BY <2>1 DEF VaadinInv, Entries
    <3>2. \A a \in DOMAIN https[h0] :
              https[h0][a] \in DOMAIN servlets /\ \E f \in apps : https[h0][a] = <<h0, f>>
      BY ONLY <3>1 DEF Placed
    <3>q. QED BY ONLY <1>2, <2>1, <3>2 DEF ServletsOf
  <2>2. CASE h0 \notin DOMAIN https
    BY <1>2, <2>2 DEF ServletsOf
  <2>q. QED BY <2>1, <2>2
<1>7. ASSUME NEW h \in Http, NEW a \in DOMAIN registered'[h]
      PROVE  a \in DOMAIN registered[h] /\ registered'[h][a] = registered[h][a] /\ registered[h][a] \notin todo
  <2>1. h # h0 /\ registered'[h] = registered[h]
    BY <1>5, <1>7 DEF Nothing
  <2>2. PICK f \in apps : registered[h][a] = <<h, f>>
    <3>1. Placed(h, registered[h])
      BY DEF VaadinInv, Entries
    <3>q. QED BY <1>7, <2>1, <3>1 DEF Placed
  <2>q. QED BY <1>6, <1>7, <2>1, <2>2
<1>8. \A h \in DOMAIN https' :
          /\ DOMAIN registered'[h] \subseteq DOMAIN https'[h]
          /\ \A a \in DOMAIN https'[h] : a \in DOMAIN registered[h] => a \in DOMAIN registered'[h]
          /\ \A a \in DOMAIN https'[h] : a \in DOMAIN https[h] /\ https'[h][a] = https[h][a]
  BY <1>5 DEF VaadinInv, Entries, Follows
<1>9. Entries' /\ Made' /\ Closings' /\ OpenWhileServed' /\ Instances'
  <2>1. h0 \in Http \cup Factory /\ todo \in SUBSET DOMAIN servlets /\ DOMAIN https' \subseteq DOMAIN https
    BY <1>5, <1>6
  <2>q. QED BY <1>1, <1>3, <1>5, <1>7, <1>8, <2>1, Going
<1>10. Services'
  <2>1. service' \in [Http \cup Factory -> {"away", "here", "gone"}] /\ apps' = {f \in Factory : service'[f] # "away"}
    BY <1>1, <1>4 DEF VaadinInv, Services
  <2>2. DOMAIN https' \subseteq {h \in Http : service'[h] = "here"} /\ DOMAIN registered' = Http
    BY <1>1, <1>4, <1>5
  <2>3. \A h \in Http : h \notin DOMAIN https' => registered'[h] = Nothing
    BY <1>1, <1>4, <1>5 DEF VaadinInv, Services
  <2>q. QED BY <2>1, <2>2, <2>3 DEF Services
<1>11. Served'
  <2>1. \A f \in Factory : service'[f] = "here" => service[f] = "here"
    BY <1>1, <1>4
  <2>q. QED BY <1>1, <1>5, <2>1, StillServed
<1>q. QED BY <1>9, <1>10, <1>11 DEF VaadinInv

\* What is left of a map when one key is removed.
LEMMA Removed ==
    ASSUME NEW map, NEW a
    PROVE  /\ DOMAIN RemoveAll(map, {a}) = DOMAIN map \ {a}
           /\ \A k \in DOMAIN map : k # a => RemoveAll(map, {a})[k] = map[k]
BY DEF RemoveAll

\* A factory goes, and what stands under its alias is closed, up to an http service without it.
LEMMA RemoveApplicationNext ==
    ASSUME Registrations, VaadinInv, NEW f0 \in Factory, RemoveApplication(f0) PROVE VaadinInv'
<1>1. PICK reached :
          /\ reached \subseteq DOMAIN https /\ \A h \in reached : AliasOf[f0] \in DOMAIN registered[h]
          /\ registered' = [h \in Http |->
                 IF h \in reached THEN RemoveAll(registered[h], {AliasOf[f0]}) ELSE registered[h]]
          /\ https' = [h \in DOMAIN https |->
                 IF h \in reached THEN RemoveAll(https[h], {AliasOf[f0]}) ELSE https[h]]
          /\ closers' = closers \cup (IF reached = DOMAIN https
                                      THEN Closer({https[h][AliasOf[f0]] : h \in reached}) ELSE {})
  <2>1. IsFiniteSet(DOMAIN https)
    BY FS_Subset DEF Registrations, VaadinInv, Services
  <2>2. PICK order \in Orders(DOMAIN https) :
          LET Missing(h) == AliasOf[f0] \notin DOMAIN registered[h]
              reached == {order[i] : i \in {k \in DOMAIN order : \A j \in 1 .. k : ~ Missing(order[j])}}
          IN /\ registered' = [h \in Http |->
                    IF h \in reached THEN RemoveAll(registered[h], {AliasOf[f0]}) ELSE registered[h]]
             /\ https' = [h \in DOMAIN https |->
                    IF h \in reached THEN RemoveAll(https[h], {AliasOf[f0]}) ELSE https[h]]
             /\ closers' = closers \cup (IF reached = DOMAIN https
                                         THEN Closer({https[h][AliasOf[f0]] : h \in reached}) ELSE {})
    BY DEF RemoveApplication
  <2>3. PICK reached : reached = {order[i] : i \in {k \in DOMAIN order : \A j \in 1 .. k :
                                                       AliasOf[f0] \in DOMAIN registered[order[j]]}}
    OBVIOUS
  <2>0. PICK S : S = DOMAIN https
    OBVIOUS
  <2>4. PICK n \in Nat : DOMAIN order = 1 .. n /\ \A i \in 1 .. n : order[i] \in S
    <3>1. IsFiniteSet(S) /\ order \in Orders(S)
      BY <2>0, <2>1, <2>2
    <3>q. QED BY ONLY <3>1, Ordered
  <2>5. reached \subseteq DOMAIN https /\ \A h \in reached : AliasOf[f0] \in DOMAIN registered[h]
    BY ONLY <2>0, <2>3, <2>4
  <2>q. QED BY <2>2, <2>3, <2>5
<1>2. /\ service[f0] = "here" /\ service' = [service EXCEPT ![f0] = "gone"] /\ UNCHANGED <<apps, servlets>>
      /\ service \in [Http \cup Factory -> {"away", "here", "gone"}] /\ f0 \notin Http
      /\ apps = {f \in Factory : service[f] # "away"}
      /\ DOMAIN https \subseteq {h \in Http : service[h] = "here"} /\ DOMAIN registered = Http
      /\ \A h \in DOMAIN https : DOMAIN registered[h] \subseteq DOMAIN https[h]
  BY DEF RemoveApplication, VaadinInv, Services, Entries, Follows, Registrations
<1>3. PICK todo : todo = IF reached = DOMAIN https THEN {https[h][AliasOf[f0]] : h \in reached} ELSE {}
  OBVIOUS
<1>4. closers' = closers \cup Closer(todo)
  <2>1. Closer({}) = {}
    BY DEF Closer
  <2>q. QED BY <1>1, <1>3, <2>1
\* What is closed stood under this alias.
<1>5. /\ todo \subseteq DOMAIN servlets
      /\ \A s \in todo : \E h \in reached, g \in apps : s = <<h, g>> /\ AliasOf[g] = AliasOf[f0]
  <2>1. ASSUME NEW h \in reached
        PROVE  /\ https[h][AliasOf[f0]] \in DOMAIN servlets
               /\ \E g \in apps : https[h][AliasOf[f0]] = <<h, g>> /\ AliasOf[g] = AliasOf[f0]
    <3>1. Placed(h, https[h])
      BY <1>1 DEF VaadinInv, Entries
    <3>2. AliasOf[f0] \in DOMAIN https[h]
      BY <1>1, <1>2
    <3>q. QED BY ONLY <3>1, <3>2 DEF Placed
  <2>q. QED BY ONLY <1>3, <2>1
<1>6. /\ DOMAIN registered' = Http /\ DOMAIN https' = DOMAIN https
      /\ \A h \in Http : h \notin reached => registered'[h] = registered[h]
      /\ \A h \in DOMAIN https : h \notin reached => https'[h] = https[h]
      /\ \A h \in reached : /\ registered'[h] = RemoveAll(registered[h], {AliasOf[f0]})
                            /\ https'[h] = RemoveAll(https[h], {AliasOf[f0]})
                            /\ h \in Http
  BY <1>1, <1>2
<1>r. ASSUME NEW h \in reached
      PROVE  /\ DOMAIN registered'[h] = DOMAIN registered[h] \ {AliasOf[f0]}
             /\ DOMAIN https'[h] = DOMAIN https[h] \ {AliasOf[f0]}
             /\ \A a \in DOMAIN registered[h] : a # AliasOf[f0] => registered'[h][a] = registered[h][a]
             /\ \A a \in DOMAIN https[h] : a # AliasOf[f0] => https'[h][a] = https[h][a]
  <2>1. registered'[h] = RemoveAll(registered[h], {AliasOf[f0]}) /\ https'[h] = RemoveAll(https[h], {AliasOf[f0]})
    BY <1>6
  <2>2. /\ DOMAIN RemoveAll(registered[h], {AliasOf[f0]}) = DOMAIN registered[h] \ {AliasOf[f0]}
        /\ \A k \in DOMAIN registered[h] : k # AliasOf[f0] =>
               RemoveAll(registered[h], {AliasOf[f0]})[k] = registered[h][k]
    BY ONLY Removed
  <2>3. /\ DOMAIN RemoveAll(https[h], {AliasOf[f0]}) = DOMAIN https[h] \ {AliasOf[f0]}
        /\ \A k \in DOMAIN https[h] : k # AliasOf[f0] => RemoveAll(https[h], {AliasOf[f0]})[k] = https[h][k]
    BY ONLY Removed
  <2>q. QED BY ONLY <2>1, <2>2, <2>3
<1>7. ASSUME NEW h \in Http, NEW a \in DOMAIN registered'[h]
      PROVE  /\ a \in DOMAIN registered[h] /\ registered'[h][a] = registered[h][a] /\ registered[h][a] \notin todo
             /\ h \in reached => a # AliasOf[f0]
  <2>1. /\ a \in DOMAIN registered[h] /\ registered'[h][a] = registered[h][a]
        /\ h \in reached => a # AliasOf[f0]
    <3>1. CASE h \in reached
      BY ONLY <1>7, <1>r, <3>1
    <3>2. CASE h \notin reached
      BY <1>6, <1>7, <3>2
    <3>q. QED BY <3>1, <3>2
  <2>2. PICK f \in apps : AliasOf[f] = a /\ registered[h][a] = <<h, f>>
    <3>1. Placed(h, registered[h])
      BY DEF VaadinInv, Entries
    <3>q. QED BY ONLY <2>1, <3>1 DEF Placed
  <2>q. QED BY ONLY <1>5, <2>1, <2>2
<1>8. ASSUME NEW h \in DOMAIN https'
      PROVE  /\ DOMAIN registered'[h] \subseteq DOMAIN https'[h]
             /\ \A a \in DOMAIN https'[h] : a \in DOMAIN registered[h] => a \in DOMAIN registered'[h]
             /\ \A a \in DOMAIN https'[h] : a \in DOMAIN https[h] /\ https'[h][a] = https[h][a]
  <2>1. h \in Http /\ h \in DOMAIN https /\ DOMAIN registered[h] \subseteq DOMAIN https[h]
    BY <1>2, <1>6
  <2>2. CASE h \in reached
    BY ONLY <1>r, <2>1, <2>2
  <2>3. CASE h \notin reached
    BY <1>6, <2>1, <2>3
  <2>q. QED BY <2>2, <2>3
<1>9. Entries' /\ Made' /\ Closings' /\ OpenWhileServed' /\ Instances'
  <2>1. f0 \in Http \cup Factory /\ todo \in SUBSET DOMAIN servlets /\ DOMAIN https' \subseteq DOMAIN https
    BY <1>5, <1>6
  <2>2. DOMAIN registered' = Http
    BY <1>6
  <2>3. \A h \in Http : \A a \in DOMAIN registered'[h] :
            a \in DOMAIN registered[h] /\ registered'[h][a] = registered[h][a] /\ registered[h][a] \notin todo
    BY ONLY <1>7
  <2>4. \A h \in DOMAIN https' :
            /\ DOMAIN registered'[h] \subseteq DOMAIN https'[h]
            /\ \A a \in DOMAIN https'[h] : a \in DOMAIN registered[h] => a \in DOMAIN registered'[h]
            /\ \A a \in DOMAIN https'[h] : a \in DOMAIN https[h] /\ https'[h][a] = https[h][a]
    BY ONLY <1>8
  <2>q. QED BY ONLY Registrations, VaadinInv, <1>2, <1>4, <2>1, <2>2, <2>3, <2>4, Going
<1>10. Services'
  <2>1. service' \in [Http \cup Factory -> {"away", "here", "gone"}] /\ apps' = {f \in Factory : service'[f] # "away"}
    BY <1>2
  <2>2. DOMAIN https' \subseteq {h \in Http : service'[h] = "here"} /\ DOMAIN registered' = Http
    BY <1>2, <1>6
  <2>3. \A h \in Http : h \notin DOMAIN https' => registered'[h] = Nothing
    BY <1>1, <1>2, <1>6 DEF VaadinInv, Services
  <2>q. QED BY <2>1, <2>2, <2>3 DEF Services
\* What else of this alias stood where it went had an excuse.
<1>11. Served'
  <2> SUFFICES ASSUME NEW h \in DOMAIN https, NEW f \in Factory, service'[f] = "here"
               PROVE  \/ AliasOf[f] \in DOMAIN registered'[h] /\ registered'[h][AliasOf[f]] = <<h, f>>
                      \/ Excused(h, AliasOf[f])
    BY <1>2, <1>6 DEF Served, Here, Excused
  <2>1. f # f0 /\ service[f] = "here" /\ h \in Http
    BY <1>2
  <2>2. \A g \in Factory : service[g] = "here" =>
            (AliasOf[g] \in DOMAIN registered[h] /\ registered[h][AliasOf[g]] = <<h, g>>) \/ Excused(h, AliasOf[g])
    BY DEF VaadinInv, Served, Here
  <2>3. CASE AliasOf[f] # AliasOf[f0]
    <3>1. CASE h \in reached
      BY ONLY <1>r, <2>1, <2>2, <2>3, <3>1, f \in Factory
    <3>2. CASE h \notin reached
      BY <1>6, <2>1, <2>2, <3>2
    <3>q. QED BY <3>1, <3>2
  <2>4. CASE AliasOf[f] = AliasOf[f0]
    <3>1. <<h, f>> # <<h, f0>>
      BY <2>1
    <3>2. CASE Excused(h, AliasOf[f])
      BY <3>2
    <3>3. CASE ~ Excused(h, AliasOf[f])
      BY <1>2, <2>1, <2>2, <2>4, <3>1, <3>3
    <3>q. QED BY <3>2, <3>3
  <2>q. QED BY <2>3, <2>4
<1>q. QED BY <1>9, <1>10, <1>11 DEF VaadinInv

\* An http service that could not be configured is not in the maps.
LEMMA ConfigureThrowsNext ==
    ASSUME Registrations, VaadinInv, NEW h0 \in Http, ConfigureThrows(h0) PROVE VaadinInv'
<1>1. /\ service[h0] = "away" /\ service' = [service EXCEPT ![h0] = "here"] /\ h0 \notin Factory
      /\ UNCHANGED <<https, apps, registered, servlets, closers>>
      /\ service \in [Http \cup Factory -> {"away", "here", "gone"}]
  BY DEF ConfigureThrows, VaadinInv, Services, Registrations
<1>2. /\ \A f \in Factory : service'[f] = service[f]
      /\ \A x \in Http \cup Factory : service[x] \in {"here", "gone"} => service'[x] = service[x]
      /\ service' \in [Http \cup Factory -> {"away", "here", "gone"}]
  BY <1>1
<1>3. Services'
  BY <1>1, <1>2 DEF VaadinInv, Services
<1>4. Entries'
  <2>1. \A h \in Http : Placed(h, registered[h])' = Placed(h, registered[h])
    BY <1>1 DEF Placed
  <2>2. \A h \in DOMAIN https : /\ Placed(h, https[h])' = Placed(h, https[h])
                               /\ Follows(h, https[h])' = Follows(h, https[h])
    BY <1>1 DEF Placed, Follows
  <2>q. QED BY <1>1, <2>1, <2>2 DEF VaadinInv, Entries
<1>5. Made' /\ Closings' /\ OpenWhileServed' /\ Instances'
  <2>1. \A x \in Http \cup Factory : service[x] # "away" => service'[x] # "away"
    BY <1>1
  <2>q. QED BY <1>1, <2>1 DEF VaadinInv, Made, Closings, OpenWhileServed, Instances
<1>6. Served'
  BY <1>1, <1>2, StillServed
<1>q. QED BY <1>3, <1>4, <1>5, <1>6 DEF VaadinInv

\* Every step keeps the invariant.
LEMMA VaadinInvNext == Registrations /\ VaadinInv /\ [VaadinNext]_vaadinVars => VaadinInv'
<1> SUFFICES ASSUME Registrations, VaadinInv, [VaadinNext]_vaadinVars PROVE VaadinInv'
  OBVIOUS
<1>1. ASSUME NEW h \in Http, SetHttp(h) PROVE VaadinInv'
  BY <1>1, SetHttpNext
<1>2. ASSUME NEW h \in Http, UnsetHttp(h) PROVE VaadinInv'
  BY <1>2, UnsetHttpNext
<1>3. ASSUME NEW f \in Factory, AddApplication(f) PROVE VaadinInv'
  BY <1>3, AddApplicationNext
<1>4. ASSUME NEW f \in Factory, RemoveApplication(f) PROVE VaadinInv'
  BY <1>4, RemoveApplicationNext
<1>5. CASE \/ \E s \in DOMAIN servlets : GetNewApplication(s) \/ PutInstance(s) \/ MakeThrows(s)
           \/ \E c \in closers : Close(c) \/ Dispose(c) \/ CloseThrows(c) \/ Clear(c)
  BY <1>5, ServletNext
<1>6. ASSUME NEW h \in Http, ConfigureThrows(h) PROVE VaadinInv'
  BY <1>6, ConfigureThrowsNext
<1>7. CASE UNCHANGED vaadinVars
  <2>1. Services' /\ Made' /\ Closings' /\ OpenWhileServed' /\ Instances'
    BY <1>7 DEF vaadinVars, VaadinInv, Services, Made, Closings, OpenWhileServed, Instances
  <2>3. Served'
    BY <1>7, StillServed DEF vaadinVars
  <2>2. Entries'
    <3>1. \A h \in Http : Placed(h, registered[h])' = Placed(h, registered[h])
      BY <1>7 DEF vaadinVars, Placed
    <3>2. \A h \in DOMAIN https : /\ Placed(h, https[h])' = Placed(h, https[h])
                                 /\ Follows(h, https[h])' = Follows(h, https[h])
      BY <1>7 DEF vaadinVars, Placed, Follows
    <3>q. QED BY <1>7, <3>1, <3>2 DEF vaadinVars, VaadinInv, Entries
  <2>q. QED BY <2>1, <2>2, <2>3 DEF VaadinInv
<1>q. QED BY <1>1, <1>2, <1>3, <1>4, <1>5, <1>6, <1>7 DEF VaadinNext

------------------------------------------------------------------------------

\* The parts of ServicesHold, of any step.
LEMMA VaadinInvHolds == VaadinInv => ServicesHold
<1> SUFFICES ASSUME VaadinInv PROVE ServicesHold
  OBVIOUS
<1>3. Shadowed
  BY DEF Shadowed, VaadinInv, Services, Entries, Follows, Here
<1>5. Disposed
  <2> SUFFICES ASSUME NEW s \in DOMAIN servlets
               PROVE  /\ \A n \in DOMAIN servlets[s].disposed : servlets[s].disposed[n] <= 1
                      /\ servlets[s].ended => \A n \in servlets[s].early : servlets[s].disposed[n] = 1
    BY DEF Disposed
  <2>1. PICK r : r = servlets[s]
    OBVIOUS
  <2>2. Accounted(r)
    BY <2>1 DEF VaadinInv, Instances
  <2>3. DOMAIN r.disposed = 1 .. r.made
    BY ONLY <2>2 DEF Accounted
  <2>q. QED BY ONLY <2>1, <2>2, <2>3 DEF Accounted
<1>q. QED BY <1>3, <1>5 DEF ServicesHold, VaadinInv

\* For any services and aliases, and whatever registerServlet throws: the shadow registry has
\* what each http service has, and besides only servlets that could not be registered; every
\* factory is served by every service, unless a registration has thrown with this service or
\* for this alias; no servlet is closed while it is served; and a servlet that ended has
\* disposed its instances.
THEOREM ServicesStayInStep == ASSUME Registrations PROVE VaadinSpec => []ServicesHold
<1>1. VaadinInit => VaadinInv
  BY VaadinInvInit
<1>2. VaadinInv /\ [VaadinNext]_vaadinVars => VaadinInv'
  BY VaadinInvNext
<1>3. VaadinInv => ServicesHold
  BY VaadinInvHolds
<1>q. QED BY <1>1, <1>2, <1>3, PTL DEF VaadinSpec
=============================================================================
