------------------------- MODULE QueryHandlerProofs -------------------------
(***************************************************************************)
(* Ids, addresses and names of QueryHandler, for any number of goroutines  *)
(* and any names.  Messages are shared, so that an answer is right cannot  *)
(* be said of the goroutine that holds it alone: what every step preserves *)
(* is that each message that is cached or held, under any name, is one of  *)
(* that name or of the CNAME behind it (Addressed).  Renaming touches only *)
(* the question and the owner of a body, and a new message only bodies     *)
(* that nobody can reach.  The last part is about names: who may rename    *)
(* what somebody else holds.                                               *)
(***************************************************************************)
EXTENDS QueryHandler, TLAPS

(* What a goroutine holds in which control state.                          *)
Holding == {"given", "ns", "cname", "direct", "keep", "question", "owner", "reply", "store"}
Control ==
    \A g \in Goroutines :
        /\ pc[g] # "idle" => query[g] # NoQuery
        /\ pc[g] \in Holding =>
              /\ answer[g] # NoMessage
              /\ query[g].name \notin Unique => answer[g].id = query[g].id
        /\ pc[g] \notin Holding => answer[g] = NoMessage
        /\ reply[g] # NoReply =>
              /\ pc[g] = "store"
              /\ query[g].name \notin Unique => reply[g].id = query[g].id

(* The name that the message a goroutine holds is of.                      *)
Subject(g) == IF pc[g] = "keep" THEN CName(g) ELSE Name(g)

Addressed ==
    /\ \A n \in Names : cache[n] # NoMessage => bodies[cache[n].body].data \in AddressesOf(n)
    /\ \A g \in Goroutines :
          answer[g] # NoMessage => bodies[answer[g].body].data \in AddressesOf(Subject(g))

IInv == TypeOK /\ Control /\ Addressed /\ RightAddresses

-----------------------------------------------------------------------------
(* The records of the model.                                               *)

LEMMA SentinelsDiffer ==
  /\ NoMessage \notin Messages
  /\ NoQuery \notin [name : Asked, id : Ids]
  /\ NoReply \notin [id : Ids, contents : Contents]
BY NamesAssumption, IdsAssumption DEF NoMessage, Messages, Bodies, NoQuery, NoReply

LEMMA RepliesTyped ==
  ASSUME NEW n \in Names
  PROVE  Reply(n) \in Contents /\ EmptyReply(n) \in Contents
BY DEF Reply, EmptyReply, Contents

LEMMA BlankTyped == Blank \in Contents
BY NamesAssumption, RepliesTyped DEF Blank

LEMMA TargetsAreNames ==
  ASSUME NEW n \in Names
  PROVE  Target[n] \in Names /\ AddressesOf(Target[n]) \subseteq AddressesOf(n)
BY TargetAssumption DEF AddressesOf

(* Wherever a goroutine is past Receive, its query is one.                 *)
LEMMA QueriesTyped ==
  ASSUME TypeOK, Control, NEW g \in Goroutines, pc[g] # "idle"
  PROVE  /\ query[g] \in [name : Asked, id : Ids]
         /\ Name(g) \in Names /\ CName(g) \in Names
         /\ \A b \in Bodies : WithId(g, b) \in Messages /\ WithId(g, b) # NoMessage
<1>1. query[g] \in [name : Asked, id : Ids]
  BY DEF TypeOK, Control
<1>2. Name(g) \in Names
  BY <1>1, NamesAssumption DEF Name
<1>3. ASSUME NEW b \in Bodies
      PROVE  WithId(g, b) \in Messages
  BY <1>1 DEF WithId, Messages
<1> QED
  BY <1>1, <1>2, <1>3, TargetsAreNames, SentinelsDiffer DEF CName

(* ... and a message with the id of its answer is one.                     *)
LEMMA SameIdsTyped ==
  ASSUME TypeOK, Control, NEW g \in Goroutines, pc[g] \in Holding
  PROVE  \A b \in Bodies : /\ SameId(g, b) \in Messages /\ SameId(g, b) # NoMessage
                          /\ SameId(g, b).id = answer[g].id /\ SameId(g, b).body = b
BY SentinelsDiffer DEF TypeOK, Control, SameId, Messages

LEMMA AnswersAddressed ==
  ASSUME TypeOK, Control, Addressed, NEW g \in Goroutines, answer[g] # NoMessage
  PROVE  bodies[answer[g].body].data \in AddressesOf(Name(g))
<1>1. pc[g] # "idle"
  BY DEF Control, Holding
<1>2. AddressesOf(CName(g)) \subseteq AddressesOf(Name(g))
  BY <1>1, QueriesTyped, TargetsAreNames DEF CName
<1> QED
  BY <1>2 DEF Addressed, Subject

LEMMA OthersKeepTheirSubject ==
  ASSUME TypeOK, NEW g \in Goroutines, NEW label, Goto(g, label),
         \A h \in Goroutines \ {g} : query'[h] = query[h]
  PROVE  \A h \in Goroutines \ {g} : Subject(h)' = Subject(h)
BY DEF TypeOK, Goto, Subject, CName, Name

-----------------------------------------------------------------------------
(* Bodies.                                                                 *)

(* What somebody can reach survives collection.                            *)
LEMMA CollectedKeepsReachable ==
  ASSUME NEW contents \in [Bodies -> Contents], bodies' = Collected(contents)
  PROVE  /\ bodies' \in [Bodies -> Contents]
         /\ \A g \in Goroutines :
               answer'[g].body \in Bodies =>
                 bodies'[answer'[g].body] = contents[answer'[g].body]
         /\ \A n \in Names :
               cache'[n].body \in Bodies =>
                 bodies'[cache'[n].body] = contents[cache'[n].body]
BY BlankTyped DEF Collected, Unreachable

(* A new message holds what it was made with, and no other loses anything. *)
LEMMA NewMessageDisturbsNobody ==
  ASSUME TypeOK, Control, Addressed,
         NEW g \in Goroutines, NEW b \in Bodies, NEW c \in Contents, NEW m \in Messages,
         Free(b), m.body = b, SetAnswer(g, m),
         bodies' = Collected([bodies EXCEPT ![b] = c]),
         \A h \in Goroutines \ {g} : Subject(h)' = Subject(h),
         c.data \in AddressesOf(Subject(g)'),
         \A n \in Names : cache'[n] = cache[n] \/ (cache'[n] = m /\ c.data \in AddressesOf(n))
  PROVE  Addressed' /\ bodies' \in [Bodies -> Contents]
<1> DEFINE contents == [bodies EXCEPT ![b] = c]
<1>1. contents \in [Bodies -> Contents] /\ contents[b] = c
  BY DEF TypeOK
<1>2. \A x \in Bodies \ {b} : contents[x] = bodies[x]
  BY DEF TypeOK
<1> HIDE DEF contents
<1>3. bodies' = Collected(contents)
  BY DEF contents
<1>4. ASSUME NEW n \in Names, cache'[n] # NoMessage
      PROVE  bodies'[cache'[n].body].data \in AddressesOf(n)
  <2>1. CASE cache'[n] = cache[n]
    <3>1. cache'[n].body \in Bodies \ {b}
      BY <1>4, <2>1 DEF TypeOK, Messages, Free, Unreachable
    <3> QED
      BY <1>1, <1>2, <1>3, <1>4, <2>1, <3>1, CollectedKeepsReachable DEF Addressed
  <2>2. CASE cache'[n] = m /\ c.data \in AddressesOf(n)
    BY <1>1, <1>3, <2>2, CollectedKeepsReachable
  <2> QED
    BY <2>1, <2>2
<1>5. ASSUME NEW h \in Goroutines, answer'[h] # NoMessage
      PROVE  bodies'[answer'[h].body].data \in AddressesOf(Subject(h)')
  <2>1. CASE h = g
    <3>1. answer'[h].body = b
      BY <2>1 DEF TypeOK, SetAnswer
    <3> QED
      BY <1>1, <1>3, <2>1, <3>1, CollectedKeepsReachable
  <2>2. CASE h # g
    <3>1. answer'[h] = answer[h] /\ Subject(h)' = Subject(h)
      BY <2>2 DEF TypeOK, SetAnswer
    <3>2. answer'[h].body \in Bodies \ {b}
      BY <1>5, <3>1 DEF TypeOK, Messages, Free, Unreachable
    <3> QED
      BY <1>1, <1>2, <1>3, <1>5, <3>1, <3>2, CollectedKeepsReachable DEF Addressed
  <2> QED
    BY <2>1, <2>2
<1> QED
  BY <1>1, <1>3, <1>4, <1>5, CollectedKeepsReachable DEF Addressed, AddressesOf

(* When messages are only dropped or shared, the others stay as they are.  *)
LEMMA DroppingDisturbsNobody ==
  ASSUME TypeOK, Control, Addressed,
         NEW g \in Goroutines, NEW m \in Messages \cup {NoMessage},
         SetAnswer(g, m), bodies' = Collected(bodies),
         \A h \in Goroutines \ {g} : Subject(h)' = Subject(h),
         m # NoMessage => bodies[m.body].data \in AddressesOf(Subject(g)'),
         \A n \in Names :
            cache'[n] = cache[n]
            \/ (cache'[n] \in Messages /\ bodies[cache'[n].body].data \in AddressesOf(n))
  PROVE  Addressed' /\ bodies' \in [Bodies -> Contents]
<1>1. bodies \in [Bodies -> Contents]
  BY DEF TypeOK
<1>2. ASSUME NEW n \in Names, cache'[n] # NoMessage
      PROVE  bodies'[cache'[n].body].data \in AddressesOf(n)
  <2>1. cache'[n].body \in Bodies /\ bodies[cache'[n].body].data \in AddressesOf(n)
    BY <1>2 DEF TypeOK, Messages, Addressed
  <2> QED
    BY <1>1, <2>1, CollectedKeepsReachable
<1>3. ASSUME NEW h \in Goroutines, answer'[h] # NoMessage
      PROVE  bodies'[answer'[h].body].data \in AddressesOf(Subject(h)')
  <2>1. answer'[h].body \in Bodies /\ bodies[answer'[h].body].data \in AddressesOf(Subject(h)')
    BY <1>3 DEF TypeOK, Messages, Addressed, SetAnswer
  <2> QED
    BY <1>1, <2>1, CollectedKeepsReachable
<1> QED
  BY <1>1, <1>2, <1>3, CollectedKeepsReachable DEF Addressed, AddressesOf

-----------------------------------------------------------------------------
(* One step.                                                               *)

LEMMA InitEstablishesIInv == Init => IInv
BY BlankTyped, SentinelsDiffer DEF Init, IInv, TypeOK, Control, Holding, Addressed, RightAddresses

(* The steps that leave the answer, the cache and the bodies alone.        *)
LEMMA ControlStepsKeepIInv ==
  ASSUME IInv, NEW g \in Goroutines,
         NotInHosts(g) \/ Miss(g) \/ LookupFails(g) \/ DirectFails(g) \/ NSAnswers(g)
         \/ CNameMiss(g)
  PROVE  IInv'
<1> USE DEF IInv, Goto
<1>1. TypeOK' /\ Control'
  <2>1. CASE NotInHosts(g)
    <3>1. PICK q \in [name : Asked, id : Ids] :
             pc[g] = "idle" /\ query' = [query EXCEPT ![g] = q] /\ q # NoQuery
      <4>1. PICK n \in Asked, i \in Ids : Receives(g, n, i)
        BY <2>1 DEF NotInHosts
      <4> DEFINE q == [name |-> n, id |-> i]
      <4>2. q \in [name : Asked, id : Ids] /\ q # NoQuery
        BY SentinelsDiffer
      <4>3. pc[g] = "idle" /\ query' = [query EXCEPT ![g] = q]
        BY <4>1 DEF Receives
      <4> QED
        BY <4>2, <4>3
    <3>2. PICK label \in {"cache", "lookup"} : pc' = [pc EXCEPT ![g] = label]
      BY <2>1 DEF NotInHosts
    <3>3. UNCHANGED <<settings, cache, bodies, answer, reply>>
      BY <2>1 DEF NotInHosts
    <3> QED
      BY <3>1, <3>2, <3>3 DEF TypeOK, Control, Holding
  <2>2. CASE Miss(g)
    BY <2>2 DEF Miss, TypeOK, Control, Holding
  <2>3. CASE LookupFails(g)
    BY <2>3 DEF LookupFails, TypeOK, Control, Holding
  <2>4. CASE DirectFails(g)
    BY <2>4 DEF DirectFails, TypeOK, Control, Holding
  <2>5. CASE NSAnswers(g)
    BY <2>5 DEF NSAnswers, TypeOK, Control, Holding
  <2>6. CASE CNameMiss(g)
    BY <2>6 DEF CNameMiss, TypeOK, Control, Holding
  <2> QED
    BY <2>1, <2>2, <2>3, <2>4, <2>5, <2>6
<1>2. /\ UNCHANGED <<cache, bodies, answer, reply>>
      /\ \A h \in Goroutines :
            answer[h] # NoMessage \/ reply[h] # NoReply => query'[h] = query[h]
  <2>1. CASE NotInHosts(g)
    BY <2>1 DEF NotInHosts, Receives, TypeOK, Control, Holding
  <2>2. CASE ~NotInHosts(g)
    BY <2>2 DEF Miss, LookupFails, DirectFails, NSAnswers, CNameMiss
  <2> QED
    BY <2>1, <2>2
<1>3. \A h \in Goroutines : answer[h] # NoMessage => Subject(h)' \in {Subject(h), Name(h)}
  BY <1>2 DEF NotInHosts, Miss, LookupFails, DirectFails, NSAnswers, CNameMiss, TypeOK, Control,
     Holding, Subject, CName, Name
<1>4. Addressed'
  BY <1>2, <1>3, AnswersAddressed DEF Addressed, AddressesOf
<1>5. RightAddresses'
  BY <1>2 DEF RightAddresses, AddressesOf, Name
<1> QED
  BY <1>1, <1>4, <1>5

(* The goroutine gets an answer, with the id of its query unless that is   *)
(* for a unique website.                                                   *)
LEMMA GettingAnAnswer ==
  ASSUME IInv, NEW g \in Goroutines, NEW m \in Messages, NEW label \in Holding \ {"store"},
         pc[g] # "store", SetAnswer(g, m), Goto(g, label), UNCHANGED <<settings, reply>>,
         query'[g] \in [name : Asked, id : Ids],
         query'[g].name \notin Unique => m.id = query'[g].id,
         query' = [query EXCEPT ![g] = query'[g]],
         cache' \in [Names -> Messages \cup {NoMessage}],
         bodies' \in [Bodies -> Contents]
  PROVE  TypeOK' /\ Control' /\ RightAddresses'
<1> USE DEF IInv
<1>1. TypeOK'
  BY DEF TypeOK, SetAnswer, Goto, Holding
<1>2. Control'
  BY SentinelsDiffer DEF TypeOK, Control, SetAnswer, Goto, Holding
<1>3. \A h \in Goroutines : reply[h] # NoReply => query'[h] = query[h]
  BY DEF TypeOK, Control
<1>4. RightAddresses'
  BY <1>3 DEF RightAddresses, AddressesOf, Name
<1> QED
  BY <1>1, <1>2, <1>4

(* A new message for the name of the query or for its CNAME.               *)
LEMMA NewAnswerKeepsIInv ==
  ASSUME IInv, NEW g \in Goroutines, NEW m \in Messages, NEW c \in Contents,
         NEW label \in Holding \ {"store"},
         pc[g] \notin {"idle", "store"}, NewAnswer(g, m, c), Goto(g, label),
         UNCHANGED <<settings, cache, query, reply>>,
         Name(g) \notin Unique => m.id = query[g].id,
         c.data \in AddressesOf(IF label = "keep" THEN CName(g) ELSE Name(g))
  PROVE  IInv'
<1> USE DEF IInv
<1>1. m.body \in Bodies /\ query[g] \in [name : Asked, id : Ids]
  BY QueriesTyped DEF Messages
<1>2. Free(m.body) /\ SetAnswer(g, m) /\ bodies' = Collected([bodies EXCEPT ![m.body] = c])
  BY DEF NewAnswer
<1>3. c.data \in AddressesOf(Subject(g)') /\ query' = query /\ cache' = cache
  BY DEF TypeOK, Goto, Subject, CName, Name
<1>4. Addressed' /\ bodies' \in [Bodies -> Contents]
  BY <1>1, <1>2, <1>3, OthersKeepTheirSubject, NewMessageDisturbsNobody
<1>5. query' = [query EXCEPT ![g] = query'[g]]
  BY <1>3 DEF TypeOK
<1>6. query'[g].name \notin Unique => m.id = query'[g].id
  BY <1>3 DEF Name
<1>7. cache' \in [Names -> Messages \cup {NoMessage}]
  BY <1>3 DEF TypeOK
<1>8. TypeOK' /\ Control' /\ RightAddresses'
  BY <1>1, <1>2, <1>3, <1>4, <1>5, <1>6, <1>7, GettingAnAnswer
<1> QED
  BY <1>4, <1>8

LEMMA HostsAnswerKeepsIInv ==
  ASSUME IInv, NEW g \in Goroutines, HostsAnswer(g)
  PROVE  IInv'
<1> USE DEF IInv
<1>1. PICK n \in Asked, i \in Ids, b \in Bodies :
         Receives(g, n, i) /\ NewAnswer(g, [id |-> i, body |-> b], Reply(n))
  BY DEF HostsAnswer
<1> DEFINE m == [id |-> i, body |-> b]
           q == [name |-> n, id |-> i]
<1>2. /\ m \in Messages /\ m.body = b /\ m.id = i
      /\ q \in [name : Asked, id : Ids] /\ q.name = n /\ q.id = i
      /\ n \in Names /\ Reply(n) \in Contents /\ Reply(n).data \in AddressesOf(n)
  BY NamesAssumption, RepliesTyped DEF Messages, Reply, AddressesOf
<1>3. /\ pc[g] = "idle" /\ query' = [query EXCEPT ![g] = q]
      /\ Free(m.body) /\ SetAnswer(g, m)
      /\ bodies' = Collected([bodies EXCEPT ![m.body] = Reply(n)])
  BY <1>1 DEF Receives, NewAnswer
<1> HIDE DEF m, q
<1>4. query'[g] = q /\ \A h \in Goroutines \ {g} : query'[h] = query[h]
  BY <1>3 DEF TypeOK
<1>5. Goto(g, "reply") /\ UNCHANGED <<settings, cache, reply>>
  BY DEF HostsAnswer
<1>6. Reply(n).data \in AddressesOf(Subject(g)')
  BY <1>2, <1>4, <1>5 DEF TypeOK, Goto, Subject, Name
<1>7. Addressed' /\ bodies' \in [Bodies -> Contents]
  BY <1>2, <1>3, <1>4, <1>5, <1>6, OthersKeepTheirSubject, NewMessageDisturbsNobody
<1>8. TypeOK' /\ Control' /\ RightAddresses'
  <2>1. "reply" \in Holding \ {"store"} /\ cache' \in [Names -> Messages \cup {NoMessage}]
    BY <1>5 DEF Holding, TypeOK
  <2>2. query' = [query EXCEPT ![g] = query'[g]] /\ pc[g] # "store"
    BY <1>3, <1>4
  <2> QED
    BY <1>2, <1>3, <1>4, <1>5, <1>7, <2>1, <2>2, GettingAnAnswer
<1> QED
  BY <1>7, <1>8

(* Upstream answers, for the name of the query or for its CNAME.           *)
LEMMA UpstreamAnswersKeepIInv ==
  ASSUME IInv, NEW g \in Goroutines,
         LookupFindsNothing(g) \/ LookupAnswers(g) \/ GivenAnswers(g) \/ DirectAnswers(g)
  PROVE  IInv'
<1> USE DEF IInv
<1>1. pc[g] \notin {"idle", "store"} /\ UNCHANGED <<settings, cache, query, reply>>
  BY DEF LookupFindsNothing, LookupAnswers, GivenAnswers, DirectAnswers
<1>2. Name(g) \in Names /\ CName(g) \in Names
  BY <1>1, QueriesTyped
<1>3. PICK label \in {"given", "ns", "question", "keep", "reply"} : Goto(g, label)
  BY DEF LookupFindsNothing, LookupAnswers, GivenAnswers, DirectAnswers
<1>4. label \in Holding \ {"store"}
  BY DEF Holding
<1>5. PICK m \in Messages, c \in Contents :
         /\ NewAnswer(g, m, c)
         /\ Name(g) \notin Unique => m.id = query[g].id
         /\ c.data \in AddressesOf(IF label = "keep" THEN CName(g) ELSE Name(g))
  <2>1. \A i \in LookupIds(g), b \in Bodies :
           /\ [id |-> i, body |-> b] \in Messages
           /\ Name(g) \notin Unique => [id |-> i, body |-> b].id = query[g].id
    BY <1>1, QueriesTyped DEF LookupIds, Messages
  <2>2. \A c \in DirectReplies(g) :
           c \in Contents /\ c.data \in AddressesOf(Name(g)) /\ c.data \in AddressesOf(CName(g))
    <3>1. Reply(CName(g)).data = CName(g) /\ EmptyReply(CName(g)).data = None
      BY DEF Reply, EmptyReply
    <3>2. Reply(CName(g)) \in Contents /\ EmptyReply(CName(g)) \in Contents
      BY <1>2, RepliesTyped
    <3> QED
      BY <3>1, <3>2 DEF DirectReplies, AddressesOf, CName
  <2>3. CASE LookupFindsNothing(g)
    <3>1. EmptyReply(Name(g)) \in Contents /\ EmptyReply(Name(g)).data \in AddressesOf(Name(g))
      BY <1>2, RepliesTyped DEF EmptyReply, AddressesOf
    <3>2. PICK i \in LookupIds(g), b \in Bodies :
             NewAnswer(g, [id |-> i, body |-> b], EmptyReply(Name(g)))
      BY <2>3 DEF LookupFindsNothing
    <3>3. label # "keep"
      BY <1>3, <2>3 DEF LookupFindsNothing, Goto, TypeOK
    <3> QED
      BY <2>1, <3>1, <3>2, <3>3
  <2>4. CASE LookupAnswers(g)
    <3> DEFINE c == [question |-> Name(g), owner |-> Name(g), data |-> CName(g)]
    <3>1. c \in Contents /\ c.data \in AddressesOf(Name(g))
      BY <1>2 DEF Contents, AddressesOf, CName
    <3>2. PICK i \in LookupIds(g), b \in Bodies : NewAnswer(g, [id |-> i, body |-> b], c)
      BY <2>4 DEF LookupAnswers
    <3>3. label # "keep"
      BY <1>3, <2>4 DEF LookupAnswers, Goto, TypeOK
    <3> HIDE DEF c
    <3> QED
      BY <2>1, <3>1, <3>2, <3>3
  <2>5. CASE GivenAnswers(g)
    <3>1. PICK b \in Bodies, c \in DirectReplies(g) : NewAnswer(g, WithId(g, b), c)
      BY <2>5 DEF GivenAnswers
    <3>2. WithId(g, b) \in Messages /\ WithId(g, b).id = query[g].id
      BY <1>1, QueriesTyped DEF WithId
    <3> QED
      BY <2>2, <3>1, <3>2
  <2>6. CASE DirectAnswers(g)
    <3>1. PICK b \in Bodies, c \in DirectReplies(g) : NewAnswer(g, SameId(g, b), c)
      BY <2>6 DEF DirectAnswers
    <3>2. SameId(g, b) \in Messages /\ SameId(g, b).id = answer[g].id
      BY <2>6, SameIdsTyped DEF DirectAnswers, Holding
    <3>3. Name(g) \notin Unique => answer[g].id = query[g].id
      BY <2>6 DEF DirectAnswers, Control, Holding, Name
    <3> QED
      BY <2>2, <3>1, <3>2, <3>3
  <2> QED
    BY <2>3, <2>4, <2>5, <2>6
<1> QED
  BY <1>1, <1>3, <1>4, <1>5, NewAnswerKeepsIInv

(* A cached message becomes the answer.                                    *)
LEMMA HitsKeepIInv ==
  ASSUME IInv, NEW g \in Goroutines, Hit(g) \/ CNameHit(g)
  PROVE  IInv'
<1> USE DEF IInv
<1>1. PICK n \in {Name(g), CName(g)}, label \in {"reply", "question"} :
         /\ cache[n] # NoMessage /\ Goto(g, label)
         /\ \/ pc[g] = "cache" /\ SetAnswer(g, WithId(g, cache[n].body))
            \/ pc[g] = "cname" /\ SetAnswer(g, SameId(g, cache[n].body))
  BY DEF Hit, CNameHit
<1>2. pc[g] \in {"cache", "cname"} /\ UNCHANGED <<settings, cache, query, reply>>
      /\ bodies' \in {bodies, Collected(bodies)}
  BY DEF Hit, CNameHit
<1>3. /\ query[g] \in [name : Asked, id : Ids]
      /\ n \in Names /\ AddressesOf(n) \subseteq AddressesOf(Name(g))
  BY <1>1, <1>2, QueriesTyped, TargetsAreNames DEF CName
<1>4. cache[n].body \in Bodies /\ bodies[cache[n].body].data \in AddressesOf(Name(g))
  BY <1>1, <1>3 DEF TypeOK, Messages, Addressed
<1>5. PICK m \in Messages :
         /\ m # NoMessage /\ m.body = cache[n].body /\ SetAnswer(g, m)
         /\ Name(g) \notin Unique => m.id = query[g].id
  <2>1. CASE pc[g] = "cache"
    <3> DEFINE m == WithId(g, cache[n].body)
    <3>1. m \in Messages /\ m # NoMessage /\ m.body = cache[n].body /\ m.id = query[g].id
      BY <1>4, <2>1, QueriesTyped DEF WithId
    <3>2. SetAnswer(g, m)
      BY <1>1, <2>1
    <3> HIDE DEF m
    <3> QED
      BY <3>1, <3>2
  <2>2. CASE pc[g] = "cname"
    <3> DEFINE m == SameId(g, cache[n].body)
    <3>1. m \in Messages /\ m # NoMessage /\ m.body = cache[n].body /\ m.id = answer[g].id
      BY <1>4, <2>2, SameIdsTyped DEF Holding
    <3>2. SetAnswer(g, m)
      BY <1>1, <2>2
    <3>3. Name(g) \notin Unique => answer[g].id = query[g].id
      BY <2>2 DEF Control, Holding, Name
    <3> HIDE DEF m
    <3> QED
      BY <3>1, <3>2, <3>3
  <2> QED
    BY <1>2, <2>1, <2>2
<1>6. Addressed' /\ bodies' \in [Bodies -> Contents]
  <2>1. /\ Subject(g)' = Name(g)
        /\ \A h \in Goroutines \ {g} : Subject(h)' = Subject(h)
    BY <1>1, <1>2, OthersKeepTheirSubject DEF TypeOK, Goto, Subject, CName, Name
  <2>2. CASE bodies' = Collected(bodies)
    BY <1>2, <1>4, <1>5, <2>1, <2>2, DroppingDisturbsNobody
  <2>3. CASE bodies' = bodies
    BY <1>2, <1>4, <1>5, <2>1, <2>3 DEF TypeOK, Addressed, SetAnswer, AddressesOf
  <2> QED
    BY <1>2, <2>2, <2>3
<1>7. TypeOK' /\ Control' /\ RightAddresses'
  <2>1. label \in Holding \ {"store"} /\ cache' \in [Names -> Messages \cup {NoMessage}]
    BY <1>2 DEF Holding, TypeOK
  <2>2. query' = [query EXCEPT ![g] = query'[g]] /\ pc[g] # "store" /\ query'[g] = query[g]
    BY <1>2 DEF TypeOK
  <2>3. query'[g].name \notin Unique => m.id = query'[g].id
    BY <1>5, <2>2 DEF Name
  <2> QED
    BY <1>1, <1>2, <1>3, <1>5, <1>6, <2>1, <2>2, <2>3, GettingAnAnswer
<1> QED
  BY <1>6, <1>7

(* A direct answer goes into the cache under the CNAME.                    *)
LEMMA KeepingKeepsIInv ==
  ASSUME IInv, NEW g \in Goroutines, KeepDirectAnswer(g)
  PROVE  IInv'
<1> USE DEF IInv
<1>1. /\ pc[g] = "keep" /\ Goto(g, "question") /\ bodies' = Collected(bodies)
      /\ UNCHANGED <<settings, query, answer, reply>>
  BY DEF KeepDirectAnswer
<1>2. answer[g] \in Messages /\ bodies[answer[g].body].data \in AddressesOf(CName(g))
  BY <1>1 DEF TypeOK, Control, Holding, Addressed, Subject
<1>3. CName(g) \in Names
  BY <1>1, QueriesTyped
<1>4. cache' \in [Names -> Messages \cup {NoMessage}]
      /\ \A n \in Names :
            cache'[n] = cache[n]
            \/ (cache'[n] \in Messages /\ bodies[cache'[n].body].data \in AddressesOf(n))
  <2>1. CASE UNCHANGED cache
    BY <2>1 DEF TypeOK
  <2>2. CASE CacheSet(CName(g), answer[g])
    BY <1>2, <1>3, <2>2 DEF TypeOK, CacheSet
  <2> QED
    BY <2>1, <2>2 DEF KeepDirectAnswer
<1>5. SetAnswer(g, answer[g]) /\ Subject(g)' = Name(g)
  BY <1>1 DEF TypeOK, SetAnswer, Goto, Subject, Name
<1>6. bodies[answer[g].body].data \in AddressesOf(Subject(g)')
  BY <1>1, <1>2, <1>5, AnswersAddressed DEF Control, Holding
<1>7. Addressed' /\ bodies' \in [Bodies -> Contents]
  BY <1>1, <1>2, <1>4, <1>5, <1>6, OthersKeepTheirSubject, DroppingDisturbsNobody
<1>8. TypeOK' /\ Control'
  BY <1>1, <1>4, <1>7 DEF TypeOK, Control, Goto, Holding
<1>9. RightAddresses'
  BY <1>1 DEF RightAddresses, Name, AddressesOf
<1> QED
  BY <1>7, <1>8, <1>9

(* Renaming leaves the addresses alone.                                    *)
LEMMA RenamesKeepIInv ==
  ASSUME IInv, NEW g \in Goroutines, RenameQuestion(g) \/ RenameRecords(g)
  PROVE  IInv'
<1> USE DEF IInv
<1>1. /\ pc[g] \in {"question", "owner"} /\ UNCHANGED <<settings, cache, query, answer, reply>>
      /\ Goto(g, "owner") \/ Goto(g, "reply")
  BY DEF RenameQuestion, RenameRecords
<1>2. Name(g) \in Names
  BY <1>1, QueriesTyped
<1>3. bodies' \in [Bodies -> Contents] /\ \A b \in Bodies : bodies'[b].data = bodies[b].data
  <2>1. bodies \in [Bodies -> Contents] /\ answer[g].body \in Bodies
    BY <1>1 DEF TypeOK, Control, Holding, Messages
  <2>2. CASE RenameQuestion(g)
    BY <1>2, <2>1, <2>2 DEF RenameQuestion, Contents
  <2>3. CASE RenameRecords(g)
    <3>1. PICK o \in Names \cup {None} : bodies' = [bodies EXCEPT ![answer[g].body].owner = o]
      BY <1>2, <2>3 DEF RenameRecords
    <3> QED
      BY <2>1, <3>1 DEF Contents
  <2> QED
    BY <2>2, <2>3
<1>4. TypeOK' /\ Control'
  BY <1>1, <1>3 DEF TypeOK, Control, Goto, Holding
<1>5. Addressed'
  BY <1>1, <1>3 DEF TypeOK, Goto, Addressed, Subject, CName, Messages, Name, AddressesOf
<1>6. RightAddresses'
  BY <1>1 DEF RightAddresses, Name, AddressesOf
<1> QED
  BY <1>4, <1>5, <1>6

LEMMA WriteReplyKeepsIInv ==
  ASSUME IInv, NEW g \in Goroutines, WriteReply(g)
  PROVE  IInv'
<1> USE DEF IInv
<1> DEFINE r == [id |-> answer[g].id, contents |-> bodies[answer[g].body]]
<1>1. pc[g] = "reply" /\ UNCHANGED <<settings, cache, bodies, query, answer>>
      /\ reply' = [reply EXCEPT ![g] = r] /\ Goto(g, "store")
  BY DEF WriteReply
<1>2. /\ answer[g] \in Messages /\ answer[g] # NoMessage
      /\ query[g].name \notin Unique => answer[g].id = query[g].id
  BY <1>1 DEF TypeOK, Control, Holding
<1>3. /\ r \in [id : Ids, contents : Contents]
      /\ query[g].name \notin Unique => r.id = query[g].id
      /\ r.contents.data \in AddressesOf(Name(g))
  BY <1>2, AnswersAddressed DEF TypeOK, Messages
<1> HIDE DEF r
<1>4. TypeOK' /\ Control'
  BY <1>1, <1>2, <1>3 DEF TypeOK, Control, Goto, Holding
<1>5. Addressed'
  BY <1>1 DEF TypeOK, Goto, Addressed, Subject, CName, Name, AddressesOf
<1>6. RightAddresses'
  BY <1>1, <1>3 DEF TypeOK, RightAddresses, Name, AddressesOf
<1> QED
  BY <1>4, <1>5, <1>6

(* The query ends.                                                         *)
LEMMA EndsKeepIInv ==
  ASSUME IInv, NEW g \in Goroutines, CacheAnswer(g) \/ HandleFailed(g)
  PROVE  IInv'
<1> USE DEF IInv
<1>1. /\ pc[g] \in {"store", "fail"} /\ Goto(g, "idle")
      /\ SetAnswer(g, NoMessage) /\ bodies' = Collected(bodies)
      /\ query' = [query EXCEPT ![g] = NoQuery]
      /\ UNCHANGED settings
  BY DEF CacheAnswer, HandleFailed
<1>2. reply' = [reply EXCEPT ![g] = NoReply]
  BY DEF CacheAnswer, HandleFailed, TypeOK, Control
<1>3. Name(g) \in Names
  BY <1>1, QueriesTyped
<1>4. UNCHANGED cache \/ (CacheSet(Name(g), answer[g]) /\ pc[g] = "store")
  BY DEF CacheAnswer, HandleFailed
<1>5. cache' \in [Names -> Messages \cup {NoMessage}]
      /\ \A n \in Names :
            cache'[n] = cache[n]
            \/ (cache'[n] \in Messages /\ bodies[cache'[n].body].data \in AddressesOf(n))
  <2>1. CASE UNCHANGED cache
    BY <2>1 DEF TypeOK
  <2>2. CASE CacheSet(Name(g), answer[g]) /\ pc[g] = "store"
    <3>1. answer[g] \in Messages /\ bodies[answer[g].body].data \in AddressesOf(Name(g))
      BY <2>2, AnswersAddressed DEF TypeOK, Control, Holding
    <3> QED
      BY <1>3, <2>2, <3>1 DEF TypeOK, CacheSet
  <2> QED
    BY <1>4, <2>1, <2>2
<1>6. Addressed' /\ bodies' \in [Bodies -> Contents]
  <2>1. \A h \in Goroutines \ {g} : query'[h] = query[h]
    BY <1>1 DEF TypeOK
  <2> QED
    BY <1>1, <1>5, <2>1, OthersKeepTheirSubject, DroppingDisturbsNobody
<1>7. TypeOK' /\ Control'
  BY <1>1, <1>2, <1>5, <1>6 DEF TypeOK, Control, Goto, Holding, SetAnswer
<1>8. RightAddresses'
  BY <1>1, <1>2 DEF TypeOK, RightAddresses, Name, AddressesOf
<1> QED
  BY <1>6, <1>7, <1>8

LEMMA NextKeepsIInv == IInv /\ [Next]_vars => IInv'
<1> SUFFICES ASSUME IInv, [Next]_vars PROVE IInv'
  OBVIOUS
<1>1. CASE UNCHANGED vars
  BY <1>1 DEF vars, IInv, TypeOK, Control, Addressed, Subject, CName, RightAddresses, Name,
     AddressesOf
<1>2. ASSUME NEW g \in Goroutines, Serve(g)
      PROVE  IInv'
  BY <1>2, ControlStepsKeepIInv, HostsAnswerKeepsIInv, UpstreamAnswersKeepIInv, HitsKeepIInv,
     KeepingKeepsIInv, RenamesKeepIInv, WriteReplyKeepsIInv, EndsKeepIInv DEF Serve
<1> QED
  BY <1>1, <1>2 DEF Next

-----------------------------------------------------------------------------
THEOREM Invariance == Spec => []IInv
BY InitEstablishesIInv, NextKeepsIInv, PTL DEF Spec

(* Whatever goroutines share, the state is well typed.                     *)
THEOREM TypeCorrect == Spec => []TypeOK
<1>1. IInv => TypeOK
  BY DEF IInv
<1> QED
  BY <1>1, Invariance, PTL

(* Every reply carries the id of its query, however often its message has  *)
(* been copied from the cache and back, unless it is one of a unique       *)
(* website.                                                                *)
THEOREM IdsAlwaysMatch == Spec => []IdsMatchUnlessOblivious
<1>1. IInv => IdsMatchUnlessOblivious
  BY DEF IInv, Control, IdsMatchUnlessOblivious, Name
<1> QED
  BY <1>1, Invariance, PTL

(* No client ever gets the addresses of a name it did not ask for: sharing *)
(* confuses the names on messages, never what the messages say.            *)
THEOREM AddressesAlwaysRight == Spec => []RightAddresses
<1>1. IInv => RightAddresses
  BY DEF IInv
<1> QED
  BY <1>1, Invariance, PTL

-----------------------------------------------------------------------------
(* The names on replies.  A body is shared only between names with one     *)
(* target (SharedWithin), and only goroutines whose query is redirected    *)
(* rename it (Redirecting).  So whoever renames a body that is cached or   *)
(* held for a name with a target of its own asks for that very name, and   *)
(* what does not have that name is held by a goroutine on its way to give  *)
(* it (Matched).                                                           *)

Redirecting ==
    \A g \in Goroutines :
        pc[g] \in {"given", "ns", "cname", "direct", "keep", "question", "owner"} =>
            settings.direct /\ Redirected(g)

Holds(n, b) ==
    \/ cache[n] # NoMessage /\ cache[n].body = b
    \/ \E g \in Goroutines : answer[g] # NoMessage /\ answer[g].body = b /\ Name(g) = n
SharedWithin ==
    \A b \in Bodies : \A m, n \in Names : Holds(m, b) /\ Holds(n, b) => Target[m] = Target[n]

Unshared(n) == settings.direct => OwnTarget(n)
CacheMatches ==
    \A n \in Names : cache[n] # NoMessage /\ Unshared(n) => Matches(bodies[cache[n].body], n)
AnswerMatches(g) ==
    answer[g] # NoMessage /\ Unshared(Name(g)) =>
        /\ pc[g] = "owner" => bodies[answer[g].body].question = Name(g)
        /\ pc[g] \notin {"keep", "question", "owner"} => Matches(bodies[answer[g].body], Name(g))
Matched == CacheMatches /\ \A g \in Goroutines : AnswerMatches(g)

NameInv == Redirecting /\ SharedWithin /\ Matched /\ RepliesMatchUnlessShared

(* A name at whose target no other redirects shares bodies with none that  *)
(* redirects.                                                              *)
LEMMA OnlyItsOwnRenames ==
  ASSUME NEW n \in Names, NEW m \in Asked, OwnTarget(n), Target[m] # m, Target[m] = Target[n]
  PROVE  m = n
BY TargetAssumption, NamesAssumption DEF OwnTarget

LEMMA RedirectingStep ==
  ASSUME IInv, Redirecting, NEW g \in Goroutines, Serve(g)
  PROVE  Redirecting'
<1> USE DEF IInv, TypeOK, Redirecting, Redirected, CName, Name, Goto
<1>1. CASE HostsAnswer(g) \/ NotInHosts(g)
  <2>1. /\ pc'[g] \in {"reply", "cache", "lookup"} /\ settings' = settings
        /\ \A h \in Goroutines \ {g} : pc'[h] = pc[h] /\ query'[h] = query[h]
    BY <1>1 DEF HostsAnswer, NotInHosts, Receives
  <2> QED
    BY <2>1
<1>6. CASE Hit(g) \/ Miss(g) \/ LookupFails(g)
  BY <1>6 DEF Hit, Miss, LookupFails
<1>2. CASE LookupFindsNothing(g) \/ LookupAnswers(g)
  BY <1>2 DEF LookupFindsNothing, LookupAnswers
<1>3. CASE \/ DirectFails(g) \/ GivenAnswers(g) \/ NSAnswers(g) \/ CNameHit(g) \/ CNameMiss(g)
           \/ DirectAnswers(g) \/ KeepDirectAnswer(g)
  BY <1>3 DEF DirectFails, GivenAnswers, NSAnswers, CNameHit, CNameMiss, DirectAnswers,
     KeepDirectAnswer
<1>4. CASE RenameQuestion(g) \/ RenameRecords(g) \/ WriteReply(g)
  BY <1>4 DEF RenameQuestion, RenameRecords, WriteReply
<1>5. CASE CacheAnswer(g) \/ HandleFailed(g)
  BY <1>5 DEF CacheAnswer, HandleFailed
<1> QED
  BY <1>1, <1>2, <1>3, <1>4, <1>5, <1>6 DEF Serve

(* No new body changes hands: whoever holds one afterwards has it from     *)
(* somebody with the same target.                                          *)
LEMMA PassingOnShares ==
  ASSUME SharedWithin,
         \A n \in Names : cache'[n] # NoMessage =>
            \E p \in Names : Holds(p, cache'[n].body) /\ Target[p] = Target[n],
         \A h \in Goroutines : answer'[h] # NoMessage /\ Name(h)' \in Names =>
            \E p \in Names : Holds(p, answer'[h].body) /\ Target[p] = Target[Name(h)']
  PROVE  SharedWithin'
<1>1. ASSUME NEW n \in Names, NEW b \in Bodies, Holds(n, b)'
      PROVE  \E p \in Names : Holds(p, b) /\ Target[p] = Target[n]
  BY <1>1 DEF Holds
<1>2. ASSUME NEW b \in Bodies, NEW m \in Names, NEW n \in Names, Holds(m, b)', Holds(n, b)'
      PROVE  Target[m] = Target[n]
  BY <1>1, <1>2 DEF SharedWithin
<1> QED
  BY <1>2 DEF SharedWithin, Bodies

(* A new message has a body nobody holds.                                  *)
LEMMA NewMessagesShare ==
  ASSUME TypeOK, SharedWithin, NEW g \in Goroutines, NEW b \in Bodies, NEW m \in Messages,
         Free(b), m.body = b, SetAnswer(g, m),
         \A h \in Goroutines \ {g} : query'[h] = query[h],
         Name(g)' \in Names,
         UNCHANGED cache
  PROVE  SharedWithin'
<1>1. answer' = [answer EXCEPT ![g] = m]
  BY DEF SetAnswer
<1>2. \A n \in Names : ~Holds(n, b)
  BY DEF Holds, Free, Unreachable
<1>3. ASSUME NEW n \in Names, NEW x \in Bodies, Holds(n, x)'
      PROVE  Holds(n, x) \/ (x = b /\ Target[n] = Target[Name(g)'])
  <2>1. CASE cache'[n] # NoMessage /\ cache'[n].body = x
    BY <2>1 DEF Holds
  <2>2. CASE \E h \in Goroutines : answer'[h] # NoMessage /\ answer'[h].body = x /\ Name(h)' = n
    <3>1. PICK h \in Goroutines : answer'[h] # NoMessage /\ answer'[h].body = x /\ Name(h)' = n
      BY <2>2
    <3>2. CASE h = g
      BY <1>1, <3>1, <3>2 DEF TypeOK
    <3>3. CASE h # g
      BY <1>1, <3>1, <3>3 DEF TypeOK, Holds, Name
    <3> QED
      BY <3>2, <3>3
  <2> QED
    BY <1>3, <2>1, <2>2 DEF Holds
<1>4. ASSUME NEW x \in Bodies, NEW m1 \in Names, NEW n \in Names, Holds(m1, x)', Holds(n, x)'
      PROVE  Target[m1] = Target[n]
  BY <1>2, <1>3, <1>4 DEF SharedWithin
<1> QED
  BY <1>4 DEF SharedWithin, Bodies

(* What upstream says arrives in a new message.                            *)
LEMMA UpstreamMessages ==
  ASSUME TypeOK, Control, NEW g \in Goroutines,
         LookupFindsNothing(g) \/ LookupAnswers(g) \/ GivenAnswers(g) \/ DirectAnswers(g)
  PROVE  \E m \in Messages, c \in Contents :
            /\ NewAnswer(g, m, c) /\ m.body \in Bodies
            /\ pc[g] = "lookup" => Matches(c, Name(g))
<1>1. Name(g) \in Names /\ CName(g) \in Names
      /\ \A b \in Bodies : WithId(g, b) \in Messages /\ WithId(g, b).body = b
      /\ \A i \in LookupIds(g), c \in Bodies : [id |-> i, body |-> c] \in Messages
  <2>1. pc[g] # "idle"
    BY DEF LookupFindsNothing, LookupAnswers, GivenAnswers, DirectAnswers
  <2> QED
    BY <2>1, QueriesTyped DEF WithId, LookupIds, Messages
<1>2. \A n \in Names : Reply(n) \in Contents /\ EmptyReply(n) \in Contents
  BY RepliesTyped
<1>3. CASE LookupFindsNothing(g)
  <2>1. PICK i \in LookupIds(g), b \in Bodies :
           NewAnswer(g, [id |-> i, body |-> b], EmptyReply(Name(g)))
    BY <1>3 DEF LookupFindsNothing
  <2>2. Matches(EmptyReply(Name(g)), Name(g))
    BY DEF Matches, EmptyReply
  <2> QED
    BY <1>1, <1>2, <2>1, <2>2
<1>4. CASE LookupAnswers(g)
  <2> DEFINE c == [question |-> Name(g), owner |-> Name(g), data |-> CName(g)]
  <2>1. PICK i \in LookupIds(g), b \in Bodies : NewAnswer(g, [id |-> i, body |-> b], c)
    BY <1>4 DEF LookupAnswers
  <2>2. c \in Contents /\ Matches(c, Name(g))
    BY <1>1 DEF Contents, Matches
  <2> HIDE DEF c
  <2> QED
    BY <1>1, <2>1, <2>2
<1>5. CASE GivenAnswers(g)
  <2>1. PICK b \in Bodies, c \in DirectReplies(g) : NewAnswer(g, WithId(g, b), c)
    BY <1>5 DEF GivenAnswers
  <2> QED
    BY <1>1, <1>2, <1>5, <2>1 DEF GivenAnswers, DirectReplies
<1>6. CASE DirectAnswers(g)
  <2>1. PICK b \in Bodies, c \in DirectReplies(g) : NewAnswer(g, SameId(g, b), c)
    BY <1>6 DEF DirectAnswers
  <2>2. SameId(g, b) \in Messages /\ SameId(g, b).body = b
    BY <1>6, SameIdsTyped DEF DirectAnswers, Holding
  <2> QED
    BY <1>1, <1>2, <1>6, <2>1, <2>2 DEF DirectAnswers, DirectReplies
<1> QED
  BY <1>3, <1>4, <1>5, <1>6

LEMMA SharedStep ==
  ASSUME IInv, Redirecting, SharedWithin, NEW g \in Goroutines, Serve(g)
  PROVE  SharedWithin'
<1> USE DEF IInv
<1>1. \A n \in Names : cache[n] # NoMessage => Holds(n, cache[n].body)
  BY DEF Holds
<1>2. \A h \in Goroutines : answer[h] # NoMessage /\ Name(h) \in Names =>
         Holds(Name(h), answer[h].body)
  BY DEF Holds
<1>3. ASSUME UNCHANGED <<cache, answer>>,
             \A h \in Goroutines : answer[h] # NoMessage => query'[h] = query[h]
      PROVE  SharedWithin'
  BY <1>1, <1>2, <1>3, PassingOnShares DEF Name
<1>4. CASE NotInHosts(g)
  <2>1. pc[g] = "idle" /\ UNCHANGED <<cache, answer>>
        /\ \A h \in Goroutines \ {g} : query'[h] = query[h]
    BY <1>4 DEF NotInHosts, Receives, TypeOK
  <2>2. answer[g] = NoMessage
    BY <2>1 DEF Control, Holding
  <2> QED
    BY <1>3, <2>1, <2>2
<1>5. CASE Miss(g) \/ LookupFails(g) \/ DirectFails(g) \/ NSAnswers(g) \/ CNameMiss(g)
  BY <1>3, <1>5 DEF Miss, LookupFails, DirectFails, NSAnswers, CNameMiss
<1>6. CASE RenameQuestion(g) \/ RenameRecords(g) \/ WriteReply(g)
  BY <1>3, <1>6 DEF RenameQuestion, RenameRecords, WriteReply
<1>7. CASE HostsAnswer(g)
  <2>1. PICK n \in Asked, i \in Ids, b \in Bodies :
           Receives(g, n, i) /\ Free(b) /\ SetAnswer(g, [id |-> i, body |-> b])
    BY <1>7 DEF HostsAnswer, NewAnswer
  <2>2. query' = [query EXCEPT ![g] = [name |-> n, id |-> i]]
    BY <2>1 DEF Receives
  <2>3. Name(g)' \in Names /\ \A h \in Goroutines \ {g} : query'[h] = query[h]
    BY <2>2, NamesAssumption DEF TypeOK, Name
  <2>4. [id |-> i, body |-> b] \in Messages /\ [id |-> i, body |-> b].body = b
    BY DEF Messages
  <2>5. UNCHANGED cache
    BY <1>7 DEF HostsAnswer
  <2> HIDE DEF IInv
  <2> QED
    BY <2>1, <2>3, <2>4, <2>5, NewMessagesShare DEF IInv
<1>8. CASE LookupFindsNothing(g) \/ LookupAnswers(g) \/ GivenAnswers(g) \/ DirectAnswers(g)
  <2>1. pc[g] # "idle" /\ UNCHANGED <<query, cache>>
    BY <1>8 DEF LookupFindsNothing, LookupAnswers, GivenAnswers, DirectAnswers
  <2>2. Name(g)' = Name(g) /\ Name(g) \in Names
    BY <2>1, QueriesTyped DEF Name
  <2>3. PICK m \in Messages : Free(m.body) /\ SetAnswer(g, m) /\ m.body \in Bodies
    BY <1>8, UpstreamMessages DEF NewAnswer
  <2> QED
    BY <2>1, <2>2, <2>3, NewMessagesShare
<1>9. CASE Hit(g) \/ CNameHit(g)
  <2>1. PICK n \in {Name(g), CName(g)} :
           cache[n] # NoMessage
           /\ (SetAnswer(g, WithId(g, cache[n].body)) \/ SetAnswer(g, SameId(g, cache[n].body)))
    BY <1>9 DEF Hit, CNameHit
  <2>2. pc[g] # "idle" /\ UNCHANGED <<cache, query>>
    BY <1>9 DEF Hit, CNameHit
  <2>3. Name(g) \in Names /\ n \in Names /\ Target[n] = Target[Name(g)]
    BY <2>2, QueriesTyped, TargetAssumption DEF CName
  <2>4. answer'[g].body = cache[n].body /\ \A h \in Goroutines \ {g} : answer'[h] = answer[h]
    BY <2>1 DEF TypeOK, SetAnswer, WithId, SameId
  <2>5. \A h \in Goroutines : Name(h)' = Name(h)
    BY <2>2 DEF Name
  <2> QED
    BY <1>1, <1>2, <2>1, <2>2, <2>3, <2>4, <2>5, PassingOnShares
<1>10. CASE KeepDirectAnswer(g)
  <2>1. pc[g] = "keep" /\ UNCHANGED <<query, answer>>
    BY <1>10 DEF KeepDirectAnswer
  <2>2. Name(g) \in Names /\ CName(g) \in Names /\ Target[CName(g)] = Target[Name(g)]
    BY <2>1, QueriesTyped, TargetAssumption DEF CName
  <2>3. answer[g] # NoMessage
    BY <2>1 DEF Control, Holding
  <2>4. UNCHANGED cache \/ CacheSet(CName(g), answer[g])
    BY <1>10 DEF KeepDirectAnswer
  <2>5. \A n \in Names : cache'[n] = cache[n] \/ (n = CName(g) /\ cache'[n] = answer[g])
    BY <2>2, <2>4 DEF TypeOK, CacheSet
  <2>6. \A h \in Goroutines : answer'[h] = answer[h] /\ Name(h)' = Name(h)
    BY <2>1 DEF Name
  <2> QED
    BY <1>1, <1>2, <2>2, <2>3, <2>5, <2>6, PassingOnShares
<1>11. CASE CacheAnswer(g) \/ HandleFailed(g)
  <2>1. pc[g] \in {"store", "fail"} /\ SetAnswer(g, NoMessage)
        /\ \A h \in Goroutines \ {g} : query'[h] = query[h]
    BY <1>11 DEF CacheAnswer, HandleFailed, TypeOK
  <2>2. Name(g) \in Names
    BY <2>1, QueriesTyped
  <2>3. answer'[g] = NoMessage /\ \A h \in Goroutines \ {g} : answer'[h] = answer[h]
    BY <2>1 DEF TypeOK, SetAnswer
  <2>4. \A h \in Goroutines : answer'[h] # NoMessage => answer'[h] = answer[h] /\ Name(h)' = Name(h)
    BY <2>1, <2>3 DEF Name
  <2>5. UNCHANGED cache \/ (CacheSet(Name(g), answer[g]) /\ answer[g] # NoMessage)
    BY <1>11 DEF CacheAnswer, HandleFailed, Control, Holding
  <2>6. \A n \in Names :
           cache'[n] = cache[n]
           \/ (n = Name(g) /\ cache'[n] = answer[g] /\ answer[g] # NoMessage)
    BY <2>2, <2>5 DEF TypeOK, CacheSet
  <2> QED
    BY <1>1, <1>2, <2>2, <2>4, <2>6, PassingOnShares
<1> QED
  BY <1>4, <1>5, <1>6, <1>7, <1>8, <1>9, <1>10, <1>11 DEF Serve

(* A step keeps the names right if the contents the bodies have before     *)
(* they are collected do.                                                  *)
LEMMA MatchedStep ==
  ASSUME TypeOK', NEW contents \in [Bodies -> Contents],
         bodies' = contents \/ bodies' = Collected(contents),
         \A n \in Names : cache'[n] # NoMessage /\ Unshared(n)' =>
            Matches(contents[cache'[n].body], n),
         \A h \in Goroutines : answer'[h] # NoMessage /\ Unshared(Name(h))' =>
            /\ pc'[h] = "owner" => contents[answer'[h].body].question = Name(h)'
            /\ pc'[h] \notin {"keep", "question", "owner"} =>
                  Matches(contents[answer'[h].body], Name(h)')
  PROVE  Matched'
<1>1. \A n \in Names : cache'[n] # NoMessage => cache'[n].body \in Bodies
  BY DEF TypeOK, Messages, Bodies
<1>2. \A h \in Goroutines : answer'[h] # NoMessage => answer'[h].body \in Bodies
  BY DEF TypeOK, Messages, Bodies
<1>3. \A n \in Names : cache'[n] # NoMessage => bodies'[cache'[n].body] = contents[cache'[n].body]
  BY <1>1, CollectedKeepsReachable
<1>4. \A h \in Goroutines :
         answer'[h] # NoMessage => bodies'[answer'[h].body] = contents[answer'[h].body]
  BY <1>2, CollectedKeepsReachable
<1>5. CacheMatches'
  BY <1>3 DEF CacheMatches, Matches
<1>6. ASSUME NEW h \in Goroutines PROVE AnswerMatches(h)'
  BY <1>4 DEF AnswerMatches, Matches
<1> QED
  BY <1>5, <1>6 DEF Matched

(* The same goroutine by goroutine: the others are as before.              *)
LEMMA MatchedByOne ==
  ASSUME TypeOK, TypeOK', Matched, UNCHANGED settings,
         NEW g \in Goroutines, NEW contents \in [Bodies -> Contents],
         bodies' = contents \/ bodies' = Collected(contents),
         \A h \in Goroutines \ {g} :
            answer'[h] = answer[h] /\ query'[h] = query[h] /\ pc'[h] = pc[h],
         \A n \in Names : cache[n] # NoMessage => contents[cache[n].body] = bodies[cache[n].body],
         \A h \in Goroutines \ {g} :
            answer[h] # NoMessage => contents[answer[h].body] = bodies[answer[h].body],
         \A n \in Names : cache'[n] = cache[n]
            \/ (Unshared(n) => Matches(contents[cache'[n].body], n)),
         answer'[g] # NoMessage /\ Unshared(Name(g)') =>
            /\ pc'[g] = "owner" => contents[answer'[g].body].question = Name(g)'
            /\ pc'[g] \notin {"keep", "question", "owner"} =>
                  Matches(contents[answer'[g].body], Name(g)')
  PROVE  Matched'
<1>1. \A n : Unshared(n)' <=> Unshared(n)
  BY DEF Unshared, OwnTarget
<1>2. \A n \in Names : cache'[n] # NoMessage /\ Unshared(n)' =>
         Matches(contents[cache'[n].body], n)
  BY <1>1 DEF Matched, CacheMatches
<1>3. \A h \in Goroutines \ {g} : Name(h)' = Name(h)
  BY DEF Name
<1>4. \A h \in Goroutines : answer'[h] # NoMessage /\ Unshared(Name(h)') =>
         /\ pc'[h] = "owner" => contents[answer'[h].body].question = Name(h)'
         /\ pc'[h] \notin {"keep", "question", "owner"} =>
               Matches(contents[answer'[h].body], Name(h)')
  BY <1>3 DEF Matched, AnswerMatches
<1>5. \A h \in Goroutines : answer'[h] # NoMessage /\ Unshared(Name(h))' =>
         /\ pc'[h] = "owner" => contents[answer'[h].body].question = Name(h)'
         /\ pc'[h] \notin {"keep", "question", "owner"} =>
               Matches(contents[answer'[h].body], Name(h)')
  BY <1>1, <1>4 DEF Unshared, OwnTarget, Name
<1> QED
  BY <1>2, <1>5, MatchedStep

(* What is free is nobody's.                                               *)
LEMMA FreeLeavesOthers ==
  ASSUME TypeOK, NEW b \in Bodies, NEW c \in Contents, Free(b)
  PROVE  /\ [bodies EXCEPT ![b] = c] \in [Bodies -> Contents]
         /\ [bodies EXCEPT ![b] = c][b] = c
         /\ \A n \in Names : cache[n] # NoMessage =>
               [bodies EXCEPT ![b] = c][cache[n].body] = bodies[cache[n].body]
         /\ \A h \in Goroutines : answer[h] # NoMessage =>
               [bodies EXCEPT ![b] = c][answer[h].body] = bodies[answer[h].body]
BY DEF TypeOK, Messages, Free, Unreachable

(* Steps that leave cache, answers and bodies as they are.                 *)
LEMMA ControlStepsMatch ==
  ASSUME IInv, IInv', Matched, NEW g \in Goroutines,
         NotInHosts(g) \/ Miss(g) \/ LookupFails(g) \/ DirectFails(g) \/ NSAnswers(g)
         \/ CNameMiss(g) \/ WriteReply(g)
  PROVE  Matched'
<1> USE DEF IInv
<1>1. UNCHANGED <<settings, cache, bodies, answer>>
  BY DEF NotInHosts, Miss, LookupFails, DirectFails, NSAnswers, CNameMiss, WriteReply
<1>2. \A h \in Goroutines \ {g} : query'[h] = query[h] /\ pc'[h] = pc[h]
  BY DEF NotInHosts, Receives, Miss, LookupFails, DirectFails, NSAnswers, CNameMiss, WriteReply,
     Goto, TypeOK
<1>3. answer[g] # NoMessage =>
         query'[g] = query[g] /\ {pc[g], pc'[g]} \cap {"keep", "question", "owner"} = {}
  <2>1. CASE NotInHosts(g)
    BY <2>1 DEF NotInHosts, Receives, Control, Holding
  <2>2. CASE ~NotInHosts(g)
    BY <2>2 DEF Miss, LookupFails, DirectFails, NSAnswers, CNameMiss, WriteReply, Goto, TypeOK
  <2> QED
    BY <2>1, <2>2
<1>4. answer[g] # NoMessage => AnswerMatches(g) /\ Name(g)' = Name(g)
  BY <1>3 DEF Matched, Name
<1>5. answer'[g] # NoMessage /\ Unshared(Name(g)') =>
            /\ pc'[g] = "owner" => bodies[answer'[g].body].question = Name(g)'
            /\ pc'[g] \notin {"keep", "question", "owner"} =>
                  Matches(bodies[answer'[g].body], Name(g)')
  BY <1>1, <1>3, <1>4 DEF AnswerMatches
<1>6. bodies \in [Bodies -> Contents] /\ TypeOK /\ TypeOK'
  BY DEF TypeOK
<1> QED
  BY <1>1, <1>2, <1>5, <1>6, MatchedByOne

(* New messages have the name they were asked for, unless they are to be   *)
(* renamed.                                                                *)
LEMMA NewMessagesMatch ==
  ASSUME IInv, IInv', Matched, UNCHANGED settings,
         NEW g \in Goroutines, NEW b \in Bodies, NEW c \in Contents, NEW m \in Messages,
         Free(b), m.body = b, SetAnswer(g, m),
         bodies' = Collected([bodies EXCEPT ![b] = c]),
         \A h \in Goroutines \ {g} : query'[h] = query[h] /\ pc'[h] = pc[h],
         UNCHANGED cache,
         \/ pc'[g] \in {"keep", "question"}
         \/ pc'[g] # "owner" /\ Matches(c, Name(g)')
  PROVE  Matched'
<1> USE DEF IInv
<1> DEFINE contents == [bodies EXCEPT ![b] = c]
<1>1. /\ contents \in [Bodies -> Contents] /\ contents[b] = c
      /\ \A n \in Names : cache[n] # NoMessage => contents[cache[n].body] = bodies[cache[n].body]
      /\ \A h \in Goroutines :
            answer[h] # NoMessage => contents[answer[h].body] = bodies[answer[h].body]
  BY FreeLeavesOthers
<1>2. bodies' = Collected(contents)
  OBVIOUS
<1> HIDE DEF contents
<1>3. answer'[g].body = b /\ \A h \in Goroutines \ {g} : answer'[h] = answer[h]
  BY DEF TypeOK, SetAnswer
<1>4. /\ pc'[g] = "owner" => contents[answer'[g].body].question = Name(g)'
      /\ pc'[g] \notin {"keep", "question", "owner"} => Matches(contents[answer'[g].body], Name(g)')
  BY <1>1, <1>3
<1>5. \A n \in Names :
         cache'[n] = cache[n] \/ (Unshared(n) => Matches(contents[cache'[n].body], n))
  OBVIOUS
<1>6. /\ TypeOK /\ TypeOK'
      /\ \A h \in Goroutines \ {g} :
            answer'[h] = answer[h] /\ query'[h] = query[h] /\ pc'[h] = pc[h]
      /\ \A h \in Goroutines \ {g} :
            answer[h] # NoMessage => contents[answer[h].body] = bodies[answer[h].body]
  BY <1>1, <1>3
<1>7. answer'[g] # NoMessage /\ Unshared(Name(g)') =>
         /\ pc'[g] = "owner" => contents[answer'[g].body].question = Name(g)'
         /\ pc'[g] \notin {"keep", "question", "owner"} =>
               Matches(contents[answer'[g].body], Name(g)')
  BY <1>4
<1>8. bodies' = contents \/ bodies' = Collected(contents)
  BY <1>2
<1> HIDE DEF IInv
<1> QED
  BY ZenonT(60), <1>1, <1>5, <1>6, <1>7, <1>8, MatchedByOne

LEMMA AnswersMatch ==
  ASSUME IInv, IInv', Matched, NEW g \in Goroutines,
         HostsAnswer(g) \/ LookupFindsNothing(g) \/ LookupAnswers(g)
         \/ GivenAnswers(g) \/ DirectAnswers(g)
  PROVE  Matched'
<1> USE DEF IInv
<1>1. UNCHANGED <<settings, cache>>
      /\ \A h \in Goroutines \ {g} : query'[h] = query[h] /\ pc'[h] = pc[h]
  BY DEF HostsAnswer, Receives, LookupFindsNothing, LookupAnswers, GivenAnswers, DirectAnswers,
     Goto, TypeOK
<1>2. CASE HostsAnswer(g)
  <2>1. PICK n \in Asked, i \in Ids, b \in Bodies :
           Receives(g, n, i) /\ NewAnswer(g, [id |-> i, body |-> b], Reply(n))
    BY <1>2 DEF HostsAnswer
  <2>2. query' = [query EXCEPT ![g] = [name |-> n, id |-> i]]
    BY <2>1 DEF Receives
  <2>3. Name(g)' = n /\ n \in Names
    BY <2>2, NamesAssumption DEF TypeOK, Name
  <2>4. [id |-> i, body |-> b] \in Messages /\ [id |-> i, body |-> b].body = b
    BY DEF Messages
  <2>5. pc'[g] = "reply"
    BY <1>2 DEF HostsAnswer, Goto, TypeOK
  <2>6. Matches(Reply(n), Name(g)') /\ Reply(n) \in Contents
    BY <2>3, RepliesTyped DEF Matches, Reply
  <2> QED
    BY <1>1, <2>1, <2>4, <2>5, <2>6, NewMessagesMatch DEF NewAnswer
<1>3. CASE ~HostsAnswer(g)
  <2>1. PICK m \in Messages, c \in Contents :
           /\ NewAnswer(g, m, c) /\ m.body \in Bodies
           /\ pc[g] = "lookup" => Matches(c, Name(g))
    BY <1>3, UpstreamMessages
  <2>2. Name(g)' = Name(g)
    BY <1>3 DEF LookupFindsNothing, LookupAnswers, GivenAnswers, DirectAnswers, Name
  <2>3. \/ pc[g] = "lookup" /\ pc'[g] # "owner"
        \/ pc'[g] \in {"keep", "question"}
    BY <1>3 DEF LookupFindsNothing, LookupAnswers, GivenAnswers, DirectAnswers, Goto, TypeOK
  <2> QED
    BY <1>1, <2>1, <2>2, <2>3, NewMessagesMatch DEF NewAnswer
<1> QED
  BY <1>2, <1>3

(* A direct answer is kept under the CNAME only.                           *)
LEMMA KeepingMatches ==
  ASSUME IInv, IInv', Redirecting, Matched, NEW g \in Goroutines, KeepDirectAnswer(g)
  PROVE  Matched'
<1> USE DEF IInv
<1>1. /\ pc[g] = "keep" /\ pc'[g] = "question" /\ bodies' = Collected(bodies)
      /\ UNCHANGED <<settings, query, answer>>
      /\ \A h \in Goroutines \ {g} : pc'[h] = pc[h]
  BY DEF KeepDirectAnswer, Goto, TypeOK
<1>2. query[g] \in [name : Asked, id : Ids] /\ Name(g) \in Names /\ CName(g) \in Names
  BY <1>1, QueriesTyped
<1>3. ~Unshared(CName(g))
  <2>1. settings.direct /\ Redirected(g)
    BY <1>1 DEF Redirecting
  <2>2. Name(g) \in Asked /\ Target[Name(g)] # Name(g)
        /\ Target[Target[Name(g)]] = Target[Name(g)]
    BY <1>2, <2>1, TargetAssumption DEF Redirected, CName, Name
  <2> QED
    BY <2>1, <2>2 DEF Unshared, OwnTarget, CName
<1>4. \A n \in Names : cache'[n] = cache[n] \/ ~Unshared(n)
  <2>1. UNCHANGED cache \/ CacheSet(CName(g), answer[g])
    BY DEF KeepDirectAnswer
  <2> QED
    BY <1>2, <1>3, <2>1 DEF TypeOK, CacheSet
<1>5. bodies \in [Bodies -> Contents] /\ TypeOK /\ TypeOK'
  BY DEF TypeOK
<1> HIDE DEF IInv
<1> QED
  BY <1>1, <1>4, <1>5, MatchedByOne

(* A hit has the name it was cached under.                                 *)
LEMMA HitsMatch ==
  ASSUME IInv, IInv', Matched, NEW g \in Goroutines, Hit(g) \/ CNameHit(g)
  PROVE  Matched'
<1> USE DEF IInv
<1>1. /\ pc[g] # "idle" /\ UNCHANGED <<settings, cache, query>>
      /\ bodies' = bodies \/ bodies' = Collected(bodies)
  BY DEF Hit, CNameHit
<1>2. \A h \in Goroutines \ {g} :
         answer'[h] = answer[h] /\ query'[h] = query[h] /\ pc'[h] = pc[h]
  BY <1>1 DEF Hit, CNameHit, SetAnswer, Goto, TypeOK
<1>3. Name(g)' = Name(g) /\ Name(g) \in Names
  BY <1>1, QueriesTyped DEF Name
<1>4. \/ pc'[g] = "question"
      \/ /\ pc'[g] = "reply" /\ cache[Name(g)] # NoMessage
         /\ answer'[g].body = cache[Name(g)].body
  BY DEF Hit, CNameHit, Goto, SetAnswer, WithId, SameId, TypeOK
<1>5. Unshared(Name(g)) /\ pc'[g] # "question" => Matches(bodies[answer'[g].body], Name(g)')
  BY <1>3, <1>4 DEF Matched, CacheMatches
<1>6. answer'[g] # NoMessage /\ Unshared(Name(g)') =>
            /\ pc'[g] = "owner" => bodies[answer'[g].body].question = Name(g)'
            /\ pc'[g] \notin {"keep", "question", "owner"} =>
                  Matches(bodies[answer'[g].body], Name(g)')
  BY <1>3, <1>4, <1>5
<1>7. bodies \in [Bodies -> Contents] /\ TypeOK /\ TypeOK'
  BY DEF TypeOK
<1> HIDE DEF IInv
<1> QED
  BY <1>1, <1>2, <1>6, <1>7, MatchedByOne

(* A goroutine that renames a body asks for every name the body is cached  *)
(* or held for that shares its target with no other.                       *)
LEMMA RenamesOwn ==
  ASSUME IInv, Redirecting, SharedWithin, NEW g \in Goroutines, pc[g] \in {"question", "owner"}
  PROVE  /\ Name(g) \in Names /\ answer[g].body \in Bodies
         /\ \A n \in Names : Holds(n, answer[g].body) /\ Unshared(n) => n = Name(g)
<1> USE DEF IInv
<1>1. Name(g) \in Names /\ Name(g) \in Asked
  <2>1. query[g] \in [name : Asked, id : Ids] /\ Name(g) \in Names
    BY QueriesTyped
  <2> QED
    BY <2>1 DEF Name
<1>2. answer[g] # NoMessage /\ answer[g].body \in Bodies
  BY DEF TypeOK, Control, Holding, Messages
<1>3. Holds(Name(g), answer[g].body)
  BY <1>2 DEF Holds
<1>4. settings.direct /\ Target[Name(g)] # Name(g)
  BY DEF Redirecting, Redirected, CName
<1>5. ASSUME NEW n \in Names, Holds(n, answer[g].body), Unshared(n)
      PROVE  n = Name(g)
  <2>1. OwnTarget(n) /\ Target[Name(g)] = Target[n]
    BY <1>1, <1>2, <1>3, <1>4, <1>5 DEF Unshared, SharedWithin
  <2> QED
    BY <1>1, <1>4, <2>1, OnlyItsOwnRenames
<1> QED
  BY <1>1, <1>2, <1>5

LEMMA RenamesMatch ==
  ASSUME IInv, IInv', Redirecting, SharedWithin, Matched, NEW g \in Goroutines,
         RenameQuestion(g) \/ RenameRecords(g)
  PROVE  Matched'
<1> USE DEF IInv
<1> DEFINE b == answer[g].body
<1>1. /\ UNCHANGED <<settings, cache, query, answer>> /\ pc[g] \in {"question", "owner"}
      /\ \A h \in Goroutines \ {g} : pc'[h] = pc[h]
      /\ pc[g] = "question" => pc'[g] = "owner"
      /\ pc[g] = "owner" => pc'[g] = "reply"
  BY DEF RenameQuestion, RenameRecords, Goto, TypeOK
<1>2. /\ Name(g) \in Names /\ b \in Bodies
      /\ \A n \in Names : Holds(n, b) /\ Unshared(n) => n = Name(g)
  BY <1>1, RenamesOwn
<1>3. bodies \in [Bodies -> Contents] /\ bodies' \in [Bodies -> Contents] /\ TypeOK'
  BY DEF TypeOK
<1>4. /\ \A x \in Bodies \ {b} : bodies'[x] = bodies[x]
      /\ bodies'[b].question \in {bodies[b].question, Name(g)}
      /\ pc[g] = "question" => bodies'[b].question = Name(g)
      /\ bodies'[b].owner \in {bodies[b].owner, Name(g), None}
      /\ pc[g] = "owner" => bodies'[b].owner \in {Name(g), None}
  <2>1. CASE RenameQuestion(g)
    BY <1>2, <1>3, <2>1 DEF RenameQuestion, Contents
  <2>2. CASE RenameRecords(g)
    <3>1. PICK o \in {Name(g), None} : bodies' = [bodies EXCEPT ![b].owner = o]
      BY <2>2 DEF RenameRecords
    <3>2. bodies[b] \in Contents /\ pc[g] = "owner"
      BY <1>2, <1>3, <2>2 DEF RenameRecords
    <3> QED
      BY <1>2, <1>3, <3>1, <3>2 DEF Contents
  <2> QED
    BY <2>1, <2>2
<1>5. \A h \in Goroutines : Name(h)' = Name(h)
  BY <1>1 DEF Name
<1>6. ASSUME NEW n \in Names, cache'[n] # NoMessage, Unshared(n)'
      PROVE  Matches(bodies'[cache'[n].body], n)
  <2>1. cache[n] # NoMessage /\ Unshared(n) /\ cache[n].body \in Bodies
        /\ Matches(bodies[cache[n].body], n) /\ cache'[n] = cache[n]
    BY <1>1, <1>6 DEF Matched, CacheMatches, Unshared, OwnTarget, TypeOK, Messages
  <2>2. CASE cache[n].body = b
    <3>1. n = Name(g)
      BY <1>2, <2>1, <2>2 DEF Holds
    <3> QED
      BY <1>4, <2>1, <2>2, <3>1 DEF Matches
  <2>3. CASE cache[n].body # b
    BY <1>4, <2>1, <2>3
  <2> QED
    BY <2>2, <2>3
<1>7. ASSUME NEW h \in Goroutines, answer'[h] # NoMessage, Unshared(Name(h))'
      PROVE  /\ pc'[h] = "owner" => bodies'[answer'[h].body].question = Name(h)'
             /\ pc'[h] \notin {"keep", "question", "owner"} =>
                   Matches(bodies'[answer'[h].body], Name(h)')
  <2>1. answer[h] # NoMessage /\ answer[h].body \in Bodies /\ answer'[h] = answer[h]
        /\ Unshared(Name(h)) /\ Name(h)' = Name(h)
    BY <1>1, <1>5, <1>7 DEF Unshared, OwnTarget, TypeOK, Messages, Name
  <2>2. AnswerMatches(h)
    BY DEF Matched
  <2>3. CASE h = g
    BY <1>1, <1>4, <2>1, <2>2, <2>3 DEF AnswerMatches, Matches
  <2>4. CASE h # g /\ answer[h].body # b
    BY <1>1, <1>4, <2>1, <2>2, <2>4 DEF AnswerMatches
  <2>5. CASE h # g /\ answer[h].body = b
    <3>1. pc[h] # "idle"
      BY <2>1 DEF Control, Holding
    <3>2. Name(h) \in Names
      BY <3>1, QueriesTyped
    <3>3. Name(h) = Name(g)
      BY <1>2, <2>1, <2>5, <3>2 DEF Holds
    <3> QED
      BY <1>1, <1>4, <2>1, <2>2, <2>5, <3>3 DEF AnswerMatches, Matches
  <2> QED
    BY <2>3, <2>4, <2>5
<1> HIDE DEF IInv
<1> QED
  BY <1>3, <1>6, <1>7, MatchedStep

LEMMA EndsMatch ==
  ASSUME IInv, IInv', Matched, NEW g \in Goroutines, CacheAnswer(g) \/ HandleFailed(g)
  PROVE  Matched'
<1> USE DEF IInv
<1>1. /\ pc[g] \in {"store", "fail"} /\ UNCHANGED settings /\ bodies' = Collected(bodies)
      /\ answer' = [answer EXCEPT ![g] = NoMessage]
      /\ \A h \in Goroutines \ {g} : query'[h] = query[h] /\ pc'[h] = pc[h]
  BY DEF CacheAnswer, HandleFailed, SetAnswer, Goto, TypeOK
<1>2. answer'[g] = NoMessage
      /\ \A h \in Goroutines \ {g} :
            answer'[h] = answer[h] /\ query'[h] = query[h] /\ pc'[h] = pc[h]
  BY <1>1 DEF TypeOK
<1>3. Name(g) \in Names
  BY <1>1, QueriesTyped
<1>4. UNCHANGED cache \/ (CacheSet(Name(g), answer[g]) /\ pc[g] = "store")
  BY DEF CacheAnswer, HandleFailed
<1>5. pc[g] = "store" => answer[g] # NoMessage /\ AnswerMatches(g)
  BY DEF Control, Holding, Matched
<1>6. \A n \in Names : cache'[n] = cache[n]
         \/ (Unshared(n) => Matches(bodies[cache'[n].body], n))
  BY <1>3, <1>4, <1>5 DEF TypeOK, CacheSet, AnswerMatches
<1>7. bodies \in [Bodies -> Contents] /\ TypeOK /\ TypeOK'
  BY DEF TypeOK
<1> HIDE DEF IInv
<1> QED
  BY <1>1, <1>2, <1>6, <1>7, MatchedByOne

-----------------------------------------------------------------------------
LEMMA RepliesStep ==
  ASSUME IInv, IInv', Matched, RepliesMatchUnlessShared, NEW g \in Goroutines, Serve(g)
  PROVE  RepliesMatchUnlessShared'
<1> USE DEF IInv
<1>1. UNCHANGED settings
  BY DEF Serve, HostsAnswer, NotInHosts, Hit, Miss, LookupFails, LookupFindsNothing,
     LookupAnswers, DirectFails, GivenAnswers, NSAnswers, CNameHit, CNameMiss, DirectAnswers,
     KeepDirectAnswer, RenameQuestion, RenameRecords, WriteReply, CacheAnswer, HandleFailed
<1>2. \A h \in Goroutines : reply[h] # NoReply => pc[h] = "store"
  BY DEF Control
<1>3. CASE WriteReply(g)
  <2>1. /\ pc[g] = "reply" /\ UNCHANGED query
        /\ reply'[g].contents = bodies[answer[g].body]
        /\ \A h \in Goroutines \ {g} : reply'[h] = reply[h]
    BY <1>3 DEF WriteReply, TypeOK
  <2>2. answer[g] # NoMessage /\ AnswerMatches(g)
    BY <2>1 DEF Control, Holding, Matched
  <2>3. Unshared(Name(g)) => Matches(reply'[g].contents, Name(g))
    BY <2>1, <2>2 DEF AnswerMatches
  <2> QED
    BY <1>1, <2>1, <2>3 DEF RepliesMatchUnlessShared, Unshared, OwnTarget, Matches, Name
<1>4. CASE ~WriteReply(g)
  <2>1. \A h \in Goroutines : reply'[h] # NoReply => reply'[h] = reply[h] /\ query'[h] = query[h]
    <3>1. CASE HostsAnswer(g) \/ NotInHosts(g)
      BY <1>2, <3>1 DEF HostsAnswer, NotInHosts, Receives, TypeOK
    <3>2. CASE CacheAnswer(g) \/ HandleFailed(g)
      BY <1>2, <3>2 DEF CacheAnswer, HandleFailed, TypeOK
    <3>3. CASE ~(HostsAnswer(g) \/ NotInHosts(g) \/ CacheAnswer(g) \/ HandleFailed(g))
      BY <1>4, <3>3 DEF Serve, Hit, Miss, LookupFails, LookupFindsNothing, LookupAnswers,
         DirectFails, GivenAnswers, NSAnswers, CNameHit, CNameMiss, DirectAnswers,
         KeepDirectAnswer, RenameQuestion, RenameRecords
    <3> QED
      BY <3>1, <3>2, <3>3
  <2> QED
    BY <1>1, <2>1 DEF RepliesMatchUnlessShared, OwnTarget, Matches, Name
<1> QED
  BY <1>3, <1>4

LEMMA NameInvInit == Init => NameInv
BY DEF Init, NameInv, Redirecting, SharedWithin, Holds, Matched, CacheMatches, AnswerMatches,
   RepliesMatchUnlessShared

LEMMA NameInvStep == IInv /\ IInv' /\ NameInv /\ [Next]_vars => NameInv'
<1> SUFFICES ASSUME IInv, IInv', NameInv, [Next]_vars PROVE NameInv'
  OBVIOUS
<1> USE DEF NameInv
<1>1. CASE UNCHANGED vars
  BY <1>1 DEF vars, Redirecting, Redirected, CName, SharedWithin, Holds, Matched, CacheMatches,
     AnswerMatches, RepliesMatchUnlessShared, Unshared, OwnTarget, Matches, Name, Bodies
<1>2. ASSUME NEW g \in Goroutines, Serve(g)
      PROVE  NameInv'
  <2>1. Redirecting' /\ SharedWithin' /\ RepliesMatchUnlessShared'
    BY <1>2, RedirectingStep, SharedStep, RepliesStep
  <2>2. Matched'
    BY <1>2, ControlStepsMatch, AnswersMatch, HitsMatch, KeepingMatches, RenamesMatch, EndsMatch
       DEF Serve
  <2> QED
    BY <2>1, <2>2
<1> QED
  BY <1>1, <1>2 DEF Next

(* Every reply bears the name its client asked for, unless other names     *)
(* that are asked for redirect to the same CNAME; without direct           *)
(* resolution all replies do.                                              *)
THEOREM NamesMatchUnlessShared == Spec => []RepliesMatchUnlessShared
<1>1. NameInv => RepliesMatchUnlessShared
  BY DEF NameInv
<1>2. Spec => []NameInv
  BY Invariance, NameInvInit, NameInvStep, PTL DEF Spec
<1> QED
  BY <1>1, <1>2, PTL

=============================================================================
