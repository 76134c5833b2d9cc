---------------------------- MODULE QueryHandler ----------------------------
(***************************************************************************)
(* DNSQueryHandler.do, PerformDNSQuery and the direct resolution of CNAMEs *)
(* (handler.go), by any number of goroutines over one cache.               *)
(*                                                                         *)
(* A *dns.Msg is [id, body].  The body is what a shallow copy of the       *)
(* struct shares with the original: the question slice and the records.    *)
(* Copies are made so that the id can be changed; the name in the question *)
(* and the names of the records are then changed through the body.         *)
(*                                                                         *)
(* The reply to the NS query is only read, whether it comes from the cache *)
(* or from upstream: it names a server or it does not.  The negative cache *)
(* is left out: nothing ever writes to it.  Entries of the cache do not    *)
(* expire (MemoryCache), but names that are not modelled may fill it.      *)
(*                                                                         *)
(* A resolver that is sent the query's message returns its id.  A unique   *)
(* website is asked for by oblivious DoH, which is given the name and the  *)
(* type only: that reply has an id of its own.                             *)
(*                                                                         *)
(* Renaming races with readers of the same body.  Each name is written in  *)
(* one step; a string torn between two writes is not told from either.     *)
(***************************************************************************)
EXTENDS Naturals

CONSTANTS
    Goroutines,  \* the goroutines that serve queries
    Names,       \* domain names
    Asked,       \* the names clients ask for
    HostNames,   \* the names in the hosts file
    Unique,      \* those that match one of the unique websites of the user
    Target,      \* the end of a name's CNAME chain, itself if it has none
    Ids,         \* ids of client queries
    Settings,    \* the combinations of settings to consider
    MaxBodies    \* bound on the message bodies in use at a time

None == "none"

ASSUME NamesAssumption == Names # {} /\ None \notin Names /\ Asked \subseteq Names
ASSUME TargetAssumption ==
    Target \in [Names -> Names] /\ \A n \in Names : Target[Target[n]] = Target[n]
ASSUME IdsAssumption == None \notin Ids
ASSUME BodiesAssumption == MaxBodies \in Nat
ASSUME SettingsAssumption == Settings \subseteq [direct : BOOLEAN, hosts : BOOLEAN, cache : BOOLEAN]

VARIABLES
    settings,  \* what is enabled; never changes
    cache,     \* the positive cache: name -> message
    bodies,    \* the contents of each message body
    pc,        \* control state of each goroutine
    query,     \* the query it serves
    answer,    \* its answerMessage
    reply      \* what it has just written to its client

vars == <<settings, cache, bodies, pc, query, answer, reply>>

Bodies == 1 .. MaxBodies
Messages == [id : Ids, body : Bodies]
NoMessage == [id |-> None, body |-> 0]
NoQuery == [name |-> None, id |-> None]
NoReply == [id |-> None]

(* question  the name in the question section                              *)
(* owner     the name the answer records carry, None without any records   *)
(* data      the name whose addresses they hold                            *)
Contents == [question : Names, owner : Names \cup {None}, data : Names \cup {None}]
Reply(n) == [question |-> n, owner |-> n, data |-> n]
EmptyReply(n) == [question |-> n, owner |-> None, data |-> None]
Blank == EmptyReply(CHOOSE n \in Names : TRUE)
HasRecords(m) == bodies[m.body].owner # None

(* The CNAME that a goroutine resolves directly.                           *)
Name(g) == query[g].name
CName(g) == Target[Name(g)]
Redirected(g) == CName(g) # Name(g)

TypeOK ==
    /\ settings \in Settings
    /\ cache \in [Names -> Messages \cup {NoMessage}]
    /\ bodies \in [Bodies -> Contents]
    /\ pc \in [Goroutines -> {"idle", "cache", "lookup", "given", "ns", "cname",
                              "direct", "keep", "question", "owner",
                              "reply", "store", "fail"}]
    /\ query \in [Goroutines -> [name : Asked, id : Ids] \cup {NoQuery}]
    /\ answer \in [Goroutines -> Messages \cup {NoMessage}]
    /\ reply \in [Goroutines -> [id : Ids, contents : Contents] \cup {NoReply}]

Init ==
    /\ settings \in Settings
    /\ cache = [n \in Names |-> NoMessage]
    /\ bodies = [b \in Bodies |-> Blank]
    /\ pc = [g \in Goroutines |-> "idle"]
    /\ query = [g \in Goroutines |-> NoQuery]
    /\ answer = [g \in Goroutines |-> NoMessage]
    /\ reply = [g \in Goroutines |-> NoReply]

-----------------------------------------------------------------------------
Goto(g, label) == pc' = [pc EXCEPT ![g] = label]

(* Bodies that nobody can reach: a new message takes the lowest one.  They *)
(* are blanked, so that states do not differ in garbage.                   *)
Unreachable(b) ==
    (\A g \in Goroutines : answer[g].body # b) /\ (\A n \in Names : cache[n].body # b)
Free(b) == Unreachable(b) /\ \A other \in Bodies : Unreachable(other) => b <= other
Collected(contents) == [b \in Bodies |-> IF Unreachable(b)' THEN Blank ELSE contents[b]]

WithId(g, b) == [id |-> query[g].id, body |-> b]
SetAnswer(g, m) == answer' = [answer EXCEPT ![g] = m]

(* The answer of g is a new message m with contents c.                     *)
NewAnswer(g, m, c) ==
    /\ Free(m.body)
    /\ SetAnswer(g, m)
    /\ bodies' = Collected([bodies EXCEPT ![m.body] = c])

(* Set of the cache, for an answer with records.                           *)
CacheSet(n, m) ==
    \/ cache' = [cache EXCEPT ![n] = m]
    \/ cache[n] = NoMessage /\ UNCHANGED cache  \* the cache is full

(* A query arrives: its name is looked up in the hosts file ...            *)
Receives(g, n, i) == pc[g] = "idle" /\ query' = [query EXCEPT ![g] = [name |-> n, id |-> i]]
InHosts(n) == settings.hosts /\ n \in HostNames

(* Mutant of the next definition: new(dns.Msg) without SetReply.           *)
HostsAnswerWithoutId(g) ==
    /\ UNCHANGED <<settings, cache, reply>>
    /\ \E n \in Asked, i \in Ids, b \in Bodies :
          /\ Receives(g, n, i)
          /\ InHosts(n)
          /\ NewAnswer(g, [id |-> None, body |-> b], Reply(n))
    /\ Goto(g, "reply")

HostsAnswer(g) ==
    /\ UNCHANGED <<settings, cache, reply>>
    /\ \E n \in Asked, i \in Ids, b \in Bodies :
          /\ Receives(g, n, i)
          /\ InHosts(n)
          /\ NewAnswer(g, [id |-> i, body |-> b], Reply(n))
    /\ Goto(g, "reply")

(* ... then in the cache, if that is enabled ...                           *)
NotInHosts(g) ==
    /\ \E n \in Asked, i \in Ids : Receives(g, n, i) /\ ~InHosts(n)
    /\ Goto(g, IF settings.cache THEN "cache" ELSE "lookup")
    /\ UNCHANGED <<settings, cache, bodies, answer, reply>>

(* Mutant of the next definition: the cached message itself is returned.   *)
HitKeepsId(g) ==
    /\ pc[g] = "cache"
    /\ cache[Name(g)] # NoMessage
    /\ SetAnswer(g, cache[Name(g)])
    /\ Goto(g, "reply")
    /\ UNCHANGED <<settings, cache, bodies, query, reply>>

(* (a hit is a shallow copy with the id of this query)                     *)
Hit(g) ==
    /\ pc[g] = "cache"
    /\ cache[Name(g)] # NoMessage
    /\ SetAnswer(g, WithId(g, cache[Name(g)].body))
    /\ Goto(g, "reply")
    /\ UNCHANGED <<settings, cache, bodies, query, reply>>

(* ... and then upstream.                                                  *)
Miss(g) ==
    /\ pc[g] = "cache"
    /\ cache[Name(g)] = NoMessage
    /\ Goto(g, "lookup")
    /\ UNCHANGED <<settings, cache, bodies, query, answer, reply>>

(* LookupAtNameservers: an error ...                                       *)
LookupFails(g) ==
    /\ pc[g] = "lookup"
    /\ Goto(g, "fail")
    /\ UNCHANGED <<settings, cache, bodies, query, answer, reply>>

(* The id on what it returns.                                              *)
LookupIds(g) == IF Name(g) \in Unique THEN Ids ELSE {query[g].id}

(* ... a reply without answer records ...                                  *)
LookupFindsNothing(g) ==
    /\ pc[g] = "lookup"
    /\ UNCHANGED <<settings, cache, query, reply>>
    /\ \E i \in LookupIds(g), b \in Bodies :
          NewAnswer(g, [id |-> i, body |-> b], EmptyReply(Name(g)))
    /\ Goto(g, "reply")

(* ... or an answer.  One that redirects is resolved directly, at the      *)
(* server of its SOA record if it has one.                                 *)
LookupAnswers(g) ==
    /\ pc[g] = "lookup"
    /\ UNCHANGED <<settings, cache, query, reply>>
    /\ \E i \in LookupIds(g), b \in Bodies :
          NewAnswer(g, [id |-> i, body |-> b],
                       [question |-> Name(g), owner |-> Name(g), data |-> CName(g)])
    /\ \E label \in {"given", "ns", "reply"} :
          /\ label = "reply" <=> ~(settings.direct /\ Redirected(g))
          /\ Goto(g, label)

-----------------------------------------------------------------------------
(* Direct resolution.                                                      *)

(* Any error of it, of a lookup or of an NS reply that names no server:    *)
(* the original answer is used.                                            *)
DirectFails(g) ==
    /\ pc[g] \in {"given", "ns", "direct"}
    /\ Goto(g, "reply")
    /\ UNCHANGED <<settings, cache, bodies, query, answer, reply>>

(* What LookupAtNameserver may return for the CNAME.  An NXDOMAIN or a     *)
(* REFUSED is no error.                                                    *)
DirectReplies(g) == {Reply(CName(g)), EmptyReply(CName(g))}

(* The server is given: it is asked with the id of the query, and its      *)
(* reply takes the place of the original answer.                           *)
GivenAnswers(g) ==
    /\ pc[g] = "given"
    /\ UNCHANGED <<settings, cache, query, reply>>
    /\ \E b \in Bodies, c \in DirectReplies(g) : NewAnswer(g, WithId(g, b), c)
    /\ Goto(g, "question")

(* doSimpleDirectResolutionOfCname: the NS query, from the cache or from   *)
(* upstream.                                                               *)
NSAnswers(g) ==
    /\ pc[g] = "ns"
    /\ Goto(g, "cname")
    /\ UNCHANGED <<settings, cache, bodies, query, answer, reply>>

(* Its messages have the id of the original answer.                        *)
SameId(g, b) == [id |-> answer[g].id, body |-> b]

(* A cached message for the CNAME, copied as any hit is.                   *)
CNameHit(g) ==
    /\ pc[g] = "cname"
    /\ cache[CName(g)] # NoMessage
    /\ SetAnswer(g, SameId(g, cache[CName(g)].body))
    /\ UNCHANGED <<settings, cache, query, reply>>
    /\ bodies' = Collected(bodies)
    /\ Goto(g, "question")

CNameMiss(g) ==
    /\ pc[g] = "cname"
    /\ cache[CName(g)] = NoMessage
    /\ Goto(g, "direct")
    /\ UNCHANGED <<settings, cache, bodies, query, answer, reply>>

(* The server's reply takes the place of the original answer ...           *)
DirectAnswers(g) ==
    /\ pc[g] = "direct"
    /\ UNCHANGED <<settings, cache, query, reply>>
    /\ \E b \in Bodies, c \in DirectReplies(g) : NewAnswer(g, SameId(g, b), c)
    /\ Goto(g, "keep")

(* ... and goes into the cache itself, before it is renamed.               *)
KeepDirectAnswer(g) ==
    /\ pc[g] = "keep"
    /\ IF HasRecords(answer[g]) THEN CacheSet(CName(g), answer[g]) ELSE UNCHANGED cache
    /\ UNCHANGED <<settings, query, answer, reply>>
    /\ bodies' = Collected(bodies)
    /\ Goto(g, "question")

(* The better answer is made to match the query: first its question ...    *)
RenameQuestion(g) ==
    /\ pc[g] = "question"
    /\ bodies' = [bodies EXCEPT ![answer[g].body].question = Name(g)]
    /\ Goto(g, "owner")
    /\ UNCHANGED <<settings, cache, query, answer, reply>>

(* Mutant of the next definition: the records keep their name.             *)
LeavesRecords(g) ==
    /\ pc[g] = "owner"
    /\ Goto(g, "reply")
    /\ UNCHANGED <<settings, cache, bodies, query, answer, reply>>

(* ... then its records.                                                   *)
RenameRecords(g) ==
    /\ pc[g] = "owner"
    /\ bodies' = [bodies EXCEPT ![answer[g].body].owner =
                     IF HasRecords(answer[g]) THEN Name(g) ELSE None]
    /\ Goto(g, "reply")
    /\ UNCHANGED <<settings, cache, query, answer, reply>>

-----------------------------------------------------------------------------
(* WriteMsg packs the message as it is now ...                             *)
WriteReply(g) ==
    /\ pc[g] = "reply"
    /\ reply' = [reply EXCEPT ![g] = [id       |-> answer[g].id,
                                      contents |-> bodies[answer[g].body]]]
    /\ Goto(g, "store")
    /\ UNCHANGED <<settings, cache, bodies, query, answer>>

(* Mutant of the next definition: the question is kept in the handler, as  *)
(* doID is, where another query may have replaced it.                      *)
CachesUnderSharedName(g) ==
    /\ pc[g] = "store"
    /\ \E h \in Goroutines :
          /\ query[h] # NoQuery
          /\ IF HasRecords(answer[g]) THEN CacheSet(Name(h), answer[g]) ELSE UNCHANGED cache
    /\ SetAnswer(g, NoMessage)
    /\ bodies' = Collected(bodies)
    /\ query' = [query EXCEPT ![g] = NoQuery]
    /\ reply' = [reply EXCEPT ![g] = NoReply]
    /\ Goto(g, "idle")
    /\ UNCHANGED settings

(* ... and the message goes into the cache if it has answer records.       *)
CacheAnswer(g) ==
    /\ pc[g] = "store"
    /\ IF HasRecords(answer[g]) THEN CacheSet(Name(g), answer[g]) ELSE UNCHANGED cache
    /\ SetAnswer(g, NoMessage)
    /\ bodies' = Collected(bodies)
    /\ query' = [query EXCEPT ![g] = NoQuery]
    /\ reply' = [reply EXCEPT ![g] = NoReply]
    /\ Goto(g, "idle")
    /\ UNCHANGED settings

(* dns.HandleFailed                                                        *)
HandleFailed(g) ==
    /\ pc[g] = "fail"
    /\ UNCHANGED <<settings, cache, reply>>
    /\ SetAnswer(g, NoMessage)
    /\ bodies' = Collected(bodies)
    /\ query' = [query EXCEPT ![g] = NoQuery]
    /\ Goto(g, "idle")

Serve(g) ==
    \/ HostsAnswer(g) \/ NotInHosts(g) \/ Hit(g) \/ Miss(g)
    \/ LookupFails(g) \/ LookupFindsNothing(g) \/ LookupAnswers(g)
    \/ DirectFails(g) \/ GivenAnswers(g) \/ NSAnswers(g)
    \/ CNameHit(g) \/ CNameMiss(g) \/ DirectAnswers(g) \/ KeepDirectAnswer(g)
    \/ RenameQuestion(g) \/ RenameRecords(g)
    \/ WriteReply(g) \/ CacheAnswer(g) \/ HandleFailed(g)

Next == \E g \in Goroutines : Serve(g)

Spec == Init /\ [][Next]_vars

-----------------------------------------------------------------------------
(* Properties.                                                             *)

(* "NOTE maintain same ID so requestor can match replies to queries":      *)
(* whatever is copied, shared and cached, by the cache's copies ("we need  *)
(* this copy in case of concurrent modification of Id") and on the way     *)
(* through direct resolution, a reply carries the id of its query, unless  *)
(* the name is a unique website, asked for over oDoH.                      *)
IdsMatchUnlessOblivious ==
    \A g \in Goroutines :
        reply[g] # NoReply /\ Name(g) \notin Unique => reply[g].id = query[g].id

(* A client gets the addresses of the name it asked for, or of the CNAME   *)
(* behind it, however messages of different names share their bodies in    *)
(* the cache.                                                              *)
AddressesOf(n) == {n, Target[n], None}
RightAddresses ==
    \A g \in Goroutines : reply[g] # NoReply => reply[g].contents.data \in AddressesOf(Name(g))

(* "Make sure the question and node names match the original query         *)
(* (otherwise, browsers seem to notice the discrepancy and discard the     *)
(* response)".                                                             *)
Matches(contents, n) == contents.question = n /\ contents.owner \in {n, None}
RepliesMatch == \A g \in Goroutines : reply[g] # NoReply => Matches(reply[g].contents, Name(g))

(* That holds of a name at whose CNAME no other name that is asked for     *)
(* redirects; without direct resolution it holds of every name.            *)
OwnTarget(n) == \A m \in Asked \ {n, Target[n]} : Target[m] # Target[n]
RepliesMatchUnlessShared ==
    \A g \in Goroutines :
        reply[g] # NoReply /\ (settings.direct => OwnTarget(Name(g))) =>
            Matches(reply[g].contents, Name(g))
=============================================================================
