---------------------------- MODULE MetadataClients --------------------------
(***************************************************************************)
(* Client ID metadata documents (src/src/hayate_auth/cimd.py): authorize   *)
(* resolves a client whose id is an https URL from the document at that    *)
(* URL, and keeps it as a row of oauth_client for refresh_ttl.             *)
(*                                                                         *)
(* One client id, whose owner replaces the document from time to time.     *)
(* What a document says (redirect URIs, scope, whether its tokens are DPoP *)
(* bound) is the number of the document here: authorize and the token      *)
(* endpoint do what the row they read says.  Every check of the URL, of    *)
(* the response and of the document is a way for a fetch to fail.          *)
(***************************************************************************)
EXTENDS Naturals

CONSTANTS
    Resolvers,      \* the authorize handlers that may run at the same time
    RefreshTtl,     \* ClientIdMetadataDocuments.refresh_ttl
    MaxRequest,     \* the longest a request takes; the code sets no limit
    MaxDocuments,   \* bound: documents ever published
    MaxMoment       \* bound: the last moment of the instance

ASSUME MetadataAssumption ==
    RefreshTtl \in Nat /\ MaxRequest \in Nat /\ MaxDocuments \in Nat \ {0} /\ MaxMoment \in Nat

VARIABLES
    moment,
    publishedAt,    \* history: when each document was published, or NotYet
    client,         \* the row of the client id, which is UNIQUE in oauth_client
    resolvers       \* the handlers' program counters and local variables

metadataVars == <<moment, publishedAt, client, resolvers>>

NotYet == MaxMoment + 1
Documents == 1..MaxDocuments
Now == 0..MaxMoment
Published(d) == publishedAt[d] # NotYet
Newest(d) == Published(d) /\ (d < MaxDocuments => ~Published(d + 1))

NoClient == [document |-> 0, updated |-> 0]
ClientRow == [document: Documents, updated: Now]
NotResolving == [pc |-> "idle"]
Resolving == [pc: {"fetch", "response", "update", "create", "find", "answer"}, began: Now,
              seen: 0..MaxDocuments, document: 0..MaxDocuments, stamp: Now]

MetadataTypeOK ==
    /\ moment \in Now
    /\ publishedAt \in [Documents -> Now \cup {NotYet}]
    /\ client \in ClientRow \cup {NoClient}
    /\ resolvers \in [Resolvers -> Resolving \cup {NotResolving}]

MetadataInit ==
    /\ moment = 0
    /\ publishedAt = [d \in Documents |-> IF d = 1 THEN 0 ELSE NotYet]
    /\ client = NoClient
    /\ resolvers = [r \in Resolvers |-> NotResolving]

-----------------------------------------------------------------------------
Stands(r, label) == resolvers[r].pc = label
Gives(r, d) == resolvers' = [resolvers EXCEPT ![r].pc = "answer", ![r].document = d]
Refuses(r) == resolvers' = [resolvers EXCEPT ![r] = NotResolving]

IsStale(row) == row.updated + RefreshTtl <= moment

-----------------------------------------------------------------------------
(* Mutants, see the note in ReplayStore.                                   *)

\* Keeps a client whose document cannot be fetched for another refresh_ttl.
FetchFailsOpen(r) ==
    /\ Stands(r, "fetch") \/ Stands(r, "response")
    /\ client' = IF client = NoClient THEN client ELSE [client EXCEPT !.updated = moment]
    /\ Refuses(r)
    /\ UNCHANGED <<moment, publishedAt>>

\* A refresh is answered from a cache on the way.
RespondFromCache(r) ==
    /\ Stands(r, "fetch")
    /\ \E d \in Documents :
          /\ IF resolvers[r].seen = 0 THEN Newest(d) ELSE Published(d)
          /\ resolvers' = [resolvers EXCEPT ![r].pc = "response", ![r].document = d]
    /\ UNCHANGED <<moment, publishedAt, client>>

-----------------------------------------------------------------------------
\* The owner of the URL replaces the document.
Publish(d) ==
    /\ Newest(d) /\ d < MaxDocuments
    /\ publishedAt' = [publishedAt EXCEPT ![d + 1] = moment]
    /\ UNCHANGED <<moment, client, resolvers>>

\* authorize reads the row; resolve_metadata_client takes a fresh one as it is.
ResolveClient(r) ==
    /\ Stands(r, "idle")
    /\ resolvers' = [resolvers EXCEPT
           ![r] = [pc |-> IF client = NoClient \/ IsStale(client) THEN "fetch" ELSE "answer",
                   began |-> moment, seen |-> client.document,
                   document |-> client.document, stamp |-> 0]]
    /\ UNCHANGED <<moment, publishedAt, client>>

\* The URL is allowed, and answers with the document of the moment.
Respond(r) ==
    /\ Stands(r, "fetch")
    /\ \E d \in Documents :
          /\ Newest(d)
          /\ resolvers' = [resolvers EXCEPT ![r].pc = "response", ![r].document = d]
    /\ UNCHANGED <<moment, publishedAt, client>>

\* No answer, or a response or document that is refused.
FetchFails(r) ==
    /\ Stands(r, "fetch") \/ Stands(r, "response")
    /\ Refuses(r)
    /\ UNCHANGED <<moment, publishedAt, client>>

\* The response is read and its document valid: stamped, it is about to be stored.
Stamp(r) ==
    /\ Stands(r, "response")
    /\ resolvers' = [resolvers EXCEPT ![r].pc = IF resolvers[r].seen = 0 THEN "create"
                                                ELSE "update",
                                      ![r].stamp = moment]
    /\ UNCHANGED <<moment, publishedAt, client>>

\* By client_id alone, whatever was stored since the row was read.
UpdateClient(r) ==
    /\ Stands(r, "update")
    /\ client' = [document |-> resolvers[r].document, updated |-> resolvers[r].stamp]
    /\ Gives(r, resolvers[r].document)
    /\ UNCHANGED <<moment, publishedAt>>

CreateClient(r) ==
    /\ Stands(r, "create")
    /\ client = NoClient
    /\ client' = [document |-> resolvers[r].document, updated |-> resolvers[r].stamp]
    /\ Gives(r, resolvers[r].document)
    /\ UNCHANGED <<moment, publishedAt>>

\* UNIQUE (client_id) elected another request's insert.
CreateClientFails(r) ==
    /\ Stands(r, "create")
    /\ client # NoClient
    /\ resolvers' = [resolvers EXCEPT ![r].pc = "find"]
    /\ UNCHANGED <<moment, publishedAt, client>>

FindConcurrent(r) ==
    /\ Stands(r, "find")
    /\ Gives(r, client.document)
    /\ UNCHANGED <<moment, publishedAt, client>>

\* The adapter raises, and has not changed the row.
ResolveFails(r) ==
    /\ Stands(r, "update") \/ Stands(r, "create") \/ Stands(r, "find")
    /\ Refuses(r)
    /\ UNCHANGED <<moment, publishedAt, client>>

\* authorize goes on with what the row it was given says.
Authorized(r) ==
    /\ Stands(r, "answer")
    /\ Refuses(r)
    /\ UNCHANGED <<moment, publishedAt, client>>

TimePasses ==
    /\ moment < MaxMoment
    /\ \A r \in Resolvers : ~Stands(r, "idle") => moment < resolvers[r].began + MaxRequest
    /\ moment' = moment + 1
    /\ UNCHANGED <<publishedAt, client, resolvers>>

MetadataNext ==
    \/ \E d \in Documents : Publish(d)
    \/ \E r \in Resolvers :
          ResolveClient(r) \/ Respond(r) \/ FetchFails(r) \/ Stamp(r) \/ UpdateClient(r)
          \/ CreateClient(r) \/ CreateClientFails(r) \/ FindConcurrent(r) \/ ResolveFails(r)
          \/ Authorized(r)
    \/ TimePasses

MetadataSpec == MetadataInit /\ [][MetadataNext]_metadataVars

-----------------------------------------------------------------------------
\* A replaced document is forgotten: a request that began later than refresh_ttl and the
\* longest request after the replacement does not authorize by it, whoever fetched it,
\* whichever of two inserts won and in whatever order refreshes were written.
SupersededIsForgotten ==
    \A r \in Resolvers :
       Stands(r, "answer") /\ ~Newest(resolvers[r].document) =>
          resolvers[r].began <= publishedAt[resolvers[r].document + 1] + RefreshTtl + MaxRequest

\* A refresh never goes back behind the document its request found stored: an older one
\* can replace a newer one only if the newer was stored while the request ran.
NeverOlderThanRead ==
    [][\A r \in Resolvers :
          Stands(r, "update") /\ client' # client /\ resolvers'[r] # resolvers[r] =>
             client'.document >= resolvers[r].seen]_metadataVars

=============================================================================
