---------------------------- MODULE StreamMetadata ----------------------------
(***************************************************************************)
(* Stream metadata (streamMetadata.js, streamMetadataResult.js and the     *)
(* metadata calls of connection.js): a stream's metadata are the last      *)
(* event of its metastream.  Several programs, each with a connection of   *)
(* its own, get them, change them and set them, guarded by the metastream  *)
(* version they have read.                                                 *)
(*                                                                         *)
(* A document is what the event's data holds: JSON, as a record whose      *)
(* missing keys are Null, or no bytes, or bytes that hold no JSON object:  *)
(* no JSON at all, or null, a number, a string.  All custom properties are *)
(* one.                                                                    *)
(***************************************************************************)
EXTENDS Integers, Sequences

CONSTANTS
    Clients,    \* programs
    Roles,      \* role names
    Structured, \* what createStreamMetadata may be given
    Raw,        \* documents that may be set as bytes
    Custom,     \* what a custom property may be
    NoBytes,
    NotJson,    \* bytes that are no JSON
    NotObject,  \* JSON that is no object, null among it
    Null,
    MaxVersions \* bound: events in the metastream

(* What documents hold *)

RoleKinds == {"readRoles", "writeRoles", "deleteRoles", "metaReadRoles", "metaWriteRoles"}

Number == Int \cup {Null}
RoleList == Seq(Roles) \cup {Null}

Documents == [maxCount : Number, maxAge : Number, truncateBefore : Number, cacheControl : Number,
              acl : {Null} \cup [RoleKinds -> Roles \cup RoleList], custom : Custom \cup {Null}]

\* Bytes any client of the server may have set, without an object in them.
NoObject == {NotJson, NotObject}

\* A list is no role, what is missing is nothing else, and the bytes are told apart.
ASSUME ConstantsAssumption ==
    /\ MaxVersions \in Nat
    /\ Structured \subseteq Documents /\ Raw \subseteq Documents \cup NoObject
    /\ Documents \cap (NoObject \cup {NoBytes}) = {}
    /\ NoBytes \notin NoObject /\ NotJson # NotObject
    /\ Roles \cap Seq(Roles) = {} /\ Null \notin Int \cup Roles \cup Seq(Roles)
    /\ Null \notin [RoleKinds -> Roles \cup RoleList]

\* expectedVersion.any, eventNumber.deletedStream
AnyVersion == -2
DeletedStream == 2147483647

-----------------------------------------------------------------------------
(* streamMetadata.js *)

Truthy(number) == IF number \in {Null, 0} THEN Null ELSE number

\* Mutation: a list of roles is taken for a role.
Wrapped(role) == IF role = Null THEN Null ELSE <<role>>

\* Roles are given as one role or as a list.
AsList(role) == CASE role = Null -> Null
                  [] role \in Roles -> <<role>>
                  [] OTHER -> role

\* _fromObj: counts may be 0, ages may not.
FromObj(obj) ==
    [MaxCount       |-> obj.maxCount,
     MaxAge         |-> Truthy(obj.maxAge),
     TruncateBefore |-> obj.truncateBefore,
     CacheControl   |-> Truthy(obj.cacheControl),
     Acl            |-> IF obj.acl = Null THEN Null
                        ELSE [kind \in RoleKinds |-> AsList(obj.acl[kind])],
     custom         |-> obj.custom]

\* toJSON: a key for everything that is set, which 0 is not.
ToJSON(metadata) ==
    [maxCount       |-> Truthy(metadata.MaxCount),
     maxAge         |-> Truthy(metadata.MaxAge),
     truncateBefore |-> Truthy(metadata.TruncateBefore),
     cacheControl   |-> Truthy(metadata.CacheControl),
     acl            |-> IF metadata.Acl = Null THEN Null
                        ELSE [kind \in RoleKinds |-> AsList(metadata.Acl[kind])],
     custom         |-> metadata.custom]

Nothing == [maxCount |-> Null, maxAge |-> Null, truncateBefore |-> Null,
            cacheControl |-> Null, acl |-> Null, custom |-> Null]

\* Mutation: the length of the bytes is not looked at.
ParsesBytes(document) == document \notin NoObject \cup {NoBytes}

\* _fromJSON does not throw: JSON.parse does on what is no JSON, the lookup of the acl
\* on null, Object.keys on a number or a string (as node 0.10 has it).  It is not
\* called without bytes.
Parses(document) == document \notin NoObject

\* new StreamMetadata(bytes): _fromJSON looks the keys up and calls _fromObj.
FromBytes(document) == FromObj(IF document = NoBytes THEN Nothing ELSE document)

-----------------------------------------------------------------------------

VARIABLES
    metastream, \* the documents, one per version; version 0 is the first
    deleted,    \* the stream has been hard deleted, and its metastream with it
    call,       \* each program's call that has not been called back
    result,     \* what each program last got
    crashed,    \* programs ended by an exception
    sources     \* for each version, what it was made from

vars == <<metastream, deleted, call, result, crashed, sources>>

\* A StreamMetadataResult.
Result(isDeleted, version, metadata) ==
    [IsStreamDeleted |-> isDeleted, MetastreamVersion |-> version, StreamMetadata |-> metadata]

Idle == [op |-> "none"]
None == [op |-> "none"]

\* What a new version was made from: metadata got before and set back as they were,
\* or anything else.
Fresh == [kind |-> "fresh"]
SetBack(r) == [kind |-> "setBack", result |-> r]

Init ==
    /\ metastream = <<>> /\ deleted = FALSE
    /\ call = [c \in Clients |-> Idle]
    /\ result = [c \in Clients |-> None]
    /\ crashed = {}
    /\ sources = <<>>

\* Each program waits for one call at a time.
MayCall(c) == call[c] = Idle /\ c \notin crashed

\* getStreamMetadata reads the last event of the metastream.
GetStreamMetadata(c) ==
    /\ MayCall(c)
    /\ call' = [call EXCEPT ![c] = [op |-> "read"]]
    /\ UNCHANGED <<metastream, deleted, result, crashed, sources>>

Write(c, document, expected, source) ==
    /\ MayCall(c)
    /\ call' = [call EXCEPT ![c] = [op |-> "write", document |-> document, source |-> source,
                                    expected |-> expected]]
    /\ UNCHANGED <<metastream, deleted, result, crashed, sources>>

\* setStreamMetadata with what createStreamMetadata makes, with bytes or without
\* metadata.
SetStreamMetadata(c) ==
    \E document \in {ToJSON(FromObj(obj)) : obj \in Structured} \cup Raw \cup {NoBytes} :
    \E expected \in {AnyVersion, -1} :
        Write(c, document, expected, Fresh)

\* The same with what getStreamMetadata gave, guarded by its version.
SetBackMetadata(c) ==
    /\ result[c] # None
    /\ Write(c, ToJSON(result[c].StreamMetadata), result[c].MetastreamVersion,
             SetBack(result[c]))

\* Mutation: metadata that do not exist have any version.
MissingVersionAny == AnyVersion

MissingVersion == -1

\* The results getStreamMetadata makes of an answer.
MissingResult == Result(FALSE, MissingVersion, FromBytes(NoBytes))
DeletedResult == Result(TRUE, DeletedStream, FromBytes(NoBytes))

\* The callback of getStreamMetadata; an exception in it ends the process.
GotMetadata(c) ==
    /\ call[c].op = "answer"
    /\ LET answer == call[c] IN
       \/ /\ answer.status = "Success"
          /\ Parses(answer.document)
          /\ result' = [result EXCEPT ![c] =
                 Result(FALSE, answer.version, FromBytes(answer.document))]
          /\ UNCHANGED crashed
       \/ /\ answer.status = "Success"
          /\ ~Parses(answer.document)
          /\ crashed' = crashed \cup {c}
          /\ UNCHANGED result
       \/ /\ answer.status \in {"NotFound", "NoStream"}
          /\ result' = [result EXCEPT ![c] = MissingResult]
          /\ UNCHANGED crashed
       \/ /\ answer.status = "StreamDeleted"
          /\ result' = [result EXCEPT ![c] = DeletedResult]
          /\ UNCHANGED crashed
       \/ /\ answer.status = "Error"
          /\ UNCHANGED <<result, crashed>>
    /\ call' = [call EXCEPT ![c] = Idle]
    /\ UNCHANGED <<metastream, deleted, sources>>

-----------------------------------------------------------------------------
(* The server *)

Answers(c, status, version, document) ==
    /\ call' = [call EXCEPT ![c] = [op |-> "answer", status |-> status, version |-> version,
                                    document |-> document]]
    /\ UNCHANGED <<metastream, deleted, result, crashed, sources>>

ServeRead(c) ==
    /\ call[c].op = "read"
    /\ \/ deleted /\ Answers(c, "StreamDeleted", 0, NoBytes)
       \/ /\ ~deleted /\ metastream = <<>>
          /\ \E status \in {"NotFound", "NoStream"} : Answers(c, status, 0, NoBytes)
       \/ /\ ~deleted /\ metastream # <<>>
          /\ Answers(c, "Success", Len(metastream) - 1, metastream[Len(metastream)])
       \/ Answers(c, "Error", 0, NoBytes)

\* An append to the metastream; its callback only tells whether it was refused.
ServeWrite(c) ==
    /\ call[c].op = "write"
    /\ \/ /\ ~deleted /\ Len(metastream) < MaxVersions
          /\ call[c].expected \in {AnyVersion, Len(metastream) - 1}
          /\ metastream' = Append(metastream, call[c].document)
          /\ sources' = Append(sources, call[c].source)
       \/ UNCHANGED <<metastream, sources>>
    /\ call' = [call EXCEPT ![c] = Idle]
    /\ UNCHANGED <<deleted, result, crashed>>

DeleteStream ==
    /\ ~deleted
    /\ deleted' = TRUE
    /\ UNCHANGED <<metastream, call, result, crashed, sources>>

Next ==
    \/ \E c \in Clients : \/ GetStreamMetadata(c) \/ SetStreamMetadata(c) \/ SetBackMetadata(c)
                          \/ GotMetadata(c) \/ ServeRead(c) \/ ServeWrite(c)
    \/ DeleteStream

Spec == Init /\ [][Next]_vars

-----------------------------------------------------------------------------
(* Properties *)

\* What the metadata were before version v of the metastream.
Before(v) == CASE v = 0 -> FromBytes(NoBytes)
               [] v > 0 /\ metastream[v] \in NoObject -> metastream[v]
               [] OTHER -> FromBytes(metastream[v])

\* Programs that set metadata back under the version they were given never
\* overwrite a change they have not seen, also when there were no metadata.
NoLostUpdate ==
    \A i \in DOMAIN sources :
        sources[i].kind = "setBack" => sources[i].result.StreamMetadata = Before(i - 1)

\* Setting metadata back changes nothing, except that a count of 0 is lost.
SettingBackKeepsAll ==
    \A i \in DOMAIN sources :
        LET old == sources[i].result.StreamMetadata IN
        sources[i].kind = "setBack" =>
            FromBytes(metastream[i]) =
                [old EXCEPT !.MaxCount = Truthy(@), !.TruncateBefore = Truthy(@)]

\* A result is that of one version, however many programs change the metadata: its
\* metadata are those of its version, and none but of a stream that was deleted has
\* the version deletedStream.
ResultsAreVersions ==
    \A c \in Clients :
        LET r == result[c] IN
        r = None \/ IF r.IsStreamDeleted
                    THEN deleted /\ r = DeletedResult
                    ELSE /\ r.MetastreamVersion \in -1..(Len(metastream) - 1)
                         /\ r.StreamMetadata = Before(r.MetastreamVersion + 1)

\* The exception comes from bytes that hold no JSON object, which another program may
\* have set and may have replaced since: no bytes at all are empty metadata.
ThrowsOnlyOnNoObject ==
    crashed # {} => \E i \in DOMAIN metastream : metastream[i] \in NoObject

\* Metadata read back have no ages of 0 and lists of roles only.
Metadata == [MaxCount : Number, MaxAge : Number \ {0}, TruncateBefore : Number,
             CacheControl : Number \ {0}, Acl : {Null} \cup [RoleKinds -> RoleList],
             custom : Custom \cup {Null}]

ResultRecords == [IsStreamDeleted : BOOLEAN, MetastreamVersion : Int, StreamMetadata : Metadata]
Sources       == {Fresh} \cup [kind : {"setBack"}, result : ResultRecords]
Stored        == Documents \cup {NoBytes} \cup NoObject

Calls == {Idle, [op |-> "read"]}
         \cup [op : {"write"}, document : Stored, source : Sources, expected : Int]
         \cup [op : {"answer"}, status : {"Success", "NotFound", "NoStream", "StreamDeleted", "Error"},
               version : Nat, document : Stored]

\* The variables hold what the programs and the server put there.
TypeOK ==
    /\ deleted \in BOOLEAN
    /\ crashed \subseteq Clients
    /\ metastream \in Seq(Stored) /\ Len(metastream) <= MaxVersions
    /\ sources \in Seq(Sources) /\ Len(sources) = Len(metastream)
    /\ call \in [Clients -> Calls]
    /\ result \in [Clients -> {None} \cup ResultRecords]
=============================================================================
