------------------------- MODULE StreamMetadataProofs -------------------------
(***************************************************************************)
(* Proofs about StreamMetadata for every set of programs, roles and        *)
(* documents.                                                              *)
(***************************************************************************)
EXTENDS StreamMetadata, TLAPS

-----------------------------------------------------------------------------
(* Metadata and documents *)

\* A list of roles stays as it is, and a role is put into one.
LEMMA AsListType ==
    /\ \A role \in Roles \cup RoleList : AsList(role) \in RoleList
    /\ \A roles \in RoleList : AsList(roles) = roles
<1>1. /\ Null \notin Roles /\ Null \notin Seq(Roles)
      /\ \A roles \in Seq(Roles) : roles \notin Roles
  BY ConstantsAssumption
<1>2. \A role \in Roles : <<role>> \in Seq(Roles)
  OBVIOUS
<1> QED
  BY <1>1, <1>2 DEF AsList, RoleList

\* Numbers that are set are numbers, and not 0.
LEMMA TruthyType ==
    /\ \A n \in Number : Truthy(n) \in Number \ {0}
    /\ \A n \in Number : Truthy(Truthy(n)) = Truthy(n)
    /\ \A n \in Number \ {0} : Truthy(n) = n
BY ConstantsAssumption DEF Truthy, Number

\* _fromObj makes metadata of every document,
LEMMA FromObjType == \A d \in Documents : FromObj(d) \in Metadata
<1> SUFFICES ASSUME NEW d \in Documents PROVE FromObj(d) \in Metadata
  OBVIOUS
<1>1. /\ d.maxCount \in Number /\ d.maxAge \in Number /\ d.truncateBefore \in Number
      /\ d.cacheControl \in Number /\ d.custom \in Custom \cup {Null}
      /\ d.acl # Null => d.acl \in [RoleKinds -> Roles \cup RoleList]
  BY DEF Documents
<1> DEFINE acl == IF d.acl = Null THEN Null ELSE [kind \in RoleKinds |-> AsList(d.acl[kind])]
<1>2. acl \in {Null} \cup [RoleKinds -> RoleList]
  BY <1>1, AsListType
<1>3. Truthy(d.maxAge) \in Number \ {0} /\ Truthy(d.cacheControl) \in Number \ {0}
  BY <1>1, TruthyType
<1>4. FromObj(d) = [MaxCount |-> d.maxCount, MaxAge |-> Truthy(d.maxAge),
                    TruncateBefore |-> d.truncateBefore, CacheControl |-> Truthy(d.cacheControl),
                    Acl |-> acl, custom |-> d.custom]
  BY DEF FromObj
<1> HIDE DEF acl
<1> QED
  BY <1>1, <1>2, <1>3, <1>4 DEF Metadata

\* and toJSON a document of all metadata.
LEMMA ToJSONType == \A m \in Metadata : ToJSON(m) \in Documents
<1> SUFFICES ASSUME NEW m \in Metadata PROVE ToJSON(m) \in Documents
  OBVIOUS
<1>1. /\ m.MaxCount \in Number /\ m.MaxAge \in Number /\ m.TruncateBefore \in Number
      /\ m.CacheControl \in Number /\ m.custom \in Custom \cup {Null}
      /\ m.Acl # Null => m.Acl \in [RoleKinds -> RoleList]
  BY DEF Metadata
<1> DEFINE acl == IF m.Acl = Null THEN Null ELSE [kind \in RoleKinds |-> AsList(m.Acl[kind])]
<1>2. acl \in {Null} \cup [RoleKinds -> Roles \cup RoleList]
  BY <1>1, AsListType
<1>3. /\ Truthy(m.MaxCount) \in Number /\ Truthy(m.MaxAge) \in Number
      /\ Truthy(m.TruncateBefore) \in Number /\ Truthy(m.CacheControl) \in Number
  BY <1>1, TruthyType
<1>4. ToJSON(m) = [maxCount |-> Truthy(m.MaxCount), maxAge |-> Truthy(m.MaxAge),
                   truncateBefore |-> Truthy(m.TruncateBefore),
                   cacheControl |-> Truthy(m.CacheControl), acl |-> acl, custom |-> m.custom]
  BY DEF ToJSON
<1> HIDE DEF acl
<1> QED
  BY <1>1, <1>2, <1>3, <1>4 DEF Documents

\* So does new StreamMetadata, of no bytes too.
LEMMA FromBytesType == \A d \in Documents \cup {NoBytes} : FromBytes(d) \in Metadata
<1>1. Nothing \in Documents
  BY DEF Nothing, Documents, Number
<1> QED
  BY <1>1, FromObjType DEF FromBytes

\* Written and read back, metadata are as they were, but for counts of 0.
LEMMA WrittenAndReadBack ==
    \A m \in Metadata :
        FromBytes(ToJSON(m)) = [m EXCEPT !.MaxCount = Truthy(@), !.TruncateBefore = Truthy(@)]
<1> SUFFICES ASSUME NEW m \in Metadata
             PROVE  FromBytes(ToJSON(m)) =
                        [m EXCEPT !.MaxCount = Truthy(@), !.TruncateBefore = Truthy(@)]
  OBVIOUS
<1>1. FromBytes(ToJSON(m)) = FromObj(ToJSON(m))
  BY ToJSONType, ConstantsAssumption DEF FromBytes
<1>2. /\ Truthy(m.MaxAge) = m.MaxAge /\ Truthy(m.CacheControl) = m.CacheControl
      /\ m.Acl # Null => m.Acl \in [RoleKinds -> RoleList]
  BY TruthyType DEF Metadata
<1>5. m = [MaxCount |-> m.MaxCount, MaxAge |-> m.MaxAge, TruncateBefore |-> m.TruncateBefore,
           CacheControl |-> m.CacheControl, Acl |-> m.Acl, custom |-> m.custom]
  BY DEF Metadata
<1>6. [m EXCEPT !.MaxCount = Truthy(@), !.TruncateBefore = Truthy(@)] =
          [MaxCount |-> Truthy(m.MaxCount), MaxAge |-> m.MaxAge,
           TruncateBefore |-> Truthy(m.TruncateBefore),
           CacheControl |-> m.CacheControl, Acl |-> m.Acl, custom |-> m.custom]
  <2> DEFINE n == [m EXCEPT !.MaxCount = Truthy(@), !.TruncateBefore = Truthy(@)]
  <2>1. /\ n.MaxCount = Truthy(m.MaxCount) /\ n.TruncateBefore = Truthy(m.TruncateBefore)
        /\ n.MaxAge = m.MaxAge /\ n.CacheControl = m.CacheControl
        /\ n.Acl = m.Acl /\ n.custom = m.custom
    BY DEF Metadata
  <2>2. n \in Metadata
    BY TruthyType DEF Metadata
  <2> HIDE DEF n
  <2>3. n = [MaxCount |-> n.MaxCount, MaxAge |-> n.MaxAge, TruncateBefore |-> n.TruncateBefore,
             CacheControl |-> n.CacheControl, Acl |-> n.Acl, custom |-> n.custom]
    BY <2>2 DEF Metadata
  <2> QED BY <2>1, <2>3 DEF n
<1> DEFINE written == [kind \in RoleKinds |-> AsList(m.Acl[kind])]
<1>3. CASE m.Acl = Null
  <2>1. FromObj(ToJSON(m)) = [MaxCount |-> Truthy(m.MaxCount), MaxAge |-> m.MaxAge,
                              TruncateBefore |-> Truthy(m.TruncateBefore),
                              CacheControl |-> m.CacheControl, Acl |-> Null, custom |-> m.custom]
    BY <1>2, <1>3 DEF FromObj, ToJSON
  <2> QED BY <1>1, <1>3, <1>6, <2>1
<1>4. CASE m.Acl # Null
  <2>1. written = m.Acl /\ m.Acl # Null
    BY <1>2, <1>4, AsListType
  <2>2. [kind \in RoleKinds |-> AsList(m.Acl[kind])] = m.Acl
    BY <2>1
  <2>3. ToJSON(m) = [maxCount |-> Truthy(m.MaxCount), maxAge |-> m.MaxAge,
                     truncateBefore |-> Truthy(m.TruncateBefore),
                     cacheControl |-> m.CacheControl, acl |-> m.Acl, custom |-> m.custom]
    BY <1>2, <1>4, <2>2 DEF ToJSON
  <2>4. FromObj(ToJSON(m)) = [MaxCount |-> Truthy(m.MaxCount), MaxAge |-> m.MaxAge,
                              TruncateBefore |-> Truthy(m.TruncateBefore),
                              CacheControl |-> m.CacheControl, Acl |-> m.Acl, custom |-> m.custom]
    BY <1>2, <1>4, <2>2, <2>3 DEF FromObj
  <2> QED BY <1>1, <1>6, <2>4
<1> QED BY <1>3, <1>4

-----------------------------------------------------------------------------
(* Type correctness *)

\* What a program may be given when there are no metadata to read.
LEMMA NoMetadataType == MissingResult \in ResultRecords /\ DeletedResult \in ResultRecords
<1>1. FromBytes(NoBytes) \in Metadata
  BY FromBytesType
<1>2. DeletedStream \in Int /\ MissingVersion \in Int
  BY DEF DeletedStream, MissingVersion
<1> QED
  BY <1>1, <1>2 DEF MissingResult, DeletedResult, Result, ResultRecords

\* The initial states are well typed.
LEMMA InitType == Init => TypeOK
<1> SUFFICES ASSUME Init PROVE TypeOK
  OBVIOUS
<1>1. <<>> \in Seq(Stored) /\ <<>> \in Seq(Sources) /\ Len(<<>>) = 0
  OBVIOUS
<1>2. Idle \in Calls /\ None \in {None} \cup ResultRecords
  BY DEF Calls
<1>3. call \in [Clients -> Calls] /\ result \in [Clients -> {None} \cup ResultRecords]
  BY <1>2 DEF Init
<1>4. metastream \in Seq(Stored) /\ sources \in Seq(Sources)
  BY <1>1 DEF Init
<1>5. Len(metastream) = 0 /\ Len(sources) = 0 /\ 0 <= MaxVersions
  BY ConstantsAssumption DEF Init
<1>6. deleted \in BOOLEAN /\ crashed \subseteq Clients
  BY DEF Init
<1> QED
  BY <1>3, <1>4, <1>5, <1>6 DEF TypeOK

\* A call that replaces another is a call.
LEMMA CallType ==
    ASSUME TypeOK, NEW c \in Clients, NEW new \in Calls, call' = [call EXCEPT ![c] = new]
    PROVE  call' \in [Clients -> Calls]
BY DEF TypeOK

\* Calls that set metadata are well typed.
LEMMA WriteType ==
    ASSUME TypeOK, NEW c \in Clients, NEW document \in Stored,
           NEW expected \in Int, NEW source \in Sources, Write(c, document, expected, source)
    PROVE  TypeOK'
<1>1. [op |-> "write", document |-> document, source |-> source, expected |-> expected] \in Calls
  BY DEF Calls, Stored
<1>2. call' \in [Clients -> Calls]
  BY <1>1, CallType DEF Write
<1> QED
  BY <1>2 DEF Write, TypeOK

\* So are answers.
LEMMA AnswersType ==
    ASSUME TypeOK, NEW c \in Clients, NEW version \in Nat, NEW document \in Stored,
           NEW status \in {"Success", "NotFound", "NoStream", "StreamDeleted", "Error"},
           Answers(c, status, version, document)
    PROVE  TypeOK'
<1>1. [op |-> "answer", status |-> status, version |-> version, document |-> document] \in Calls
  BY DEF Calls
<1>2. call' \in [Clients -> Calls]
  BY <1>1, CallType DEF Answers
<1> QED
  BY <1>2 DEF Answers, TypeOK

\* What a program's call holds.
LEMMA CallFacts ==
    ASSUME TypeOK, NEW c \in Clients
    PROVE  /\ call[c].op = "write" => /\ call[c].document \in Stored /\ call[c].source \in Sources
                                      /\ call[c].expected \in Int
           /\ call[c].op = "answer" => call[c].version \in Nat /\ call[c].document \in Stored
BY DEF TypeOK, Calls, Idle

\* The metadata of a result.
LEMMA ResultFacts ==
    ASSUME TypeOK, NEW c \in Clients, result[c] # None
    PROVE  /\ result[c] \in ResultRecords /\ result[c].StreamMetadata \in Metadata
           /\ result[c].MetastreamVersion \in Int
BY DEF TypeOK, ResultRecords

\* What the callback of getStreamMetadata gives the program.
LEMMA GotMetadataEffect ==
    ASSUME TypeOK, NEW c \in Clients, GotMetadata(c)
    PROVE  /\ call[c].op = "answer"
           /\ call' = [call EXCEPT ![c] = Idle] /\ UNCHANGED <<metastream, deleted, sources>>
           /\ \/ /\ call[c].status = "Success" /\ Parses(call[c].document)
                 /\ result' = [result EXCEPT ![c] =
                        Result(FALSE, call[c].version, FromBytes(call[c].document))]
                 /\ crashed' = crashed
              \/ /\ call[c].status = "Success" /\ ~Parses(call[c].document)
                 /\ crashed' = crashed \cup {c} /\ result' = result
              \/ result' = [result EXCEPT ![c] = MissingResult] /\ crashed' = crashed
              \/ /\ call[c].status = "StreamDeleted"
                 /\ result' = [result EXCEPT ![c] = DeletedResult] /\ crashed' = crashed
              \/ result' = result /\ crashed' = crashed
BY DEF GotMetadata

\* Every step keeps the types.
LEMMA TypeStep ==
    ASSUME TypeOK, [Next]_vars
    PROVE  TypeOK'
<1>1. ASSUME NEW c \in Clients, GetStreamMetadata(c) PROVE TypeOK'
  <2>1. [op |-> "read"] \in Calls
    BY DEF Calls
  <2>2. call' \in [Clients -> Calls]
    BY <1>1, <2>1, CallType DEF GetStreamMetadata
  <2> QED BY <1>1, <2>2 DEF GetStreamMetadata, TypeOK
<1>2. ASSUME NEW c \in Clients, SetStreamMetadata(c) PROVE TypeOK'
  <2>1. PICK document \in {ToJSON(FromObj(obj)) : obj \in Structured} \cup Raw \cup {NoBytes},
             expected \in {AnyVersion, -1} : Write(c, document, expected, Fresh)
    BY <1>2 DEF SetStreamMetadata
  <2>2. document \in Stored
    BY FromObjType, ToJSONType, ConstantsAssumption DEF Stored
  <2>3. expected \in Int /\ Fresh \in Sources
    BY DEF AnyVersion, Sources
  <2> QED BY <2>1, <2>2, <2>3, WriteType
<1>3. ASSUME NEW c \in Clients, SetBackMetadata(c) PROVE TypeOK'
  <2>1. /\ result[c] # None
        /\ Write(c, ToJSON(result[c].StreamMetadata), result[c].MetastreamVersion, SetBack(result[c]))
    BY <1>3 DEF SetBackMetadata
  <2>2. /\ ToJSON(result[c].StreamMetadata) \in Stored
        /\ result[c].MetastreamVersion \in Int /\ SetBack(result[c]) \in Sources
    BY <2>1, ResultFacts, ToJSONType DEF SetBack, Sources, Stored
  <2> QED BY <2>1, <2>2, WriteType
<1>4. ASSUME NEW c \in Clients, GotMetadata(c) PROVE TypeOK'
  <2>1. Idle \in Calls
    BY DEF Calls
  <2>2. call' \in [Clients -> Calls]
    BY <1>4, <2>1, CallType, GotMetadataEffect
  <2>3. result' \in [Clients -> {None} \cup ResultRecords]
    <3>1. CASE /\ call[c].status = "Success" /\ Parses(call[c].document)
               /\ result' = [result EXCEPT ![c] =
                      Result(FALSE, call[c].version, FromBytes(call[c].document))]
      <4>1. call[c].version \in Nat /\ call[c].document \in Documents \cup {NoBytes}
        BY <1>4, <3>1, CallFacts, GotMetadataEffect DEF Parses, Stored
      <4>2. Result(FALSE, call[c].version, FromBytes(call[c].document)) \in ResultRecords
        BY <4>1, FromBytesType DEF Result, ResultRecords
      <4> QED BY <3>1, <4>2 DEF TypeOK
    <3>2. CASE result' = [result EXCEPT ![c] = MissingResult]
      BY <3>2, NoMetadataType DEF TypeOK
    <3>3. CASE result' = [result EXCEPT ![c] = DeletedResult]
      BY <3>3, NoMetadataType DEF TypeOK
    <3>4. CASE result' = result
      BY <3>4 DEF TypeOK
    <3> QED BY <1>4, <3>1, <3>2, <3>3, <3>4, GotMetadataEffect
  <2>4. crashed' \subseteq Clients
    BY <1>4, GotMetadataEffect DEF TypeOK
  <2> QED BY <1>4, <2>2, <2>3, <2>4, GotMetadataEffect DEF TypeOK
<1>5. ASSUME NEW c \in Clients, ServeRead(c) PROVE TypeOK'
  <2>1. NoBytes \in Stored /\ 0 \in Nat
    BY DEF Stored
  <2>2. CASE metastream # <<>> /\ Answers(c, "Success", Len(metastream) - 1, metastream[Len(metastream)])
    <3>1. Len(metastream) - 1 \in Nat /\ metastream[Len(metastream)] \in Stored
      BY <2>2 DEF TypeOK
    <3> QED BY <2>2, <3>1, AnswersType
  <2>3. CASE \E status \in {"NotFound", "NoStream", "StreamDeleted", "Error"} :
                 Answers(c, status, 0, NoBytes)
    BY <2>1, <2>3, AnswersType
  <2> QED BY <1>5, <2>2, <2>3 DEF ServeRead
<1>6. ASSUME NEW c \in Clients, ServeWrite(c) PROVE TypeOK'
  <2>1. Idle \in Calls
    BY DEF Calls
  <2>2. call' \in [Clients -> Calls]
    BY <1>6, <2>1, CallType DEF ServeWrite
  <2>3. call[c].document \in Stored /\ call[c].source \in Sources
    BY <1>6, CallFacts DEF ServeWrite
  <2>4. CASE UNCHANGED <<metastream, sources>>
    BY <1>6, <2>2, <2>4 DEF ServeWrite, TypeOK
  <2>5. CASE /\ Len(metastream) < MaxVersions
             /\ metastream' = Append(metastream, call[c].document)
             /\ sources' = Append(sources, call[c].source)
    <3>1. /\ metastream' \in Seq(Stored) /\ Len(metastream') <= MaxVersions
          /\ sources' \in Seq(Sources) /\ Len(sources') = Len(metastream')
      BY <2>3, <2>5, ConstantsAssumption DEF TypeOK
    <3> QED BY <1>6, <2>2, <3>1 DEF ServeWrite, TypeOK
  <2> QED BY <1>6, <2>4, <2>5 DEF ServeWrite
<1>7. CASE DeleteStream
  BY <1>7 DEF DeleteStream, TypeOK
<1>8. CASE UNCHANGED vars
  BY <1>8 DEF vars, TypeOK
<1> QED
  BY <1>1, <1>2, <1>3, <1>4, <1>5, <1>6, <1>7, <1>8 DEF Next

\* Every variable holds what the programs and the server put there; metadata read back
\* have no ages of 0, and lists of roles only.
THEOREM TypeCorrect == Spec => []TypeOK
<1> QED BY InitType, TypeStep, PTL DEF Spec

-----------------------------------------------------------------------------
(* The inductive invariant *)

\* A result is that of one version.
OfOneVersion(r) ==
    r = None \/ IF r.IsStreamDeleted
                THEN deleted /\ r = DeletedResult
                ELSE /\ r.MetastreamVersion \in -1..(Len(metastream) - 1)
                     /\ r.StreamMetadata = Before(r.MetastreamVersion + 1)

\* Metadata are set back under their version; an answer has what is stored under its
\* version.
CallOfVersion(c) ==
    /\ call[c].op = "write" /\ call[c].source.kind = "setBack" =>
           /\ OfOneVersion(call[c].source.result)
           /\ call[c].expected = call[c].source.result.MetastreamVersion
           /\ call[c].document = ToJSON(call[c].source.result.StreamMetadata)
    /\ call[c].op = "answer" /\ call[c].status = "Success" =>
           /\ call[c].version + 1 \in DOMAIN metastream
           /\ call[c].document = metastream[call[c].version + 1]
    /\ call[c].op = "answer" /\ call[c].status = "StreamDeleted" => deleted

\* A version made from metadata set back was made from those before it.
MadeFromBefore(i) ==
    sources[i].kind = "setBack" =>
        /\ sources[i].result.StreamMetadata = Before(i - 1)
        /\ metastream[i] = ToJSON(sources[i].result.StreamMetadata)

\* Inductive, and all the properties follow from it.
IInv ==
    /\ TypeOK
    /\ \A c \in Clients : OfOneVersion(result[c]) /\ CallOfVersion(c)
    /\ \A i \in DOMAIN sources : MadeFromBefore(i)
    /\ ThrowsOnlyOnNoObject

\* None is no result, and a result no answer.
LEMMA NoneIsNoResult == None \notin ResultRecords
BY DEF None, ResultRecords

\* A version, once written, stays.
LEMMA VersionsStay ==
    ASSUME TypeOK, TypeOK', deleted => deleted',
           \/ UNCHANGED metastream
           \/ \E document : metastream' = Append(metastream, document)
    PROVE  /\ Len(metastream) \in Nat /\ Len(metastream) <= Len(metastream')
           /\ \A i \in DOMAIN metastream : i \in DOMAIN metastream' /\ metastream'[i] = metastream[i]
           /\ \A v \in 0..Len(metastream) : Before(v)' = Before(v)
           /\ \A r \in {None} \cup ResultRecords : OfOneVersion(r) => OfOneVersion(r)'
<1>1. /\ Len(metastream) \in Nat /\ Len(metastream) <= Len(metastream')
      /\ \A i \in DOMAIN metastream : i \in DOMAIN metastream' /\ metastream'[i] = metastream[i]
  BY DEF TypeOK
<1>2. DOMAIN metastream = 1..Len(metastream) /\ Len(metastream') \in Nat
  BY DEF TypeOK
<1>3. \A v \in 0..Len(metastream) : Before(v)' = Before(v)
  <2> SUFFICES ASSUME NEW v \in 0..Len(metastream) PROVE Before(v)' = Before(v)
    OBVIOUS
  <2>1. CASE v = 0
    BY <2>1 DEF Before
  <2>2. CASE v # 0
    <3>1. v \in DOMAIN metastream /\ v > 0
      BY <1>1, <1>2, <2>2
    <3> QED BY <1>1, <2>2, <3>1 DEF Before
  <2> QED BY <2>1, <2>2
<1>4. \A r \in {None} \cup ResultRecords : OfOneVersion(r) => OfOneVersion(r)'
  <2> SUFFICES ASSUME NEW r \in ResultRecords, OfOneVersion(r), ~r.IsStreamDeleted
               PROVE  OfOneVersion(r)'
    BY DEF OfOneVersion
  <2>1. /\ r.MetastreamVersion \in Int /\ r.MetastreamVersion \in -1..(Len(metastream) - 1)
        /\ r.StreamMetadata = Before(r.MetastreamVersion + 1)
    BY NoneIsNoResult DEF OfOneVersion, ResultRecords
  <2>2. r.MetastreamVersion + 1 \in 0..Len(metastream)
    BY <1>1, <2>1
  <2>3. r.MetastreamVersion \in -1..(Len(metastream') - 1)
    BY <1>1, <1>2, <2>1
  <2> QED BY <1>3, <2>1, <2>2, <2>3 DEF OfOneVersion
<1> QED
  BY <1>1, <1>3, <1>4
\* A version made before stays made from what it was.
LEMMA MadeStays ==
    ASSUME TypeOK, TypeOK', deleted => deleted',
           \/ UNCHANGED <<metastream, sources>>
           \/ \E document, source : /\ metastream' = Append(metastream, document)
                                    /\ sources' = Append(sources, source),
           NEW i \in DOMAIN sources, MadeFromBefore(i)
    PROVE  MadeFromBefore(i)'
<1>1. i \in DOMAIN metastream /\ i - 1 \in 0..Len(metastream) /\ sources'[i] = sources[i]
  BY SMTT(30) DEF TypeOK
<1>2. metastream'[i] = metastream[i] /\ Before(i - 1)' = Before(i - 1)
  BY <1>1, VersionsStay
<1> QED
  BY <1>1, <1>2 DEF MadeFromBefore

\* So does what the other programs' calls are about.
LEMMA CallsStay ==
    ASSUME TypeOK, TypeOK', deleted => deleted',
           \/ UNCHANGED metastream
           \/ \E document : metastream' = Append(metastream, document),
           NEW c \in Clients, call'[c] = call[c], CallOfVersion(c)
    PROVE  CallOfVersion(c)'
<1>1. ASSUME call[c].op = "write", call[c].source.kind = "setBack"
      PROVE  OfOneVersion(call[c].source.result) => OfOneVersion(call[c].source.result)'
  <2>1. call[c].source \in Sources
    BY <1>1, CallFacts
  <2>2. call[c].source.result \in ResultRecords
    BY <1>1, <2>1 DEF Sources, Fresh
  <2> QED BY <2>2, VersionsStay DEF OfOneVersion, Before
<1>2. ASSUME call[c].op = "answer"
      PROVE  call[c].version + 1 \in DOMAIN metastream =>
                 /\ call[c].version + 1 \in DOMAIN metastream'
                 /\ metastream'[call[c].version + 1] = metastream[call[c].version + 1]
  BY VersionsStay
<1> QED
  BY <1>1, <1>2 DEF CallOfVersion
\* Before anything is written or got, there is nothing to say of it.
LEMMA InitIInv == Init => IInv
<1> SUFFICES ASSUME Init PROVE IInv
  OBVIOUS
<1>1. TypeOK
  BY InitType
<1>2. \A c \in Clients : OfOneVersion(result[c])
  BY DEF Init, OfOneVersion
<1>3. \A c \in Clients : CallOfVersion(c)
  BY DEF Init, Idle, CallOfVersion
<1>4. \A i \in DOMAIN sources : MadeFromBefore(i)
  BY DEF Init
<1>5. ThrowsOnlyOnNoObject
  BY DEF Init, ThrowsOnlyOnNoObject
<1> QED
  BY <1>1, <1>2, <1>3, <1>4, <1>5 DEF IInv

\* An exception stays with what made it.
LEMMA ThrownStays ==
    ASSUME TypeOK, TypeOK', deleted => deleted', ThrowsOnlyOnNoObject, UNCHANGED crashed,
           \/ UNCHANGED metastream
           \/ \E document : metastream' = Append(metastream, document)
    PROVE  ThrowsOnlyOnNoObject'
<1>1. \A i \in DOMAIN metastream : i \in DOMAIN metastream' /\ metastream'[i] = metastream[i]
  BY VersionsStay
<1> QED
  BY <1>1 DEF ThrowsOnlyOnNoObject

\* A program that calls keeps the invariant when its call is of one version.
LEMMA CallStep ==
    ASSUME IInv, TypeOK', NEW c \in Clients, NEW new, call' = [call EXCEPT ![c] = new],
           UNCHANGED <<metastream, deleted, result, crashed, sources>>, CallOfVersion(c)'
    PROVE  IInv'
<1>1. /\ TypeOK /\ ThrowsOnlyOnNoObject
      /\ \A d \in Clients : OfOneVersion(result[d]) /\ CallOfVersion(d)
      /\ \A i \in DOMAIN sources : MadeFromBefore(i)
  BY DEF IInv
<1>2. ASSUME NEW d \in Clients PROVE OfOneVersion(result[d])' /\ CallOfVersion(d)'
  <2>1. OfOneVersion(result[d])'
    BY <1>1 DEF OfOneVersion, Before
  <2>2. CASE d # c
    <3>1. call'[d] = call[d] /\ CallOfVersion(d)
      BY <1>1, <2>2 DEF TypeOK
    <3>2. CallOfVersion(d)'
      BY <1>1, <3>1, CallsStay
    <3> QED BY <2>1, <3>2
  <2> QED BY <2>1, <2>2
<1>3. \A i \in DOMAIN sources' : MadeFromBefore(i)'
  BY <1>1, MadeStays
<1>4. ThrowsOnlyOnNoObject'
  BY <1>1, ThrownStays
<1> QED
  BY <1>2, <1>3, <1>4 DEF IInv

\* What the new call of a program is.
LEMMA NewCall ==
    ASSUME TypeOK, NEW c \in Clients, NEW new, call' = [call EXCEPT ![c] = new]
    PROVE  call'[c] = new
BY DEF TypeOK

\* getStreamMetadata is called.
LEMMA GetStep ==
    ASSUME IInv, TypeOK', NEW c \in Clients, GetStreamMetadata(c)
    PROVE  IInv'
<1>1. call'[c].op = "read"
  BY NewCall, ZenonT(60) DEF GetStreamMetadata, IInv
<1>2. CallOfVersion(c)'
  BY <1>1 DEF CallOfVersion
<1> QED
  BY <1>2, CallStep DEF GetStreamMetadata

\* setStreamMetadata is called with anything.
LEMMA SetStep ==
    ASSUME IInv, TypeOK', NEW c \in Clients, SetStreamMetadata(c)
    PROVE  IInv'
<1>1. PICK document, expected : Write(c, document, expected, Fresh)
  BY DEF SetStreamMetadata
<1>2. call'[c].op = "write" /\ call'[c].source = Fresh
  <2>1. call'[c] = [op |-> "write", document |-> document, source |-> Fresh, expected |-> expected]
    BY <1>1, NewCall DEF Write, IInv
  <2> QED BY <2>1
<1>3. CallOfVersion(c)'
  BY <1>2 DEF CallOfVersion, Fresh
<1> QED
  BY <1>1, <1>3, CallStep DEF Write

\* setStreamMetadata is called with what was got, which is of one version.
LEMMA SetBackStep ==
    ASSUME IInv, TypeOK', NEW c \in Clients, SetBackMetadata(c)
    PROVE  IInv'
<1>1. Write(c, ToJSON(result[c].StreamMetadata), result[c].MetastreamVersion, SetBack(result[c]))
  BY DEF SetBackMetadata
<1>2. /\ call'[c].op = "write" /\ call'[c].source = SetBack(result[c])
      /\ call'[c].document = ToJSON(result[c].StreamMetadata)
      /\ call'[c].expected = result[c].MetastreamVersion
  <2>1. call'[c] = [op |-> "write", document |-> ToJSON(result[c].StreamMetadata),
                    source |-> SetBack(result[c]), expected |-> result[c].MetastreamVersion]
    BY <1>1, NewCall DEF Write, IInv
  <2> QED BY <2>1
<1>3. call'[c].source.result = result[c] /\ OfOneVersion(result[c])
  BY <1>2 DEF SetBack, IInv
<1>4. OfOneVersion(call[c].source.result)'
  BY <1>1, <1>3 DEF OfOneVersion, Before, Write
<1>5. CallOfVersion(c)'
  BY <1>2, <1>3, <1>4 DEF CallOfVersion
<1> QED
  BY <1>1, <1>5, CallStep DEF Write

\* The server answers a read with the last version.
LEMMA ServeReadStep ==
    ASSUME IInv, TypeOK', NEW c \in Clients, ServeRead(c)
    PROVE  IInv'
<1>1. PICK status, version, document :
          /\ Answers(c, status, version, document)
          /\ status = "StreamDeleted" => deleted
          /\ status = "Success" => /\ metastream # <<>> /\ version = Len(metastream) - 1
                                   /\ document = metastream[Len(metastream)]
  BY DEF ServeRead
<1>2. /\ call'[c].op = "answer" /\ call'[c].status = status /\ call'[c].version = version
      /\ call'[c].document = document
  <2>1. call'[c] = [op |-> "answer", status |-> status, version |-> version, document |-> document]
    BY <1>1, NewCall DEF Answers, IInv
  <2> QED BY <2>1
<1>3. status = "Success" => version + 1 \in DOMAIN metastream /\ document = metastream[version + 1]
  BY <1>1 DEF IInv, TypeOK
<1>4. CallOfVersion(c)'
  BY <1>1, <1>2, <1>3 DEF CallOfVersion, Answers
<1> QED
  BY <1>1, <1>4, CallStep DEF Answers
\* The program gets what its answer is about, or dies of bytes that are no JSON.
LEMMA GotStep ==
    ASSUME IInv, TypeOK', NEW c \in Clients, GotMetadata(c)
    PROVE  IInv'
<1>1. /\ TypeOK /\ ThrowsOnlyOnNoObject
      /\ \A d \in Clients : OfOneVersion(result[d]) /\ CallOfVersion(d)
      /\ \A i \in DOMAIN sources : MadeFromBefore(i)
  BY DEF IInv
<1>2. call[c].op = "answer" /\ UNCHANGED <<metastream, deleted, sources>>
      /\ call' = [call EXCEPT ![c] = Idle]
  BY <1>1, GotMetadataEffect
<1>3. ASSUME NEW d \in Clients PROVE CallOfVersion(d)'
  <2>1. CASE d = c
    <3>1. call'[d] = Idle
      BY <1>1, <1>2, <2>1, NewCall
    <3> QED BY <3>1 DEF CallOfVersion, Idle
  <2>2. CASE d # c
    <3>1. call'[d] = call[d] /\ CallOfVersion(d)
      BY <1>1, <1>2, <2>2 DEF TypeOK
    <3> QED BY <1>1, <1>2, <3>1, CallsStay
  <2> QED BY <2>1, <2>2
<1>4. ASSUME NEW d \in Clients, result'[d] = result[d] PROVE OfOneVersion(result[d])'
  BY <1>1, <1>2, <1>4 DEF OfOneVersion, Before
<1>5. ASSUME NEW new, result' = [result EXCEPT ![c] = new],
             new = None \/ IF new.IsStreamDeleted
                           THEN deleted /\ new = DeletedResult
                           ELSE /\ new.MetastreamVersion \in -1..(Len(metastream) - 1)
                                /\ new.StreamMetadata = Before(new.MetastreamVersion + 1),
             NEW d \in Clients
      PROVE  OfOneVersion(result[d])'
  <2>1. CASE d # c
    <3>1. result'[d] = result[d]
      BY <1>1, <1>5, <2>1 DEF TypeOK
    <3> QED BY <1>4, <3>1
  <2>2. CASE d = c
    <3>1. result'[d] = new
      BY <1>1, <1>5, <2>2 DEF TypeOK
    <3> QED BY <1>2, <1>5, <3>1 DEF OfOneVersion, Before
  <2> QED BY <2>1, <2>2
<1>6. /\ \A d \in Clients : OfOneVersion(result[d])'
      /\ ThrowsOnlyOnNoObject'
  <2>1. CASE /\ call[c].status = "Success" /\ Parses(call[c].document)
             /\ result' = [result EXCEPT ![c] =
                    Result(FALSE, call[c].version, FromBytes(call[c].document))]
             /\ crashed' = crashed
    <3> DEFINE new == Result(FALSE, call[c].version, FromBytes(call[c].document))
    <3>1. /\ new.IsStreamDeleted = FALSE /\ new.MetastreamVersion = call[c].version
          /\ new.StreamMetadata = FromBytes(call[c].document)
      BY DEF Result
    <3>2. /\ call[c].version \in Nat /\ call[c].version + 1 \in 1..Len(metastream)
          /\ call[c].document = metastream[call[c].version + 1]
      BY <1>1, <1>2, <2>1, CallFacts DEF CallOfVersion, TypeOK
    <3>3. call[c].version \in -1..(Len(metastream) - 1) /\ call[c].version + 1 > 0
      BY <1>1, <3>2 DEF TypeOK
    <3>4. FromBytes(call[c].document) = Before(call[c].version + 1)
      BY <2>1, <3>2, <3>3 DEF Before, Parses
    <3> HIDE DEF new
    <3>5. result' = [result EXCEPT ![c] = new]
      BY <2>1 DEF new
    <3>6. \A d \in Clients : OfOneVersion(result[d])'
      BY <1>5, <3>1, <3>3, <3>4, <3>5
    <3>7. ThrowsOnlyOnNoObject'
      BY <1>1, <1>2, <2>1, ThrownStays
    <3> QED BY <3>6, <3>7
  <2>2. CASE /\ call[c].status = "Success" /\ ~Parses(call[c].document)
             /\ crashed' = crashed \cup {c} /\ result' = result
    <3>1. call[c].version + 1 \in DOMAIN metastream /\ metastream[call[c].version + 1] \in NoObject
      BY <1>1, <1>2, <2>2 DEF CallOfVersion, Parses
    <3>2. ThrowsOnlyOnNoObject'
      BY <1>2, <3>1 DEF ThrowsOnlyOnNoObject
    <3> QED BY <1>4, <2>2, <3>2
  <2>3. CASE result' = [result EXCEPT ![c] = MissingResult] /\ crashed' = crashed
    <3>1. /\ MissingResult.IsStreamDeleted = FALSE /\ MissingResult.MetastreamVersion = -1
          /\ MissingResult.StreamMetadata = Before(0)
      BY DEF MissingResult, MissingVersion, Result, Before
    <3>2. -1 \in -1..(Len(metastream) - 1) /\ -1 + 1 = 0
      BY <1>1 DEF TypeOK
    <3>3. \A d \in Clients : OfOneVersion(result[d])'
      <4> DEFINE new == MissingResult
      <4>1. /\ new.IsStreamDeleted = FALSE /\ new.MetastreamVersion = -1
            /\ new.StreamMetadata = Before(0) /\ result' = [result EXCEPT ![c] = new]
        BY <2>3, <3>1
      <4> HIDE DEF new
      <4> QED BY <1>5, <3>2, <4>1
    <3>4. ThrowsOnlyOnNoObject'
      BY <1>1, <1>2, <2>3, ThrownStays
    <3> QED BY <3>3, <3>4
  <2>4. CASE /\ call[c].status = "StreamDeleted"
             /\ result' = [result EXCEPT ![c] = DeletedResult] /\ crashed' = crashed
    <3>1. DeletedResult.IsStreamDeleted = TRUE
      BY DEF DeletedResult, Result
    <3>2. deleted
      BY <1>1, <1>2, <2>4 DEF CallOfVersion
    <3>3. \A d \in Clients : OfOneVersion(result[d])'
      BY <1>5, <2>4, <3>1, <3>2
    <3>4. ThrowsOnlyOnNoObject'
      BY <1>1, <1>2, <2>4, ThrownStays
    <3> QED BY <3>3, <3>4
  <2>5. CASE result' = result /\ crashed' = crashed
    <3>1. ThrowsOnlyOnNoObject'
      BY <1>1, <1>2, <2>5, ThrownStays
    <3> QED BY <1>4, <2>5, <3>1
  <2> QED BY <1>1, <2>1, <2>2, <2>3, <2>4, <2>5, GotMetadataEffect
<1>7. \A i \in DOMAIN sources' : MadeFromBefore(i)'
  BY <1>1, <1>2, MadeStays
<1> QED
  BY <1>3, <1>6, <1>7 DEF IInv

\* What is set back is stored only on the version it was got from.
LEMMA ServeWriteStep ==
    ASSUME IInv, TypeOK', NEW c \in Clients, ServeWrite(c)
    PROVE  IInv'
<1>1. /\ TypeOK /\ ThrowsOnlyOnNoObject
      /\ \A d \in Clients : OfOneVersion(result[d]) /\ CallOfVersion(d)
      /\ \A i \in DOMAIN sources : MadeFromBefore(i)
  BY DEF IInv
<1>2. /\ call[c].op = "write" /\ call' = [call EXCEPT ![c] = Idle]
      /\ UNCHANGED <<deleted, result, crashed>>
      /\ \/ /\ ~deleted /\ call[c].expected \in {AnyVersion, Len(metastream) - 1}
            /\ metastream' = Append(metastream, call[c].document)
            /\ sources' = Append(sources, call[c].source)
         \/ UNCHANGED <<metastream, sources>>
  BY DEF ServeWrite
<1>3. ASSUME NEW d \in Clients PROVE OfOneVersion(result[d])' /\ CallOfVersion(d)'
  <2>1. OfOneVersion(result[d])'
    <3>1. \A r \in {None} \cup ResultRecords : OfOneVersion(r) => OfOneVersion(r)'
      BY <1>1, <1>2, VersionsStay
    <3>2. result[d] \in {None} \cup ResultRecords /\ OfOneVersion(result[d])
      BY <1>1 DEF TypeOK
    <3> QED BY <1>2, <3>1, <3>2 DEF OfOneVersion, Before
  <2>2. CASE d = c
    <3>1. call'[d] = Idle
      BY <1>1, <1>2, <2>2, NewCall
    <3> QED BY <2>1, <3>1 DEF CallOfVersion, Idle
  <2>3. CASE d # c
    <3>1. call'[d] = call[d] /\ CallOfVersion(d)
      BY <1>1, <1>2, <2>3 DEF TypeOK
    <3>2. CallOfVersion(d)'
      BY <1>1, <1>2, <3>1, CallsStay
    <3> QED BY <2>1, <3>2
  <2> QED BY <2>2, <2>3
<1>4. ASSUME NEW i \in DOMAIN sources' PROVE MadeFromBefore(i)'
  <2>1. CASE i \in DOMAIN sources
    BY <1>1, <1>2, <2>1, MadeStays
  <2>2. CASE i \notin DOMAIN sources
    <3>1. /\ ~deleted /\ call[c].expected \in {AnyVersion, Len(metastream) - 1}
          /\ metastream' = Append(metastream, call[c].document)
          /\ sources' = Append(sources, call[c].source)
      BY <1>2, <2>2
    <3>2. /\ Len(metastream) \in Nat /\ i = Len(metastream) + 1
          /\ metastream'[i] = call[c].document /\ sources'[i] = call[c].source
      BY <1>1, <2>2, <3>1 DEF TypeOK
    <3>3. CASE call[c].source.kind = "setBack"
      <4> DEFINE r == call[c].source.result
      <4>1. call[c].source \in Sources
        BY <1>1, <1>2, CallFacts
      <4>2. r \in ResultRecords
        BY <3>3, <4>1 DEF Sources, Fresh
      <4>3. /\ OfOneVersion(r) /\ call[c].expected = r.MetastreamVersion
            /\ call[c].document = ToJSON(r.StreamMetadata)
        BY <1>1, <1>2, <3>3 DEF CallOfVersion
      <4> HIDE DEF r
      <4>4. /\ r.MetastreamVersion \in -1..(Len(metastream) - 1)
            /\ r.StreamMetadata = Before(r.MetastreamVersion + 1)
        BY <3>1, <4>2, <4>3, NoneIsNoResult DEF OfOneVersion
      <4>5. r.MetastreamVersion = Len(metastream) - 1
        BY <3>1, <3>2, <4>3, <4>4 DEF AnyVersion
      <4>6. r.MetastreamVersion + 1 = i - 1 /\ i - 1 \in 0..Len(metastream)
        BY <3>2, <4>5
      <4>7. r.StreamMetadata = Before(i - 1)
        BY <4>4, <4>6
      <4>8. Before(i - 1)' = Before(i - 1)
        BY <1>1, <1>2, <4>6, VersionsStay
      <4>9. r = sources'[i].result /\ metastream'[i] = ToJSON(r.StreamMetadata)
        BY <3>2, <4>3 DEF r
      <4> QED BY <4>7, <4>8, <4>9 DEF MadeFromBefore
    <3>4. CASE call[c].source.kind # "setBack"
      BY <3>2, <3>4 DEF MadeFromBefore
    <3> QED BY <3>3, <3>4
  <2> QED BY <2>1, <2>2
<1>5. ThrowsOnlyOnNoObject'
  BY <1>1, <1>2, ThrownStays
<1> QED
  BY <1>3, <1>4, <1>5 DEF IInv

\* Deleting the stream leaves what was got and written.
LEMMA DeleteStep ==
    ASSUME IInv, TypeOK', DeleteStream
    PROVE  IInv'
<1>1. /\ TypeOK /\ ThrowsOnlyOnNoObject
      /\ \A d \in Clients : OfOneVersion(result[d]) /\ CallOfVersion(d)
      /\ \A i \in DOMAIN sources : MadeFromBefore(i)
  BY DEF IInv
<1>2. deleted' /\ UNCHANGED <<metastream, call, result, crashed, sources>>
  BY DEF DeleteStream
<1>3. ASSUME NEW d \in Clients PROVE OfOneVersion(result[d])' /\ CallOfVersion(d)'
  <2>1. OfOneVersion(result[d])'
    <3>1. \A r \in {None} \cup ResultRecords : OfOneVersion(r) => OfOneVersion(r)'
      BY <1>1, <1>2, VersionsStay
    <3>2. result[d] \in {None} \cup ResultRecords /\ OfOneVersion(result[d])
      BY <1>1 DEF TypeOK
    <3> QED BY <1>2, <3>1, <3>2 DEF OfOneVersion, Before
  <2>2. CallOfVersion(d)'
    BY <1>1, <1>2, CallsStay
  <2> QED BY <2>1, <2>2
<1>4. \A i \in DOMAIN sources' : MadeFromBefore(i)'
  BY <1>1, <1>2, MadeStays
<1>5. ThrowsOnlyOnNoObject'
  BY <1>1, <1>2, ThrownStays
<1> QED
  BY <1>3, <1>4, <1>5 DEF IInv

\* The invariant is inductive.
LEMMA IInvStep ==
    ASSUME IInv, [Next]_vars
    PROVE  IInv'
<1>1. TypeOK'
  BY TypeStep DEF IInv
<1>2. CASE \E c \in Clients : \/ GetStreamMetadata(c) \/ SetStreamMetadata(c) \/ SetBackMetadata(c)
                              \/ GotMetadata(c) \/ ServeRead(c) \/ ServeWrite(c)
  BY <1>1, <1>2, GetStep, SetStep, SetBackStep, GotStep, ServeReadStep, ServeWriteStep
<1>3. CASE DeleteStream
  BY <1>1, <1>3, DeleteStep
<1>4. CASE UNCHANGED vars
  BY <1>1, <1>4 DEF vars, IInv, OfOneVersion, CallOfVersion, MadeFromBefore, Before,
                    ThrowsOnlyOnNoObject
<1> QED
  BY <1>2, <1>3, <1>4 DEF Next

\* What is reachable has it.
LEMMA Invariant == Spec => []IInv
<1> QED BY InitIInv, IInvStep, PTL DEF Spec

-----------------------------------------------------------------------------
(* What the programs may rely on *)

\* Metadata set back under the version they were got with replace exactly the metadata
\* that were got, however many programs read and set them, whatever the server refuses.
THEOREM NoUpdateLost == Spec => []NoLostUpdate
<1>1. IInv => NoLostUpdate
  BY DEF IInv, NoLostUpdate, MadeFromBefore
<1> QED BY <1>1, Invariant, PTL

\* What is set back keeps everything that was got, roles, custom properties and all, but
\* for a maximum count or truncation of 0, which toJSON leaves out.
THEOREM SetBackIsKept == Spec => []SettingBackKeepsAll
<1>1. ASSUME IInv PROVE SettingBackKeepsAll
  <2> SUFFICES ASSUME NEW i \in DOMAIN sources, sources[i].kind = "setBack"
               PROVE  LET old == sources[i].result.StreamMetadata IN
                      FromBytes(metastream[i]) =
                          [old EXCEPT !.MaxCount = Truthy(@), !.TruncateBefore = Truthy(@)]
    BY DEF SettingBackKeepsAll
  <2>1. sources[i] \in Sources
    BY <1>1 DEF IInv, TypeOK
  <2>2. sources[i].result.StreamMetadata \in Metadata
    BY <2>1 DEF Sources, Fresh, ResultRecords
  <2>3. metastream[i] = ToJSON(sources[i].result.StreamMetadata)
    BY <1>1 DEF IInv, MadeFromBefore
  <2> QED BY <2>2, <2>3, WrittenAndReadBack
<1> QED BY <1>1, Invariant, PTL

\* What getStreamMetadata gives is of one version of the metastream, or of a stream that
\* has been deleted.
THEOREM ResultsOfVersions == Spec => []ResultsAreVersions
<1>1. IInv => ResultsAreVersions
  BY DEF IInv, ResultsAreVersions, OfOneVersion
<1> QED BY <1>1, Invariant, PTL

\* Only bytes that hold no JSON object make the callback throw, for any number of
\* programs and whatever they set.
THEOREM OnlyNoObjectThrows == Spec => []ThrowsOnlyOnNoObject
<1>1. IInv => ThrowsOnlyOnNoObject
  BY DEF IInv
<1> QED BY <1>1, Invariant, PTL
=============================================================================
