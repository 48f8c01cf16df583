-------------------------------- MODULE Wire --------------------------------
(***************************************************************************)
(* What the generated code puts on the wire (service/src): the structures  *)
(* of communicate_types.cpp, the arguments and results of every procedure  *)
(* of StoreService.cpp and MasterService.cpp, and the names under which    *)
(* clients call the procedures and processors answer.                      *)
(*                                                                         *)
(* An encoded structure is a sequence of fields, each with its number, its *)
(* type and its value; the value of a structure inside another one is such *)
(* a sequence again.  The bytes of a number or a string are left to        *)
(* TBinaryProtocol.                                                        *)
(***************************************************************************)
EXTENDS Integers, SequencesExt

\* What a read ends with: an object, or TProtocolException::INVALID_DATA.
Object(o) == [throws |-> FALSE, value |-> o]
Invalid   == [throws |-> TRUE, value |-> <<>>]

Field(id, type, value) == [id |-> id, type |-> type, value |-> value]

\* The loop of every read: a field counts when its number is known and its type is
\* the right one, every other field is skipped, and a later one replaces an
\* earlier one.  members gives for every name its number and type.
ReadFields(members, fields) ==
  FoldLeft(LAMBDA read, f :
             LET names == {n \in DOMAIN members : members[n] = <<f.id, f.type>>}
             IN [n \in names |-> f.value] @@ read,
           <<>>, fields)

\* Faulty variant: the members that were not read are not missed.
ReadRequiredLax(members, fields) ==
  LET read == ReadFields(members, fields)
  IN Object([n \in DOMAIN members |-> IF n \in DOMAIN read THEN read[n] ELSE 0])

\* The members of the five structures are all required.
ReadRequired(members, fields) ==
  LET read == ReadFields(members, fields)
  IN IF DOMAIN read = DOMAIN members THEN Object(read) ELSE Invalid

-----------------------------------------------------------------------------
(***************************************************************************)
(* communicate_types.cpp                                                   *)
(***************************************************************************)
ReadChunkInfo(fields) ==
  ReadRequired([file_id |-> <<1, "i16">>, user_id |-> <<2, "i16">>,
                segment_id |-> <<3, "i16">>, chunk_id |-> <<4, "i16">>,
                offset |-> <<5, "i64">>, length |-> <<6, "i64">>], fields)

WriteChunkInfo(o) ==
  << Field(1, "i16", o.file_id), Field(2, "i16", o.user_id),
     Field(3, "i16", o.segment_id), Field(4, "i16", o.chunk_id),
     Field(5, "i64", o.offset), Field(6, "i64", o.length) >>

ReadRequest(fields) ==
  ReadRequired([from_id |-> <<1, "i16">>, to_id |-> <<2, "i16">>,
                scheme |-> <<3, "string">>, data |-> <<4, "list">>,
                length |-> <<5, "i64">>, offset |-> <<6, "i64">>,
                type |-> <<7, "i32">>, partId |-> <<8, "i32">>], fields)

\* Faulty variant: two members have each other's number.
WriteRequestSwapped(o) ==
  << Field(1, "i16", o.from_id), Field(2, "i16", o.to_id),
     Field(3, "string", o.scheme), Field(4, "list", o.data),
     Field(6, "i64", o.length), Field(5, "i64", o.offset),
     Field(7, "i32", o.type), Field(8, "i32", o.partId) >>

WriteRequest(o) ==
  << Field(1, "i16", o.from_id), Field(2, "i16", o.to_id),
     Field(3, "string", o.scheme), Field(4, "list", o.data),
     Field(5, "i64", o.length), Field(6, "i64", o.offset),
     Field(7, "i32", o.type), Field(8, "i32", o.partId) >>

ReadMetaRequest(fields) ==
  ReadRequired([user_id |-> <<1, "i16">>, file_name |-> <<2, "string">>,
                offset |-> <<3, "i64">>, length |-> <<4, "i64">>], fields)

WriteMetaRequest(o) ==
  << Field(1, "i16", o.user_id), Field(2, "string", o.file_name),
     Field(3, "i64", o.offset), Field(4, "i64", o.length) >>

ReadResponse(fields) ==
  ReadRequired([code |-> <<1, "i32">>, data |-> <<2, "list">>], fields)

WriteResponse(o) == << Field(1, "i32", o.code), Field(2, "list", o.data) >>

\* An element of the list that cannot be read ends the read of the whole.
ReadMetaResponse(fields) ==
  LET read  == ReadRequired([info_list |-> <<1, "list">>, code |-> <<2, "i32">>], fields)
      infos == [k \in DOMAIN read.value.info_list |->
                  ReadChunkInfo(read.value.info_list[k])]
  IN IF read.throws THEN Invalid
     ELSE IF \E k \in DOMAIN infos : infos[k].throws THEN Invalid
     ELSE Object([read.value EXCEPT !.info_list =
                    [k \in DOMAIN infos |-> infos[k].value]])

WriteMetaResponse(o) ==
  << Field(1, "list", [k \in DOMAIN o.info_list |-> WriteChunkInfo(o.info_list[k])]),
     Field(2, "i32", o.code) >>

\* The structure a member is declared with.
Write(struct, o) ==
  CASE struct = "ChunkInfo"    -> WriteChunkInfo(o)
    [] struct = "Request"      -> WriteRequest(o)
    [] struct = "MetaRequest"  -> WriteMetaRequest(o)
    [] struct = "Response"     -> WriteResponse(o)
    [] struct = "MetaResponse" -> WriteMetaResponse(o)

Read(struct, fields) ==
  CASE struct = "ChunkInfo"    -> ReadChunkInfo(fields)
    [] struct = "Request"      -> ReadRequest(fields)
    [] struct = "MetaRequest"  -> ReadMetaRequest(fields)
    [] struct = "Response"     -> ReadResponse(fields)
    [] struct = "MetaResponse" -> ReadMetaResponse(fields)

-----------------------------------------------------------------------------
(***************************************************************************)
(* Arguments and results: a structure with one optional member.            *)
(***************************************************************************)
Member(name, id, struct) == [name |-> name, id |-> id, struct |-> struct]

WriteMember(member, o) == << Field(member.id, "struct", Write(member.struct, o)) >>

\* The value is <<>> when the member was not there, <<object>> when it was.
ReadMember(member, fields) ==
  LET read == ReadFields([m \in {member.name} |-> <<member.id, "struct">>], fields)
      o    == Read(member.struct, read[member.name])
  IN IF read = <<>> THEN Object(<<>>)
     ELSE IF o.throws THEN Invalid ELSE Object(<<o.value>>)

create_args       == Member("request", 1, "Request")
write_args        == Member("request", 1, "Request")
read_args         == Member("request", 1, "Request")
degrade_read_args == Member("request", 1, "Request")
merge_args        == Member("request", 1, "Request")
clear_args        == Member("request", 1, "Request")
getChunkServer_args == Member("request", 1, "MetaRequest")

create_result       == Member("success", 0, "Response")
write_result        == Member("success", 0, "Response")
read_result         == Member("success", 0, "Response")
degrade_read_result == Member("success", 0, "Response")
merge_result        == Member("success", 0, "Response")
clear_result        == Member("success", 0, "Response")
getChunkServer_result == Member("success", 0, "MetaResponse")

-----------------------------------------------------------------------------
(***************************************************************************)
(* The processors: for a procedure, what it reads and what it answers.     *)
(***************************************************************************)
Procedure(name, args, result) == [name |-> name, args |-> args, result |-> result]

process_create         == Procedure("create", create_args, create_result)
process_write          == Procedure("write", write_args, write_result)
process_read           == Procedure("read", read_args, read_result)
process_degrade_read   == Procedure("degrade_read", degrade_read_args, degrade_read_result)
process_merge          == Procedure("merge", merge_args, merge_result)
process_clear          == Procedure("clear", clear_args, clear_result)
process_getChunkServer == Procedure("getChunkServer", getChunkServer_args, getChunkServer_result)

StoreProcessMap ==
  [create |-> process_create, write |-> process_write, read |-> process_read,
   degrade_read |-> process_degrade_read, merge |-> process_merge, clear |-> process_clear]

MasterProcessMap == [getChunkServer |-> process_getChunkServer]

-----------------------------------------------------------------------------
(***************************************************************************)
(* The two clients of a service: the name of the procedure they call, what *)
(* they write and read, and the name they want to find on the answer.      *)
(***************************************************************************)
Stub(name, args, result, expects) ==
  [name |-> name, args |-> args, result |-> result, expects |-> expects]

Client_create         == Stub("create", create_args, create_result, "create")
Client_write          == Stub("write", write_args, write_result, "write")
Client_read           == Stub("read", read_args, read_result, "read")
Client_degrade_read   == Stub("degrade_read", degrade_read_args, degrade_read_result, "degrade_read")
Client_merge          == Stub("merge", merge_args, merge_result, "merge")
Client_clear          == Stub("clear", clear_args, clear_result, "clear")
Client_getChunkServer ==
  Stub("getChunkServer", getChunkServer_args, getChunkServer_result, "getChunkServer")

ConcurrentClient_create         == Stub("create", create_args, create_result, "create")
ConcurrentClient_write          == Stub("write", write_args, write_result, "write")
ConcurrentClient_read           == Stub("read", read_args, read_result, "read")
ConcurrentClient_degrade_read   == Stub("degrade_read", degrade_read_args, degrade_read_result, "degrade_read")
ConcurrentClient_merge          == Stub("merge", merge_args, merge_result, "merge")
ConcurrentClient_clear          == Stub("clear", clear_args, clear_result, "clear")
ConcurrentClient_getChunkServer ==
  Stub("getChunkServer", getChunkServer_args, getChunkServer_result, "getChunkServer")

StubOf(client, method) ==
  IF client = "plain"
  THEN [create |-> Client_create, write |-> Client_write, read |-> Client_read,
        degrade_read |-> Client_degrade_read, merge |-> Client_merge,
        clear |-> Client_clear, getChunkServer |-> Client_getChunkServer][method]
  ELSE [create |-> ConcurrentClient_create, write |-> ConcurrentClient_write,
        read |-> ConcurrentClient_read, degrade_read |-> ConcurrentClient_degrade_read,
        merge |-> ConcurrentClient_merge, clear |-> ConcurrentClient_clear,
        getChunkServer |-> ConcurrentClient_getChunkServer][method]

-----------------------------------------------------------------------------
(***************************************************************************)
(* Properties.  They have no variables: Rpc states them of its first state. *)
(***************************************************************************)
Structs == {"ChunkInfo", "Request", "MetaRequest", "Response", "MetaResponse"}

\* An object with a value of its own in every member.
Sample(struct) ==
  LET info(n) == [file_id |-> n, user_id |-> n + 1, segment_id |-> n + 2,
                  chunk_id |-> n + 3, offset |-> n + 4, length |-> n + 5]
  IN CASE struct = "ChunkInfo"    -> info(1)
       [] struct = "Request"      -> [from_id |-> 1, to_id |-> 2, scheme |-> 3, data |-> 4,
                                      length |-> 5, offset |-> 6, type |-> 7, partId |-> 8]
       [] struct = "MetaRequest"  -> [user_id |-> 1, file_name |-> 2, offset |-> 3,
                                      length |-> 4]
       [] struct = "Response"     -> [code |-> 1, data |-> 2]
       [] struct = "MetaResponse" -> [code |-> 1, info_list |-> <<info(1), info(11)>>]

\* What a client writes as arguments is what the processor of the procedure reads, and
\* what the processor writes as result is what the client reads; the procedure is
\* found under the name the client sends and answers under the name it expects.
RoundTrips(client, processMap) ==
  \A m \in DOMAIN processMap :
    LET stub == StubOf(client, m)
        p    == processMap[stub.name]
        request  == Sample(stub.args.struct)
        response == Sample(p.result.struct)
    IN /\ p.name = stub.expects
       /\ ReadMember(p.args, WriteMember(stub.args, request)) = Object(<<request>>)
       /\ ReadMember(stub.result, WriteMember(p.result, response)) = Object(<<response>>)

\* Whatever fields come under an unknown number instead of their own, in whatever
\* order, and whatever fields of a wrong type come with them: a structure is read as
\* it was written, or refused.
IncompleteRefused ==
  \A struct \in Structs :
    LET fields == Write(struct, Sample(struct))
    IN \A known \in SUBSET DOMAIN fields :
         LET sent  == [k \in DOMAIN fields |->
                         IF k \in known THEN fields[k] ELSE [fields[k] EXCEPT !.id = 50 + @]]
             wrong == [k \in DOMAIN fields |-> [fields[k] EXCEPT !.type = "bool"]]
         IN Read(struct, Reverse(sent) \o wrong) =
              IF known = DOMAIN fields THEN Object(Sample(struct)) ELSE Invalid
=============================================================================
