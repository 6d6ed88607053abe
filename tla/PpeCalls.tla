------------------------------ MODULE PpeCalls ------------------------------
(***************************************************************************)
(* The interface between the light library (ptl_light_lib.c), linked with  *)
(* each application, and the portals process engine (p4ppe.c), which runs  *)
(* every call for it.  A call travels in a ppebuf: the library fills the   *)
(* request fields of the message, the engine's handler takes them, and     *)
(* writes the reply fields, which the library reads.  The message is a     *)
(* union (ptl_ppe.h), so a field that one side forgets holds whatever the  *)
(* buffer's last call left there.                                          *)
(*                                                                         *)
(* Each call has two entries here, one from each file: what the library    *)
(* sends and reads, and what the handler takes and writes.                 *)
(***************************************************************************)
EXTENDS TLC

\* The arguments most data movement calls have.
MoveArgs == {"length", "target_id", "pt_index", "match_bits",
             "remote_offset", "user_ptr"}
OneMD == {"md_handle", "local_offset"}
TwoMDs == {"get_md_handle", "local_get_offset",
           "put_md_handle", "local_put_offset"}
Trigger == {"trig_ct_handle", "threshold"}
EntryArgs == {"ni_handle", "pt_index", "user_ptr"}

\* A call: its request fields and its reply fields.
Call(request, reply) == [request |-> request, reply |-> reply]
Status == {"ret"}
---------------------------------------------------------------------------
(* What the light library sends and reads, call by call. *)

\* PtlInit and PtlFini.  The status of PtlFini is copied and never used.
SendsStart ==
    [PtlInit |-> Call({}, Status),
     PtlFini |-> Call({}, {})]

SendsInterface ==
    [PtlNIInit   |-> Call({"iface", "options", "pid", "with_desired"},
                          Status \cup {"actual", "ni_handle"}),
     PtlNIFini   |-> Call({"ni_handle"}, Status),
     PtlNIStatus |-> Call({"ni_handle", "status_register"},
                          Status \cup {"status"}),
     PtlNIHandle |-> Call({"handle"}, Status \cup {"ni_handle"}),
     PtlSetMap   |-> Call({"ni_handle", "map_size", "mapping"}, Status)]

SendsTable ==
    [PtlGetMap    |-> Call({"ni_handle", "map_size", "mapping"},
                           Status \cup {"actual_map_size"}),
     PtlPTAlloc   |-> Call({"ni_handle", "options", "eq_handle",
                            "pt_index_req"}, Status \cup {"pt_index"}),
     PtlPTFree    |-> Call({"ni_handle", "pt_index"}, Status),
     PtlPTDisable |-> Call({"ni_handle", "pt_index"}, Status),
     PtlPTEnable  |-> Call({"ni_handle", "pt_index"}, Status)]

SendsIdentity ==
    [PtlGetUid    |-> Call({"ni_handle"}, Status \cup {"uid"}),
     PtlGetId     |-> Call({"ni_handle"}, Status \cup {"id"}),
     PtlGetPhysId |-> Call({"ni_handle"}, Status \cup {"id"}),
     PtlMDBind    |-> Call({"ni_handle", "md"}, Status \cup {"md_handle"}),
     PtlMDRelease |-> Call({"md_handle"}, Status)]

SendsLE ==
    [PtlLEAppend |-> Call(EntryArgs \cup {"le", "ptl_list"},
                          Status \cup {"le_handle"}),
     PtlLEUnlink |-> Call({"le_handle"}, Status),
     PtlLESearch |-> Call(EntryArgs \cup {"le", "ptl_search_op"}, Status)]

SendsME ==
    [PtlMEAppend |-> Call(EntryArgs \cup {"me", "ptl_list"},
                          Status \cup {"me_handle"}),
     PtlMEUnlink |-> Call({"me_handle"}, Status),
     PtlMESearch |-> Call(EntryArgs \cup {"me", "ptl_search_op"}, Status)]

SendsCounter ==
    [PtlCTAlloc |-> Call({"ni_handle"}, Status \cup {"ct_handle", "ct_mapping"}),
     PtlCTFree  |-> Call({"ct_handle"}, Status),
     PtlCTCancelTriggered |-> Call({"ct_handle"}, Status)]

SendsCount ==
    [PtlCTSet |-> Call({"ct_handle", "new_ct"}, Status),
     PtlCTInc |-> Call({"ct_handle", "increment"}, Status)]

SendsMove ==
    [PtlPut    |-> Call(MoveArgs \cup OneMD \cup {"ack_req", "hdr_data"}, Status),
     PtlGet    |-> Call(MoveArgs \cup OneMD, Status),
     PtlAtomic |-> Call(MoveArgs \cup OneMD \cup {"ack_req", "hdr_data",
                            "operation", "datatype"}, Status),
     PtlFetchAtomic |-> Call(MoveArgs \cup TwoMDs \cup {"hdr_data",
                            "operation", "datatype"}, Status)]

SendsSwap ==
    [PtlSwap |-> Call(MoveArgs \cup TwoMDs \cup {"hdr_data", "operand",
                      "operation", "datatype"}, Status),
     PtlAtomicSync |-> Call({}, Status)]

SendsEventQueue ==
    [PtlEQAlloc |-> Call({"ni_handle", "count"},
                         Status \cup {"eq_handle", "eqe_list"}),
     PtlEQFree  |-> Call({"eq_handle"}, Status)]

SendsTriggeredMove ==
    [PtlTriggeredPut |-> Call(MoveArgs \cup OneMD \cup Trigger
                              \cup {"ack_req", "hdr_data"}, Status),
     PtlTriggeredGet |-> Call(MoveArgs \cup OneMD \cup Trigger, Status),
     PtlTriggeredAtomic |-> Call(MoveArgs \cup OneMD \cup Trigger
              \cup {"ack_req", "hdr_data", "operation", "datatype"}, Status)]

SendsTriggeredFetch ==
    [PtlTriggeredFetchAtomic |-> Call(MoveArgs \cup TwoMDs \cup Trigger
              \cup {"hdr_data", "operation", "datatype"}, Status),
     PtlTriggeredSwap |-> Call(MoveArgs \cup TwoMDs \cup Trigger
              \cup {"hdr_data", "operand", "operation", "datatype"}, Status),
     PtlTriggeredCTInc |-> Call({"ct_handle", "increment"} \cup Trigger, Status),
     PtlTriggeredCTSet |-> Call({"ct_handle", "new_ct"} \cup Trigger, Status)]

SendsBundle ==
    [PtlStartBundle |-> Call({"ni_handle"}, Status),
     PtlEndBundle   |-> Call({"ni_handle"}, Status)]

\* Every call the library passes to the engine.
Sends == SendsStart @@ SendsInterface @@ SendsTable @@ SendsIdentity
         @@ SendsLE @@ SendsME @@ SendsCounter @@ SendsCount @@ SendsMove
         @@ SendsSwap @@ SendsEventQueue @@ SendsTriggeredMove
         @@ SendsTriggeredFetch @@ SendsBundle
---------------------------------------------------------------------------
(* What the engine's handlers take from the request and write to it.  The  *)
(* reply fields are those of a call that succeeds; one that fails writes   *)
(* its status only.                                                        *)

TakesStart ==
    [PtlInit |-> Call({}, Status),
     PtlFini |-> Call({}, {})]

TakesInterface ==
    [PtlNIInit   |-> Call({"iface", "options", "pid", "with_desired"},
                          Status \cup {"actual", "ni_handle"}),
     PtlNIStatus |-> Call({"ni_handle", "status_register"},
                          Status \cup {"status"}),
     PtlNIFini   |-> Call({"ni_handle"}, Status),
     PtlNIHandle |-> Call({"handle"}, Status \cup {"ni_handle"})]

\* PtlSetMap and PtlGetMap attach the client's array before the call.
TakesMap ==
    [PtlSetMap  |-> Call({"mapping", "map_size", "ni_handle"}, Status),
     PtlGetMap  |-> Call({"mapping", "map_size", "ni_handle"},
                         Status \cup {"actual_map_size"}),
     PtlPTAlloc |-> Call({"ni_handle", "options", "eq_handle",
                          "pt_index_req"}, Status \cup {"pt_index"}),
     PtlPTFree  |-> Call({"ni_handle", "pt_index"}, Status)]

TakesEntry ==
    [PtlMESearch  |-> Call(EntryArgs \cup {"me", "ptl_search_op"}, Status),
     PtlMEAppend  |-> Call(EntryArgs \cup {"me", "ptl_list"},
                           Status \cup {"me_handle"}),
     PtlMEUnlink  |-> Call({"me_handle"}, Status),
     PtlLEAppend  |-> Call(EntryArgs \cup {"le", "ptl_list"},
                           Status \cup {"le_handle"}),
     PtlLESearch  |-> Call(EntryArgs \cup {"le", "ptl_search_op"}, Status),
     PtlLEUnlink  |-> Call({"le_handle"}, Status),
     PtlMDBind    |-> Call({"ni_handle", "md"}, Status \cup {"md_handle"}),
     PtlMDRelease |-> Call({"md_handle"}, Status)]

\* PtlSwap attaches the client's operand before the call.
TakesMove ==
    [PtlGetId  |-> Call({"ni_handle"}, Status \cup {"id"}),
     PtlPut    |-> Call(MoveArgs \cup OneMD \cup {"ack_req", "hdr_data"}, Status),
     PtlGet    |-> Call(MoveArgs \cup OneMD, Status),
     PtlAtomic |-> Call(MoveArgs \cup OneMD \cup {"ack_req", "hdr_data",
                            "operation", "datatype"}, Status),
     PtlFetchAtomic |-> Call(MoveArgs \cup TwoMDs \cup {"hdr_data",
                            "operation", "datatype"}, Status),
     PtlSwap   |-> Call(MoveArgs \cup TwoMDs \cup {"hdr_data", "operand",
                        "operation", "datatype"}, Status)]

TakesTriggered ==
    [PtlTriggeredPut |-> Call(MoveArgs \cup OneMD \cup Trigger
                              \cup {"ack_req", "hdr_data"}, Status),
     PtlTriggeredGet |-> Call(MoveArgs \cup OneMD \cup Trigger, Status),
     PtlTriggeredAtomic |-> Call(MoveArgs \cup OneMD \cup Trigger
              \cup {"ack_req", "hdr_data", "operation", "datatype"}, Status),
     PtlTriggeredFetchAtomic |-> Call(MoveArgs \cup TwoMDs \cup Trigger
              \cup {"hdr_data", "operation", "datatype"}, Status),
     PtlTriggeredSwap |-> Call(MoveArgs \cup TwoMDs \cup Trigger
              \cup {"hdr_data", "operand", "operation", "datatype"}, Status),
     PtlTriggeredCTInc |-> Call({"ct_handle", "increment"} \cup Trigger, Status),
     PtlTriggeredCTSet |-> Call({"ct_handle", "new_ct"} \cup Trigger, Status)]

TakesObject ==
    [PtlGetPhysId |-> Call({"ni_handle"}, Status \cup {"id"}),
     PtlEQAlloc |-> Call({"ni_handle", "count"},
                         Status \cup {"eq_handle", "eqe_list"}),
     PtlEQFree  |-> Call({"eq_handle"}, Status),
     PtlCTAlloc |-> Call({"ni_handle"}, Status \cup {"ct_handle", "ct_mapping"}),
     PtlCTInc   |-> Call({"ct_handle", "increment"}, Status),
     PtlCTSet   |-> Call({"ct_handle", "new_ct"}, Status),
     PtlCTFree  |-> Call({"ct_handle"}, Status)]

TakesRest ==
    [PtlPTDisable  |-> Call({"ni_handle", "pt_index"}, Status),
     PtlPTEnable   |-> Call({"ni_handle", "pt_index"}, Status),
     PtlAtomicSync |-> Call({}, Status),
     PtlCTCancelTriggered |-> Call({"ct_handle"}, Status),
     PtlGetUid      |-> Call({"ni_handle"}, Status \cup {"uid"}),
     PtlStartBundle |-> Call({"ni_handle"}, Status),
     PtlEndBundle   |-> Call({"ni_handle"}, Status),
     PtlAbort       |-> Call({"ni_handle"}, Status)]

\* The engine's dispatch table.
ppe_ops == TakesStart @@ TakesInterface @@ TakesMap @@ TakesEntry
           @@ TakesMove @@ TakesTriggered @@ TakesObject @@ TakesRest

\* The operation codes the two sides share.
ppe_op == {"PtlAbort", "PtlAtomic", "PtlAtomicSync", "PtlCTAlloc",
    "PtlCTCancelTriggered", "PtlCTFree", "PtlCTInc", "PtlCTSet", "PtlEQAlloc", "PtlEQFree",
    "PtlFetchAtomic", "PtlFini", "PtlGet", "PtlGetId", "PtlGetMap",
    "PtlGetPhysId", "PtlGetUid", "PtlInit", "PtlLEAppend", "PtlLESearch",
    "PtlLEUnlink", "PtlMDBind", "PtlMDRelease", "PtlMEAppend", "PtlMESearch",
    "PtlMEUnlink", "PtlNIFini", "PtlNIHandle", "PtlNIInit", "PtlNIStatus",
    "PtlPTAlloc", "PtlPTDisable", "PtlPTEnable", "PtlPTFree", "PtlPut",
    "PtlSetMap", "PtlSwap", "PtlTriggeredAtomic", "PtlTriggeredCTInc",
    "PtlTriggeredCTSet", "PtlTriggeredFetchAtomic", "PtlTriggeredGet",
    "PtlTriggeredPut", "PtlTriggeredSwap", "PtlStartBundle", "PtlEndBundle"}

\* The dispatch table has a handler for every code, and the library sends no
\* other.
ASSUME EveryCallHandled == DOMAIN ppe_ops = ppe_op /\ DOMAIN Sends \subseteq ppe_op
=============================================================================
