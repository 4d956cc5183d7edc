----------------------------- MODULE RilDispatch -----------------------------
(***************************************************************************)
(* The dispatch functions of libril (ril.cpp): they decode the payload of a *)
(* request from its Parcel, hand it to the vendor library with onRequest    *)
(* and free the strings they copied; a payload that cannot be decoded goes  *)
(* to invalidCommandBlock.                                                  *)
(*                                                                          *)
(* A function is the set of its paths, a path the sequence of the calls     *)
(* that matter; which path is taken depends on the version of the vendor    *)
(* library and on the payload.  The Parcel is whatever the client sent: it  *)
(* may end anywhere, any string may be null or empty.  The functions rely   *)
(* on reads staying broken once the Parcel has ended: most of them look at  *)
(* the status of the last read only.                                        *)
(***************************************************************************)
EXTENDS Integers, Sequences

CONSTANTS
    Versions,       \* versions of the vendor library, s_callbacks.version
    MaxCount,       \* bound: strings, or iterations of a loop of reads
    Item            \* the pointers to the strings of an array

\* The other strings that the functions copy, or bytes that they point to.
Named == {"string8", "pdu", "smsc", "address", "path", "data", "pin2", "aidPtr", "number", "apn",
          "protocol", "username", "password", "uusData"}

ASSUME DispatchAssumption == Versions \subseteq Nat /\ MaxCount \in Nat
ASSUME ItemAssumption ==
    \A i, j \in 1 .. MaxCount : Item[i] \notin Named /\ (i # j => Item[i] # Item[j])

\* Calls of a path and the fields they fill.
Op(do, fields) == [do |-> do, f |-> fields]
Ints(fields) == Op("ints", fields)      \* readInt32 or read of one byte, in this order
Loop(f) == Op("loop", <<f>>)            \* as many reads as a field read before says
Str(f) == Op("string", <<f>>)           \* strdupReadString
Text(f) == Op("text", <<f>>)            \* the same from a Parcel copied with writeString16
Raw(f) == Op("raw", <<f>>)              \* readInplace
Check == Op("check", <<>>)              \* if (status != NO_ERROR) goto invalid
NotNull(f) == Op("notNull", <<f>>)      \* if (f == NULL) goto invalid
Refuse == Op("refuse", <<>>)            \* goto invalid
Negative == Op("negative", <<>>)        \* an array of a negative number of elements
NullIfEmpty(f) == Op("nullIfEmpty", <<f>>)
PrintReq == Op("print", <<>>)           \* printRequest(pRI->token, ...)
Call == Op("call", <<>>)                \* s_callbacks.onRequest(..., pRI)
Complete == Op("complete", <<>>)        \* RIL_onRequestComplete(pRI, ...)
Free(f) == Op("free", <<f>>)

Reads == {"ints", "loop"}
\* Stands for the elements of such an array among the fields that were not read.
Elements == "elements"
\* Calls that may follow pRI.  RIL_onRequestComplete only compares it with the list
\* of pending requests first.
UsesRequest == {"check", "notNull", "refuse", "print", "call"}

-----------------------------------------------------------------------------
(* The dispatch functions. *)

strings(n) == [i \in 1 .. n |-> Str(Item[i])] \o <<PrintReq, Call>> \o [i \in 1 .. n |-> Free(Item[i])]

dispatchVoid == {<<PrintReq, Call>>}

dispatchString == {<<Str("string8"), PrintReq, Call, Free("string8")>>}

\* A negative count is not refused.  alloca, or the stack, gets a wrapped size and no
\* element is read; the process dies of it, or hands the array over with that size.
negative(count, next) ==
    {<<Ints(<<count>>), Check, Negative>>, <<Ints(<<count>>), Check, Negative, next, Call>>}

\* A null array (-1) is like an empty one.
dispatchStrings ==
    {<<Ints(<<"countStrings">>), Check>> \o strings(n) : n \in 0 .. MaxCount}
    \cup negative("countStrings", PrintReq)

\* The status is checked inside the loop; only the count 0 is invalid.
dispatchInts ==
    {<<Ints(<<"count">>), Check, Refuse>>}
    \cup {<<Ints(<<"count">>), Check>>
          \o [i \in 1 .. 2 * n |-> IF i % 2 = 1 THEN Ints(<<"pInts">>) ELSE Check]
          \o <<PrintReq, Call>> : n \in 1 .. MaxCount}
    \cup negative("count", PrintReq)

\* smsc is never freed.
dispatchSmsWrite ==
    {<<Ints(<<"status">>), Str("pdu"), Check, NotNull("pdu"), Str("smsc"), PrintReq, Call, Free("pdu")>>}

dispatchDial(version) ==
    LET head == <<Str("address"), Ints(<<"clir">>), Check, NotNull("address")>>
        uusPresent == <<Ints(<<"uusPresent">>), Check>>
        uusInfo == <<Ints(<<"uusType", "uusDcs", "uusLength">>), Check>>
        tail == <<PrintReq, Call, Free("address")>>
    IN IF version < 3 THEN {head \o tail}
       ELSE {head \o uusPresent \o uus \o tail : uus \in {<<>>, uusInfo, uusInfo \o <<Raw("uusData")>>}}

\* Slip: the status is not checked at the end either.
dispatchSIM_IO_Unchecked ==
    {<<Ints(<<"command", "fileid">>), Str("path"), Ints(<<"p1", "p2", "p3">>),
       Str("data"), Str("pin2"), Str("aidPtr"), PrintReq, Call,
       Free("path"), Free("data"), Free("pin2"), Free("aidPtr")>>}

\* The class byte cla is read for RIL_REQUEST_SIM_TRANSMIT_* when the build uses it.
dispatchSIM_IO ==
    {cla \o <<Ints(<<"command", "fileid">>), Str("path"), Ints(<<"p1", "p2", "p3">>),
              Str("data"), Str("pin2"), Str("aidPtr"), PrintReq, Check, Call,
              Free("path"), Free("data"), Free("pin2"), Free("aidPtr")>> :
     cla \in {<<>>, <<Ints(<<"cla">>)>>}}

\* A number of length 0 is replaced by NULL, which leaks it.
dispatchCallForward ==
    {<<Ints(<<"status", "reason", "serviceClass", "toa">>), Str("number"), Ints(<<"timeSeconds">>),
       Check, NullIfEmpty("number"), PrintReq, Call, Free("number")>>}

dispatchRaw == {<<Ints(<<"len">>), Check, Raw("data"), PrintReq, Call>>}

constructCdmaSms ==
    <<Ints(<<"uTeleserviceID", "bIsServicePresent", "uServicecategory", "digit_mode", "number_mode",
             "number_type", "number_plan", "number_of_digits">>), Loop("digits"),
      Ints(<<"subaddressType", "odd", "sub_number_of_digits">>), Loop("sub_digits"),
      Ints(<<"uBearerDataLen">>), Loop("aBearerData"), Check, PrintReq>>

dispatchCdmaSms == {constructCdmaSms \o <<Call>>}

dispatchImsCdmaSms == {constructCdmaSms \o <<Call>>}

dispatchImsGsmSms ==
    {<<Ints(<<"countStrings">>), Check>> \o strings(n) : n \in 0 .. MaxCount}
    \cup negative("countStrings", PrintReq)

\* A format that is neither 3GPP nor 3GPP2 is only logged.
dispatchImsSms ==
    {<<Ints(<<"format">>), Check, Ints(<<"retry">>), Check, Ints(<<"messageRef">>), Check>> \o message :
     message \in dispatchImsGsmSms \cup dispatchImsCdmaSms \cup {<<>>}}

\* Slip: the cause code is read as a string.
dispatchCdmaSmsAck_String == {<<Ints(<<"uErrorClass">>), Str("uSMSCauseCode"), Check, PrintReq, Call>>}

dispatchCdmaSmsAck == {<<Ints(<<"uErrorClass", "uSMSCauseCode">>), Check, PrintReq, Call>>}

dispatchGsmBrSmsCnf ==
    {<<Ints(<<"num">>), Check, Loop("gsmBci"), Check, Call>>} \cup negative("num", Check)

dispatchCdmaBrSmsCnf ==
    {<<Ints(<<"num">>), Check, Loop("cdmaBci"), Check, Call>>} \cup negative("num", Check)

\* The loops have fixed bounds here, the digits of an absent address are read too.
dispatchRilCdmaSmsWriteArgs ==
    {<<Ints(<<"status", "uTeleserviceID", "bIsServicePresent", "uServicecategory", "digit_mode",
              "number_mode", "number_type", "number_plan", "number_of_digits", "digits",
              "subaddressType", "odd", "sub_number_of_digits", "sub_digits", "uBearerDataLen",
              "aBearerData">>), Check, PrintReq, Call>>}

\* A vendor library before version 4 gets the first parameters from a second Parcel.
dispatchDataCall(version) ==
    dispatchStrings
    \cup IF version < 4
           THEN {[i \in 1 .. MaxCount |-> Text(Item[i])] \o <<PrintReq, Call>>
                 \o [i \in 1 .. MaxCount |-> Free(Item[i])]}
           ELSE {}

\* Radio off or unavailable: answered twice, no return in between.  Radio on: passed on.
dispatchVoiceRadioTech == {<<Complete, Complete>>, <<Complete>>} \cup dispatchVoid

dispatchCdmaSubscriptionSource == {<<Complete, Complete>>, <<Complete>>} \cup dispatchVoid

\* Slip: the password is freed with the user name.
dispatchSetInitialAttachApn_Twice ==
    {<<Str("apn"), Str("protocol"), Ints(<<"authtype">>), Str("username"), Str("password"), PrintReq,
       Check, Call, Free("apn"), Free("protocol"), Free("username"), Free("username")>>}

dispatchSetInitialAttachApn ==
    {<<Str("apn"), Str("protocol"), Ints(<<"authtype">>), Str("username"), Str("password"), PrintReq,
       Check, Call, Free("apn"), Free("protocol"), Free("username"), Free("password")>>}

\* Slip: the request is logged once the vendor library has it.
dispatchUiccSubscripton_LogsLate ==
    {<<Ints(<<"slot">>), Check, Ints(<<"app_index">>), Check, Ints(<<"sub_type">>), Check,
       Ints(<<"act_status">>), Check, Call, PrintReq>>}

dispatchUiccSubscripton ==
    {<<Ints(<<"slot">>), Check, Ints(<<"app_index">>), Check, Ints(<<"sub_type">>), Check,
       Ints(<<"act_status">>), Check, PrintReq, Call>>}

\* The paths of the dispatch functions in the table s_commands.
s_commands(version) ==
    UNION {dispatchVoid, dispatchString, dispatchStrings, dispatchInts, dispatchSmsWrite,
           dispatchDial(version), dispatchSIM_IO, dispatchCallForward, dispatchRaw, dispatchCdmaSms,
           dispatchImsSms, dispatchCdmaSmsAck, dispatchGsmBrSmsCnf, dispatchCdmaBrSmsCnf,
           dispatchRilCdmaSmsWriteArgs, dispatchDataCall(version), dispatchVoiceRadioTech,
           dispatchCdmaSubscriptionSource, dispatchSetInitialAttachApn, dispatchUiccSubscripton}

\* No integer is read after the last check before a hand-over, or after it.
Guarded(path) ==
    \A i, j \in 1 .. Len(path) :
        path[i].do = "call" /\ path[j].do \in Reads =>
            j < i /\ \E k \in j + 1 .. i - 1 : path[k].do = "check"

-----------------------------------------------------------------------------
Strings == Named \cup {Item[i] : i \in 1 .. MaxCount}

VARIABLES
    version,        \* s_callbacks.version
    prog,           \* what is left of the running path
    ended,          \* a read has found the end of the Parcel
    status,         \* of the last integer read: "ok", "bad"; "unset" before
    unread,         \* integer fields that were not read: they hold no data of the client
    str,            \* what each string pointer holds
    heap,           \* strings copied by strdupReadString and not yet freed
    handed,         \* onRequest has been called
    request         \* the RequestInfo: "none", "pending", "completed" (and freed)

vars == <<version, prog, ended, status, unread, str, heap, handed, request>>

at(do) == prog # <<>> /\ Head(prog).do = do
field == Head(prog).f[1]
advance == prog' = Tail(prog)

\* processCommandBuffer has queued the request and calls its dispatch function.
processCommandBuffer ==
    /\ prog = <<>>
    /\ prog' \in s_commands(version)
    /\ ended' = FALSE /\ status' = "unset" /\ unread' = {}
    /\ str' = [f \in Strings |-> "unset"] /\ heap' = {}
    /\ handed' = FALSE /\ request' = "pending"
    /\ UNCHANGED version

\* The first k reads succeed, the others find the Parcel at its end.  A failed read
\* leaves the position, so that every later read fails as well.
readInts(fields) ==
    \E k \in IF ended THEN {0} ELSE 0 .. Len(fields) :
        /\ unread' = unread \cup {fields[i] : i \in k + 1 .. Len(fields)}
        /\ status' = IF k = Len(fields) THEN "ok" ELSE "bad"
        /\ ended' = (ended \/ k < Len(fields))
        /\ UNCHANGED <<version, str, heap, handed, request>>

readInt32 ==
    /\ at("ints")
    /\ readInts(Head(prog).f)
    /\ advance

\* Without an iteration the status stays what it was.
readLoop ==
    /\ at("loop")
    /\ \/ UNCHANGED <<version, ended, status, unread, str, heap, handed, request>>
       \/ \E n \in 1 .. MaxCount : readInts([i \in 1 .. n |-> field])
    /\ advance

\* The loop over the array is not entered.
noElements ==
    /\ at("negative")
    /\ unread' = unread \cup {Elements}
    /\ advance
    /\ UNCHANGED <<version, ended, status, str, heap, handed, request>>

\* A null string, or one longer than the Parcel, gives NULL; the status is not touched.
strdupReadString ==
    /\ at("string")
    /\ \E v \in IF ended THEN {"null"} ELSE {"text", "empty", "null"} :
        /\ str' = [str EXCEPT ![field] = v]
        /\ heap' = IF v = "null" THEN heap ELSE heap \cup {field}
        /\ ended' \in IF v = "null" THEN {ended, TRUE} ELSE {ended}
    /\ advance
    /\ UNCHANGED <<version, status, unread, handed, request>>

\* readString16 gives "" where readString16Inplace gives NULL.
copiedString ==
    /\ at("text")
    /\ \E v \in {"text", "empty"} : str' = [str EXCEPT ![field] = v]
    /\ heap' = heap \cup {field}
    /\ advance
    /\ UNCHANGED <<version, ended, status, unread, handed, request>>

\* A length beyond the Parcel gives NULL, which is not looked at.
readInplace ==
    /\ at("raw")
    /\ \E v \in {"text", "null"} : str' = [str EXCEPT ![field] = v]
    /\ advance
    /\ UNCHANGED <<version, ended, status, unread, heap, handed, request>>

\* The request is logged and stays in s_pendingRequests; its strings stay allocated.
invalidCommandBlock ==
    /\ \/ at("check") /\ status = "bad"
       \/ at("notNull") /\ str[field] = "null"
       \/ at("refuse")
    /\ prog' = <<>>
    /\ UNCHANGED <<version, ended, status, unread, str, heap, handed, request>>

\* The tests that a valid payload passes, and the log of the request.
accepted ==
    /\ \/ at("check") /\ status # "bad"
       \/ at("notNull") /\ str[field] # "null"
       \/ at("print")
    /\ advance
    /\ UNCHANGED <<version, ended, status, unread, str, heap, handed, request>>

emptyNumber ==
    /\ at("nullIfEmpty")
    /\ str' = IF str[field] = "empty" THEN [str EXCEPT ![field] = "null"] ELSE str
    /\ advance
    /\ UNCHANGED <<version, ended, status, unread, heap, handed, request>>

onRequest ==
    /\ at("call")
    /\ handed' = TRUE
    /\ advance
    /\ UNCHANGED <<version, ended, status, unread, str, heap, request>>

\* free(NULL) does nothing.
freeString ==
    /\ at("free")
    /\ heap' = IF str[field] = "null" THEN heap ELSE heap \ {field}
    /\ advance
    /\ UNCHANGED <<version, ended, status, unread, str, handed, request>>

\* The dispatch function answers itself.  A second answer finds no pending request.
answerAtOnce ==
    /\ at("complete")
    /\ request' = "completed"
    /\ advance
    /\ UNCHANGED <<version, ended, status, unread, str, heap, handed>>

\* The vendor library answers, on any thread, as soon as it has the request.
RIL_onRequestComplete ==
    /\ handed /\ request = "pending"
    /\ request' = "completed"
    /\ UNCHANGED <<version, prog, ended, status, unread, str, heap, handed>>

Init ==
    /\ version \in Versions
    /\ prog = <<>> /\ ended = FALSE /\ status = "unset" /\ unread = {}
    /\ str = [f \in Strings |-> "unset"] /\ heap = {}
    /\ handed = FALSE /\ request = "none"

Step ==
    \/ readInt32 \/ readLoop \/ noElements \/ strdupReadString \/ copiedString
    \/ readInplace \/ invalidCommandBlock \/ accepted \/ emptyNumber \/ onRequest \/ freeString
    \/ answerAtOnce

Next == processCommandBuffer \/ Step \/ RIL_onRequestComplete

Spec == Init /\ [][Next]_vars

-----------------------------------------------------------------------------
(* Properties. *)

\* The variables have their types, and every path is Guarded: every integer that is
\* read is followed by a check before the hand-over.
TypeOK ==
    /\ version \in Versions /\ Guarded(prog)
    /\ \A i \in 1 .. Len(prog) : prog[i].do \in Reads \cup UsesRequest \cup
           {"negative", "string", "text", "raw", "nullIfEmpty", "complete", "free"}
    /\ ended \in BOOLEAN /\ status \in {"unset", "ok", "bad"}
    /\ str \in [Strings -> {"unset", "text", "empty", "null"}] /\ heap \subseteq Strings
    /\ handed \in BOOLEAN /\ request \in {"none", "pending", "completed"}

\* Wherever the Parcel of the client ends, the vendor library gets no integer field that
\* was not read from it, although dispatchSIM_IO, dispatchCallForward and the CDMA
\* functions look at the status only at the end.  One exception is in the code: the
\* functions that take a count refuse no negative one (dispatchInts refuses 0 only), and
\* then hand over an array none of whose elements was read, with a wrapped length.
FieldsRead == handed => unread \subseteq {Elements}

\* pRI is freed when the request completes, which the vendor library may do on
\* another thread before onRequest returns: from then on nothing that follows in the
\* dispatch function uses pRI, and no request is handed over twice.
RequestAlive ==
    (handed \/ request = "completed") => \A i \in 1 .. Len(prog) : prog[i].do \notin UsesRequest

\* The copied strings: each is freed after the vendor library has used it, never twice;
\* a request that was handed over leaves none behind, except smsc of dispatchSmsWrite
\* and a call-forward number of length 0 (its pointer has been overwritten).
StringsFreed ==
    /\ at("free") => handed /\ (str[field] # "null" => field \in heap)
    /\ handed /\ prog = <<>> => \A f \in heap : f = "smsc" \/ str[f] = "null"
=============================================================================
