--------------------------- MODULE MethodLayouts ----------------------------
(***************************************************************************)
(* What amqp_framing.c and amqp_framing.h say of each method: the fields   *)
(* of its structure, the order and width in which amqp_decode_method reads *)
(* them, the order and width in which amqp_encode_method writes them.  The *)
(* three are transcribed apart from one another, each from its own code.   *)
(* Then the calls that send a method: which one, with which fields set by  *)
(* the call itself, and which answers it waits for.                        *)
(*                                                                         *)
(* A method is named by its constant, without AMQP_ and _METHOD.           *)
(***************************************************************************)
EXTENDS Integers, Sequences, TLC

\* a field and how it is read or written
U8(f)    == [codec |-> "int", bytes |-> 1, field |-> f]
U16(f)   == [codec |-> "int", bytes |-> 2, field |-> f]
U32(f)   == [codec |-> "int", bytes |-> 4, field |-> f]
U64(f)   == [codec |-> "int", bytes |-> 8, field |-> f]
Short(f) == [codec |-> "string", bytes |-> 1, field |-> f]
Long(f)  == [codec |-> "string", bytes |-> 4, field |-> f]
Table(f) == [codec |-> "table", field |-> f]

\* one byte of flags, the first in bit 0
Bits(fs) == [codec |-> "bits", fields |-> fs]

\* the types of the fields of a structure
uint8_t   == "uint8_t"
uint16_t  == "uint16_t"
uint32_t  == "uint32_t"
uint64_t  == "uint64_t"
bytes_t   == "amqp_bytes_t"
table_t   == "amqp_table_t"
boolean_t == "amqp_boolean_t"

AMQP_FRAME_METHOD == 1
AMQP_FRAME_HEADER == 2
AMQP_FRAME_BODY == 3
AMQP_FRAME_HEARTBEAT == 8

\* the classes that have properties, most of them none
AMQP_BASIC_CLASS == 60
PropertyClasses == {10, 20, 30, 40, 50, AMQP_BASIC_CLASS, 90, 85}

\* a structure without fields
Empty == <<>>

-----------------------------------------------------------------------------
\* 0xCCCCMMMM: class and method as one number of 32 bits
Id(class, method) == class * 65536 + method

\* the number of each method
MethodId ==
    [CONNECTION_START |-> Id(10, 10), CONNECTION_START_OK |-> Id(10, 11),
     CONNECTION_SECURE |-> Id(10, 20), CONNECTION_SECURE_OK |-> Id(10, 21),
     CONNECTION_TUNE |-> Id(10, 30), CONNECTION_TUNE_OK |-> Id(10, 31),
     CONNECTION_OPEN |-> Id(10, 40), CONNECTION_OPEN_OK |-> Id(10, 41),
     CONNECTION_CLOSE |-> Id(10, 50), CONNECTION_CLOSE_OK |-> Id(10, 51),
     CONNECTION_BLOCKED |-> Id(10, 60), CONNECTION_UNBLOCKED |-> Id(10, 61),
     CHANNEL_OPEN |-> Id(20, 10), CHANNEL_OPEN_OK |-> Id(20, 11),
     CHANNEL_FLOW |-> Id(20, 20), CHANNEL_FLOW_OK |-> Id(20, 21),
     CHANNEL_CLOSE |-> Id(20, 40), CHANNEL_CLOSE_OK |-> Id(20, 41),
     ACCESS_REQUEST |-> Id(30, 10), ACCESS_REQUEST_OK |-> Id(30, 11),
     EXCHANGE_DECLARE |-> Id(40, 10), EXCHANGE_DECLARE_OK |-> Id(40, 11),
     EXCHANGE_DELETE |-> Id(40, 20), EXCHANGE_DELETE_OK |-> Id(40, 21),
     EXCHANGE_BIND |-> Id(40, 30), EXCHANGE_BIND_OK |-> Id(40, 31),
     EXCHANGE_UNBIND |-> Id(40, 40), EXCHANGE_UNBIND_OK |-> Id(40, 51),
     QUEUE_DECLARE |-> Id(50, 10), QUEUE_DECLARE_OK |-> Id(50, 11),
     QUEUE_BIND |-> Id(50, 20), QUEUE_BIND_OK |-> Id(50, 21),
     QUEUE_PURGE |-> Id(50, 30), QUEUE_PURGE_OK |-> Id(50, 31),
     QUEUE_DELETE |-> Id(50, 40), QUEUE_DELETE_OK |-> Id(50, 41),
     QUEUE_UNBIND |-> Id(50, 50), QUEUE_UNBIND_OK |-> Id(50, 51),
     BASIC_QOS |-> Id(60, 10), BASIC_QOS_OK |-> Id(60, 11),
     BASIC_CONSUME |-> Id(60, 20), BASIC_CONSUME_OK |-> Id(60, 21),
     BASIC_CANCEL |-> Id(60, 30), BASIC_CANCEL_OK |-> Id(60, 31),
     BASIC_PUBLISH |-> Id(60, 40), BASIC_RETURN |-> Id(60, 50),
     BASIC_DELIVER |-> Id(60, 60), BASIC_GET |-> Id(60, 70),
     BASIC_GET_OK |-> Id(60, 71), BASIC_GET_EMPTY |-> Id(60, 72),
     BASIC_ACK |-> Id(60, 80), BASIC_REJECT |-> Id(60, 90),
     BASIC_RECOVER_ASYNC |-> Id(60, 100), BASIC_RECOVER |-> Id(60, 110),
     BASIC_RECOVER_OK |-> Id(60, 111), BASIC_NACK |-> Id(60, 120),
     TX_SELECT |-> Id(90, 10), TX_SELECT_OK |-> Id(90, 11),
     TX_COMMIT |-> Id(90, 20), TX_COMMIT_OK |-> Id(90, 21),
     TX_ROLLBACK |-> Id(90, 30), TX_ROLLBACK_OK |-> Id(90, 31),
     CONFIRM_SELECT |-> Id(85, 10), CONFIRM_SELECT_OK |-> Id(85, 11)]

Method == DOMAIN MethodId

\* the names by their numbers
MethodName == [number \in {MethodId[m] : m \in Method} |->
                  CHOOSE m \in Method : MethodId[m] = number]

amqp_method_name(number) ==
    IF number \in DOMAIN MethodName THEN MethodName[number] ELSE "NULL"

\* the methods that a header frame and body frames follow
amqp_method_has_content(m) ==
    m \in {"BASIC_PUBLISH", "BASIC_RETURN", "BASIC_DELIVER", "BASIC_GET_OK"}

-----------------------------------------------------------------------------
(***************************************************************************)
(* The structures.                                                         *)
(***************************************************************************)
FieldsConnectionStart ==
    [CONNECTION_START |-> [version_major |-> uint8_t,
                           version_minor |-> uint8_t,
                           server_properties |-> table_t,
                           mechanisms |-> bytes_t, locales |-> bytes_t],
     CONNECTION_START_OK |-> [client_properties |-> table_t,
                              mechanism |-> bytes_t, response |-> bytes_t,
                              locale |-> bytes_t],
     CONNECTION_SECURE |-> [challenge |-> bytes_t],
     CONNECTION_SECURE_OK |-> [response |-> bytes_t],
     CONNECTION_TUNE |-> [channel_max |-> uint16_t, frame_max |-> uint32_t,
                          heartbeat |-> uint16_t],
     CONNECTION_TUNE_OK |-> [channel_max |-> uint16_t, frame_max |-> uint32_t,
                             heartbeat |-> uint16_t],
     CONNECTION_OPEN |-> [virtual_host |-> bytes_t, capabilities |-> bytes_t,
                          insist |-> boolean_t]]

FieldsConnectionClose ==
    [CONNECTION_OPEN_OK |-> [known_hosts |-> bytes_t],
     CONNECTION_CLOSE |-> [reply_code |-> uint16_t, reply_text |-> bytes_t,
                           class_id |-> uint16_t, method_id |-> uint16_t],
     CONNECTION_CLOSE_OK |-> Empty,
     CONNECTION_BLOCKED |-> [reason |-> bytes_t],
     CONNECTION_UNBLOCKED |-> Empty]

FieldsChannel ==
    [CHANNEL_OPEN |-> [out_of_band |-> bytes_t],
     CHANNEL_OPEN_OK |-> [channel_id |-> bytes_t],
     CHANNEL_FLOW |-> [active |-> boolean_t],
     CHANNEL_FLOW_OK |-> [active |-> boolean_t],
     CHANNEL_CLOSE |-> [reply_code |-> uint16_t, reply_text |-> bytes_t,
                        class_id |-> uint16_t, method_id |-> uint16_t],
     CHANNEL_CLOSE_OK |-> Empty,
     ACCESS_REQUEST |-> [realm |-> bytes_t, exclusive |-> boolean_t,
                         passive |-> boolean_t, active |-> boolean_t,
                         write |-> boolean_t, read |-> boolean_t],
     ACCESS_REQUEST_OK |-> [ticket |-> uint16_t]]

FieldsExchange ==
    [EXCHANGE_DECLARE |-> [ticket |-> uint16_t, exchange |-> bytes_t,
                           type |-> bytes_t, passive |-> boolean_t,
                           durable |-> boolean_t, auto_delete |-> boolean_t,
                           internal |-> boolean_t, nowait |-> boolean_t,
                           arguments |-> table_t],
     EXCHANGE_DECLARE_OK |-> Empty,
     EXCHANGE_DELETE |-> [ticket |-> uint16_t, exchange |-> bytes_t,
                          if_unused |-> boolean_t, nowait |-> boolean_t],
     EXCHANGE_DELETE_OK |-> Empty,
     EXCHANGE_BIND |-> [ticket |-> uint16_t, destination |-> bytes_t,
                        source |-> bytes_t, routing_key |-> bytes_t,
                        nowait |-> boolean_t, arguments |-> table_t],
     EXCHANGE_BIND_OK |-> Empty]

FieldsBinding ==
    [EXCHANGE_UNBIND |-> [ticket |-> uint16_t, destination |-> bytes_t,
                          source |-> bytes_t, routing_key |-> bytes_t,
                          nowait |-> boolean_t, arguments |-> table_t],
     EXCHANGE_UNBIND_OK |-> Empty,
     QUEUE_DECLARE |-> [ticket |-> uint16_t, queue |-> bytes_t,
                        passive |-> boolean_t, durable |-> boolean_t,
                        exclusive |-> boolean_t, auto_delete |-> boolean_t,
                        nowait |-> boolean_t, arguments |-> table_t],
     QUEUE_DECLARE_OK |-> [queue |-> bytes_t, message_count |-> uint32_t,
                           consumer_count |-> uint32_t],
     QUEUE_BIND |-> [ticket |-> uint16_t, queue |-> bytes_t,
                     exchange |-> bytes_t, routing_key |-> bytes_t,
                     nowait |-> boolean_t, arguments |-> table_t],
     QUEUE_BIND_OK |-> Empty]

FieldsQueueDelete ==
    [QUEUE_PURGE |-> [ticket |-> uint16_t, queue |-> bytes_t,
                      nowait |-> boolean_t],
     QUEUE_PURGE_OK |-> [message_count |-> uint32_t],
     QUEUE_DELETE |-> [ticket |-> uint16_t, queue |-> bytes_t,
                       if_unused |-> boolean_t, if_empty |-> boolean_t,
                       nowait |-> boolean_t],
     QUEUE_DELETE_OK |-> [message_count |-> uint32_t],
     QUEUE_UNBIND |-> [ticket |-> uint16_t, queue |-> bytes_t,
                       exchange |-> bytes_t, routing_key |-> bytes_t,
                       arguments |-> table_t],
     QUEUE_UNBIND_OK |-> Empty]

FieldsConsume ==
    [BASIC_QOS |-> [prefetch_size |-> uint32_t, prefetch_count |-> uint16_t,
                    global |-> boolean_t],
     BASIC_QOS_OK |-> Empty,
     BASIC_CONSUME |-> [ticket |-> uint16_t, queue |-> bytes_t,
                        consumer_tag |-> bytes_t, no_local |-> boolean_t,
                        no_ack |-> boolean_t, exclusive |-> boolean_t,
                        nowait |-> boolean_t, arguments |-> table_t],
     BASIC_CONSUME_OK |-> [consumer_tag |-> bytes_t],
     BASIC_CANCEL |-> [consumer_tag |-> bytes_t, nowait |-> boolean_t],
     BASIC_CANCEL_OK |-> [consumer_tag |-> bytes_t]]

FieldsPublish ==
    [BASIC_PUBLISH |-> [ticket |-> uint16_t, exchange |-> bytes_t,
                        routing_key |-> bytes_t, mandatory |-> boolean_t,
                        immediate |-> boolean_t],
     BASIC_RETURN |-> [reply_code |-> uint16_t, reply_text |-> bytes_t,
                       exchange |-> bytes_t, routing_key |-> bytes_t],
     BASIC_DELIVER |-> [consumer_tag |-> bytes_t, delivery_tag |-> uint64_t,
                        redelivered |-> boolean_t, exchange |-> bytes_t,
                        routing_key |-> bytes_t],
     BASIC_GET |-> [ticket |-> uint16_t, queue |-> bytes_t,
                    no_ack |-> boolean_t],
     BASIC_GET_OK |-> [delivery_tag |-> uint64_t, redelivered |-> boolean_t,
                       exchange |-> bytes_t, routing_key |-> bytes_t,
                       message_count |-> uint32_t]]

FieldsAck ==
    [BASIC_GET_EMPTY |-> [cluster_id |-> bytes_t],
     BASIC_ACK |-> [delivery_tag |-> uint64_t, multiple |-> boolean_t],
     BASIC_REJECT |-> [delivery_tag |-> uint64_t, requeue |-> boolean_t],
     BASIC_RECOVER_ASYNC |-> [requeue |-> boolean_t],
     BASIC_RECOVER |-> [requeue |-> boolean_t],
     BASIC_RECOVER_OK |-> Empty,
     BASIC_NACK |-> [delivery_tag |-> uint64_t, multiple |-> boolean_t,
                     requeue |-> boolean_t]]

FieldsTx ==
    [TX_SELECT |-> Empty,
     TX_SELECT_OK |-> Empty,
     TX_COMMIT |-> Empty,
     TX_COMMIT_OK |-> Empty,
     TX_ROLLBACK |-> Empty,
     TX_ROLLBACK_OK |-> Empty,
     CONFIRM_SELECT |-> [nowait |-> boolean_t],
     CONFIRM_SELECT_OK |-> Empty]

FieldGroups ==
    {FieldsConnectionStart, FieldsConnectionClose, FieldsChannel, FieldsExchange, FieldsBinding,
     FieldsQueueDelete, FieldsConsume, FieldsPublish, FieldsAck, FieldsTx}

Fields == [m \in UNION {DOMAIN group : group \in FieldGroups} |->
              (CHOOSE group \in FieldGroups : m \in DOMAIN group)[m]]

-----------------------------------------------------------------------------
(***************************************************************************)
(* amqp_decode_method.                                                     *)
(***************************************************************************)
DecodeConnectionStart ==
    [CONNECTION_START |-> <<U8("version_major"), U8("version_minor"),
                            Table("server_properties"), Long("mechanisms"),
                            Long("locales")>>,
     CONNECTION_START_OK |-> <<Table("client_properties"), Short("mechanism"),
                               Long("response"), Short("locale")>>,
     CONNECTION_SECURE |-> <<Long("challenge")>>,
     CONNECTION_SECURE_OK |-> <<Long("response")>>,
     CONNECTION_TUNE |-> <<U16("channel_max"), U32("frame_max"),
                           U16("heartbeat")>>,
     CONNECTION_TUNE_OK |-> <<U16("channel_max"), U32("frame_max"),
                              U16("heartbeat")>>,
     CONNECTION_OPEN |-> <<Short("virtual_host"), Short("capabilities"),
                           Bits(<<"insist">>)>>]

DecodeConnectionClose ==
    [CONNECTION_OPEN_OK |-> <<Short("known_hosts")>>,
     CONNECTION_CLOSE |-> <<U16("reply_code"), Short("reply_text"),
                            U16("class_id"), U16("method_id")>>,
     CONNECTION_CLOSE_OK |-> <<>>,
     CONNECTION_BLOCKED |-> <<Short("reason")>>,
     CONNECTION_UNBLOCKED |-> <<>>]

DecodeChannel ==
    [CHANNEL_OPEN |-> <<Short("out_of_band")>>,
     CHANNEL_OPEN_OK |-> <<Long("channel_id")>>,
     CHANNEL_FLOW |-> <<Bits(<<"active">>)>>,
     CHANNEL_FLOW_OK |-> <<Bits(<<"active">>)>>,
     CHANNEL_CLOSE |-> <<U16("reply_code"), Short("reply_text"),
                         U16("class_id"), U16("method_id")>>,
     CHANNEL_CLOSE_OK |-> <<>>,
     ACCESS_REQUEST |->
         <<Short("realm"),
           Bits(<<"exclusive", "passive", "active", "write", "read">>)>>,
     ACCESS_REQUEST_OK |-> <<U16("ticket")>>]

DecodeExchange ==
    [EXCHANGE_DECLARE |->
         <<U16("ticket"), Short("exchange"), Short("type"),
           Bits(<<"passive", "durable", "auto_delete", "internal", "nowait">>),
           Table("arguments")>>,
     EXCHANGE_DECLARE_OK |-> <<>>,
     EXCHANGE_DELETE |-> <<U16("ticket"), Short("exchange"),
                           Bits(<<"if_unused", "nowait">>)>>,
     EXCHANGE_DELETE_OK |-> <<>>,
     EXCHANGE_BIND |-> <<U16("ticket"), Short("destination"), Short("source"),
                         Short("routing_key"), Bits(<<"nowait">>),
                         Table("arguments")>>,
     EXCHANGE_BIND_OK |-> <<>>]

DecodeBinding ==
    [EXCHANGE_UNBIND |-> <<U16("ticket"), Short("destination"),
                           Short("source"), Short("routing_key"),
                           Bits(<<"nowait">>), Table("arguments")>>,
     EXCHANGE_UNBIND_OK |-> <<>>,
     QUEUE_DECLARE |->
         <<U16("ticket"), Short("queue"),
           Bits(<<"passive", "durable", "exclusive", "auto_delete", "nowait">>),
           Table("arguments")>>,
     QUEUE_DECLARE_OK |-> <<Short("queue"), U32("message_count"),
                            U32("consumer_count")>>,
     QUEUE_BIND |-> <<U16("ticket"), Short("queue"), Short("exchange"),
                      Short("routing_key"), Bits(<<"nowait">>),
                      Table("arguments")>>,
     QUEUE_BIND_OK |-> <<>>]

DecodeQueueDelete ==
    [QUEUE_PURGE |-> <<U16("ticket"), Short("queue"), Bits(<<"nowait">>)>>,
     QUEUE_PURGE_OK |-> <<U32("message_count")>>,
     QUEUE_DELETE |-> <<U16("ticket"), Short("queue"),
                        Bits(<<"if_unused", "if_empty", "nowait">>)>>,
     QUEUE_DELETE_OK |-> <<U32("message_count")>>,
     QUEUE_UNBIND |-> <<U16("ticket"), Short("queue"), Short("exchange"),
                        Short("routing_key"), Table("arguments")>>,
     QUEUE_UNBIND_OK |-> <<>>]

DecodeConsume ==
    [BASIC_QOS |-> <<U32("prefetch_size"), U16("prefetch_count"),
                     Bits(<<"global">>)>>,
     BASIC_QOS_OK |-> <<>>,
     BASIC_CONSUME |-> <<U16("ticket"), Short("queue"), Short("consumer_tag"),
                         Bits(<<"no_local", "no_ack", "exclusive", "nowait">>),
                         Table("arguments")>>,
     BASIC_CONSUME_OK |-> <<Short("consumer_tag")>>,
     BASIC_CANCEL |-> <<Short("consumer_tag"), Bits(<<"nowait">>)>>,
     BASIC_CANCEL_OK |-> <<Short("consumer_tag")>>]

DecodePublish ==
    [BASIC_PUBLISH |-> <<U16("ticket"), Short("exchange"),
                         Short("routing_key"),
                         Bits(<<"mandatory", "immediate">>)>>,
     BASIC_RETURN |-> <<U16("reply_code"), Short("reply_text"),
                        Short("exchange"), Short("routing_key")>>,
     BASIC_DELIVER |-> <<Short("consumer_tag"), U64("delivery_tag"),
                         Bits(<<"redelivered">>), Short("exchange"),
                         Short("routing_key")>>,
     BASIC_GET |-> <<U16("ticket"), Short("queue"), Bits(<<"no_ack">>)>>,
     BASIC_GET_OK |-> <<U64("delivery_tag"), Bits(<<"redelivered">>),
                        Short("exchange"), Short("routing_key"),
                        U32("message_count")>>]

DecodeAck ==
    [BASIC_GET_EMPTY |-> <<Short("cluster_id")>>,
     BASIC_ACK |-> <<U64("delivery_tag"), Bits(<<"multiple">>)>>,
     BASIC_REJECT |-> <<U64("delivery_tag"), Bits(<<"requeue">>)>>,
     BASIC_RECOVER_ASYNC |-> <<Bits(<<"requeue">>)>>,
     BASIC_RECOVER |-> <<Bits(<<"requeue">>)>>,
     BASIC_RECOVER_OK |-> <<>>,
     BASIC_NACK |-> <<U64("delivery_tag"), Bits(<<"multiple", "requeue">>)>>]

DecodeTx ==
    [TX_SELECT |-> <<>>,
     TX_SELECT_OK |-> <<>>,
     TX_COMMIT |-> <<>>,
     TX_COMMIT_OK |-> <<>>,
     TX_ROLLBACK |-> <<>>,
     TX_ROLLBACK_OK |-> <<>>,
     CONFIRM_SELECT |-> <<Bits(<<"nowait">>)>>,
     CONFIRM_SELECT_OK |-> <<>>]

DecodeLayout ==
    DecodeConnectionStart @@ DecodeConnectionClose @@ DecodeChannel
    @@ DecodeExchange @@ DecodeBinding @@ DecodeQueueDelete @@ DecodeConsume
    @@ DecodePublish @@ DecodeAck @@ DecodeTx

-----------------------------------------------------------------------------
(***************************************************************************)
(* amqp_encode_method.                                                     *)
(***************************************************************************)
EncodeConnectionStart ==
    [CONNECTION_START |-> <<U8("version_major"), U8("version_minor"),
                            Table("server_properties"), Long("mechanisms"),
                            Long("locales")>>,
     CONNECTION_START_OK |-> <<Table("client_properties"), Short("mechanism"),
                               Long("response"), Short("locale")>>,
     CONNECTION_SECURE |-> <<Long("challenge")>>,
     CONNECTION_SECURE_OK |-> <<Long("response")>>,
     CONNECTION_TUNE |-> <<U16("channel_max"), U32("frame_max"),
                           U16("heartbeat")>>,
     CONNECTION_TUNE_OK |-> <<U16("channel_max"), U32("frame_max"),
                              U16("heartbeat")>>,
     CONNECTION_OPEN |-> <<Short("virtual_host"), Short("capabilities"),
                           Bits(<<"insist">>)>>]

EncodeConnectionClose ==
    [CONNECTION_OPEN_OK |-> <<Short("known_hosts")>>,
     CONNECTION_CLOSE |-> <<U16("reply_code"), Short("reply_text"),
                            U16("class_id"), U16("method_id")>>,
     CONNECTION_CLOSE_OK |-> <<>>,
     CONNECTION_BLOCKED |-> <<Short("reason")>>,
     CONNECTION_UNBLOCKED |-> <<>>]

EncodeChannel ==
    [CHANNEL_OPEN |-> <<Short("out_of_band")>>,
     CHANNEL_OPEN_OK |-> <<Long("channel_id")>>,
     CHANNEL_FLOW |-> <<Bits(<<"active">>)>>,
     CHANNEL_FLOW_OK |-> <<Bits(<<"active">>)>>,
     CHANNEL_CLOSE |-> <<U16("reply_code"), Short("reply_text"),
                         U16("class_id"), U16("method_id")>>,
     CHANNEL_CLOSE_OK |-> <<>>,
     ACCESS_REQUEST |->
         <<Short("realm"),
           Bits(<<"exclusive", "passive", "active", "write", "read">>)>>,
     ACCESS_REQUEST_OK |-> <<U16("ticket")>>]

EncodeExchange ==
    [EXCHANGE_DECLARE |->
         <<U16("ticket"), Short("exchange"), Short("type"),
           Bits(<<"passive", "durable", "auto_delete", "internal", "nowait">>),
           Table("arguments")>>,
     EXCHANGE_DECLARE_OK |-> <<>>,
     EXCHANGE_DELETE |-> <<U16("ticket"), Short("exchange"),
                           Bits(<<"if_unused", "nowait">>)>>,
     EXCHANGE_DELETE_OK |-> <<>>,
     EXCHANGE_BIND |-> <<U16("ticket"), Short("destination"), Short("source"),
                         Short("routing_key"), Bits(<<"nowait">>),
                         Table("arguments")>>,
     EXCHANGE_BIND_OK |-> <<>>]

EncodeBinding ==
    [EXCHANGE_UNBIND |-> <<U16("ticket"), Short("destination"),
                           Short("source"), Short("routing_key"),
                           Bits(<<"nowait">>), Table("arguments")>>,
     EXCHANGE_UNBIND_OK |-> <<>>,
     QUEUE_DECLARE |->
         <<U16("ticket"), Short("queue"),
           Bits(<<"passive", "durable", "exclusive", "auto_delete", "nowait">>),
           Table("arguments")>>,
     QUEUE_DECLARE_OK |-> <<Short("queue"), U32("message_count"),
                            U32("consumer_count")>>,
     QUEUE_BIND |-> <<U16("ticket"), Short("queue"), Short("exchange"),
                      Short("routing_key"), Bits(<<"nowait">>),
                      Table("arguments")>>,
     QUEUE_BIND_OK |-> <<>>]

EncodeQueueDelete ==
    [QUEUE_PURGE |-> <<U16("ticket"), Short("queue"), Bits(<<"nowait">>)>>,
     QUEUE_PURGE_OK |-> <<U32("message_count")>>,
     QUEUE_DELETE |-> <<U16("ticket"), Short("queue"),
                        Bits(<<"if_unused", "if_empty", "nowait">>)>>,
     QUEUE_DELETE_OK |-> <<U32("message_count")>>,
     QUEUE_UNBIND |-> <<U16("ticket"), Short("queue"), Short("exchange"),
                        Short("routing_key"), Table("arguments")>>,
     QUEUE_UNBIND_OK |-> <<>>]

EncodeConsume ==
    [BASIC_QOS |-> <<U32("prefetch_size"), U16("prefetch_count"),
                     Bits(<<"global">>)>>,
     BASIC_QOS_OK |-> <<>>,
     BASIC_CONSUME |-> <<U16("ticket"), Short("queue"), Short("consumer_tag"),
                         Bits(<<"no_local", "no_ack", "exclusive", "nowait">>),
                         Table("arguments")>>,
     BASIC_CONSUME_OK |-> <<Short("consumer_tag")>>,
     BASIC_CANCEL |-> <<Short("consumer_tag"), Bits(<<"nowait">>)>>,
     BASIC_CANCEL_OK |-> <<Short("consumer_tag")>>]

EncodePublish ==
    [BASIC_PUBLISH |-> <<U16("ticket"), Short("exchange"),
                         Short("routing_key"),
                         Bits(<<"mandatory", "immediate">>)>>,
     BASIC_RETURN |-> <<U16("reply_code"), Short("reply_text"),
                        Short("exchange"), Short("routing_key")>>,
     BASIC_DELIVER |-> <<Short("consumer_tag"), U64("delivery_tag"),
                         Bits(<<"redelivered">>), Short("exchange"),
                         Short("routing_key")>>,
     BASIC_GET |-> <<U16("ticket"), Short("queue"), Bits(<<"no_ack">>)>>,
     BASIC_GET_OK |-> <<U64("delivery_tag"), Bits(<<"redelivered">>),
                        Short("exchange"), Short("routing_key"),
                        U32("message_count")>>]

EncodeAck ==
    [BASIC_GET_EMPTY |-> <<Short("cluster_id")>>,
     BASIC_ACK |-> <<U64("delivery_tag"), Bits(<<"multiple">>)>>,
     BASIC_REJECT |-> <<U64("delivery_tag"), Bits(<<"requeue">>)>>,
     BASIC_RECOVER_ASYNC |-> <<Bits(<<"requeue">>)>>,
     BASIC_RECOVER |-> <<Bits(<<"requeue">>)>>,
     BASIC_RECOVER_OK |-> <<>>,
     BASIC_NACK |-> <<U64("delivery_tag"), Bits(<<"multiple", "requeue">>)>>]

EncodeTx ==
    [TX_SELECT |-> <<>>,
     TX_SELECT_OK |-> <<>>,
     TX_COMMIT |-> <<>>,
     TX_COMMIT_OK |-> <<>>,
     TX_ROLLBACK |-> <<>>,
     TX_ROLLBACK_OK |-> <<>>,
     CONFIRM_SELECT |-> <<Bits(<<"nowait">>)>>,
     CONFIRM_SELECT_OK |-> <<>>]

EncodeLayout ==
    EncodeConnectionStart @@ EncodeConnectionClose @@ EncodeChannel
    @@ EncodeExchange @@ EncodeBinding @@ EncodeQueueDelete @@ EncodeConsume
    @@ EncodePublish @@ EncodeAck @@ EncodeTx

-----------------------------------------------------------------------------
(***************************************************************************)
(* The calls.  Rpc: amqp_simple_rpc_decoded sends the request and waits    *)
(* for one of the answers.  SendOnly: amqp_send_method waits for none.     *)
(* fixed are the fields that the call sets itself; the application gives   *)
(* the others.                                                             *)
(***************************************************************************)
Rpc(request, replies, fixed) ==
    [request |-> request, replies |-> replies, fixed |-> fixed]

SendOnly(request, fixed) == Rpc(request, {}, fixed)

ExchangeCalls ==
    [amqp_channel_open |-> Rpc("CHANNEL_OPEN", {"CHANNEL_OPEN_OK"},
         [out_of_band |-> <<>>]),
     amqp_channel_flow |-> Rpc("CHANNEL_FLOW", {"CHANNEL_FLOW_OK"}, Empty),
     amqp_exchange_declare |-> Rpc("EXCHANGE_DECLARE", {"EXCHANGE_DECLARE_OK"},
         [ticket |-> 0, nowait |-> FALSE]),
     amqp_exchange_delete |-> Rpc("EXCHANGE_DELETE", {"EXCHANGE_DELETE_OK"},
         [ticket |-> 0, nowait |-> FALSE]),
     amqp_exchange_bind |-> Rpc("EXCHANGE_BIND", {"EXCHANGE_BIND_OK"},
         [ticket |-> 0, nowait |-> FALSE]),
     amqp_exchange_unbind |-> Rpc("EXCHANGE_UNBIND", {"EXCHANGE_UNBIND_OK"},
         [ticket |-> 0, nowait |-> FALSE])]

QueueCalls ==
    [amqp_queue_declare |-> Rpc("QUEUE_DECLARE", {"QUEUE_DECLARE_OK"},
         [ticket |-> 0, nowait |-> FALSE]),
     amqp_queue_bind |-> Rpc("QUEUE_BIND", {"QUEUE_BIND_OK"},
         [ticket |-> 0, nowait |-> FALSE]),
     amqp_queue_purge |-> Rpc("QUEUE_PURGE", {"QUEUE_PURGE_OK"},
         [ticket |-> 0, nowait |-> FALSE]),
     amqp_queue_delete |-> Rpc("QUEUE_DELETE", {"QUEUE_DELETE_OK"},
         [ticket |-> 0, nowait |-> FALSE]),
     amqp_queue_unbind |-> Rpc("QUEUE_UNBIND", {"QUEUE_UNBIND_OK"},
         [ticket |-> 0])]

BasicCalls ==
    [amqp_basic_qos |-> Rpc("BASIC_QOS", {"BASIC_QOS_OK"}, Empty),
     amqp_basic_consume |-> Rpc("BASIC_CONSUME", {"BASIC_CONSUME_OK"},
         [ticket |-> 0, nowait |-> FALSE]),
     amqp_basic_cancel |-> Rpc("BASIC_CANCEL", {"BASIC_CANCEL_OK"},
         [nowait |-> FALSE]),
     amqp_basic_recover |-> Rpc("BASIC_RECOVER", {"BASIC_RECOVER_OK"}, Empty)]

\* confirm.select with the nowait that the application set
TxCallsAsGiven ==
    [amqp_tx_select |-> Rpc("TX_SELECT", {"TX_SELECT_OK"}, Empty),
     amqp_tx_commit |-> Rpc("TX_COMMIT", {"TX_COMMIT_OK"}, Empty),
     amqp_tx_rollback |-> Rpc("TX_ROLLBACK", {"TX_ROLLBACK_OK"}, Empty),
     amqp_confirm_select |-> Rpc("CONFIRM_SELECT", {"CONFIRM_SELECT_OK"}, Empty)]

TxCalls ==
    [amqp_tx_select |-> Rpc("TX_SELECT", {"TX_SELECT_OK"}, Empty),
     amqp_tx_commit |-> Rpc("TX_COMMIT", {"TX_COMMIT_OK"}, Empty),
     amqp_tx_rollback |-> Rpc("TX_ROLLBACK", {"TX_ROLLBACK_OK"}, Empty),
     amqp_confirm_select |-> Rpc("CONFIRM_SELECT", {"CONFIRM_SELECT_OK"},
         [nowait |-> FALSE])]

\* the calls of amqp_api.c; the two that close give a reply code and its text
ApiCalls ==
    [amqp_channel_close |-> Rpc("CHANNEL_CLOSE", {"CHANNEL_CLOSE_OK"},
         [class_id |-> 0, method_id |-> 0]),
     amqp_connection_close |-> Rpc("CONNECTION_CLOSE", {"CONNECTION_CLOSE_OK"},
         [class_id |-> 0, method_id |-> 0]),
     amqp_basic_ack |-> SendOnly("BASIC_ACK", Empty),
     amqp_basic_get |-> Rpc("BASIC_GET", {"BASIC_GET_OK", "BASIC_GET_EMPTY"},
         [ticket |-> 0]),
     amqp_basic_reject |-> SendOnly("BASIC_REJECT", Empty),
     amqp_basic_nack |-> SendOnly("BASIC_NACK", Empty)]

CallGroups == {ExchangeCalls, QueueCalls, BasicCalls, TxCalls, ApiCalls}

Call == [c \in UNION {DOMAIN group : group \in CallGroups} |->
            (CHOOSE group \in CallGroups : c \in DOMAIN group)[c]]
=============================================================================
