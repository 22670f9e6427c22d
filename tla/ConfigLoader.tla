---------------------------- MODULE ConfigLoader ----------------------------
(***************************************************************************)
(* config.cpp: which JSON documents GatewayConfig::from_file accepts, and  *)
(* what configuration it makes of them.  A document is a function from the *)
(* sections that are there to objects, an object one from the keys that    *)
(* are there to values; BadValue is one of a type its field cannot take.   *)
(***************************************************************************)
EXTENDS Integers

CONSTANTS BadValue, Empty      \* Empty: "" and an empty list

(* contains() and value(): what is there, or the default. *)
Value(object, key, default) == IF key \in DOMAIN object THEN object[key] ELSE default

Section(j, name) == IF name \in DOMAIN j THEN j[name] ELSE [key \in {} |-> Empty]

Required == {"md_front", "broker_id", "user_id", "password", "dll_dir", "underlyings"}

(* The numbers that are checked, with their defaults. *)
engine_port(j)              == Value(Section(j, "engine"), "port", 5555)
reconnect_interval_secs(j)  == Value(Section(j, "gateway"), "reconnect_interval_secs", 5)
static_data_timeout_secs(j) == Value(Section(j, "gateway"), "static_data_timeout_secs", 15)
zmq_connect_retries(j)      == Value(Section(j, "gateway"), "zmq_connect_retries", 30)
zmq_connect_retry_interval_ms(j) ==
  Value(Section(j, "gateway"), "zmq_connect_retry_interval_ms", 500)

Ports == 1..65535

Mistyped(j) == \E name \in DOMAIN j : \E key \in DOMAIN j[name] : j[name][key] = BadValue

(* Mutant: a timeout of zero is let through. *)
RefusedNoTimeout(j) ==
  \/ Mistyped(j) \/ "gateway" \notin DOMAIN j
  \/ engine_port(j) \notin Ports
  \/ \E f \in Required : Value(Section(j, "gateway"), f, Empty) = Empty
  \/ zmq_connect_retries(j) < 1

(* from_file throws.  The tuning values are taken as they are. *)
Refused(j) ==
  \/ Mistyped(j) \/ "gateway" \notin DOMAIN j
  \/ engine_port(j) \notin Ports
  \/ reconnect_interval_secs(j) < 0 \/ static_data_timeout_secs(j) <= 0
  \/ \E f \in Required : Value(Section(j, "gateway"), f, Empty) = Empty
  \/ zmq_connect_retries(j) < 1 \/ zmq_connect_retry_interval_ms(j) < 0

from_file(j) ==
  [engine_port |-> engine_port(j),
   static_data_timeout_secs |-> static_data_timeout_secs(j),
   zmq_connect_retries |-> zmq_connect_retries(j),
   td_front |-> Value(Section(j, "gateway"), "td_front", Empty),
   shm_queue_name |-> Value(Section(j, "gateway"), "shm_queue_name", Empty),
   use_shared_memory |-> Value(Section(j, "gateway"), "use_shared_memory", FALSE),
   ring_buffer_capacity |-> Value(Section(j, "shm_tuning"), "ring_buffer_capacity", 65536),
   dispatch_batch_size |-> Value(Section(j, "shm_tuning"), "dispatch_batch_size", 64)]
=============================================================================
