---------------------------- MODULE MCModuleHost ----------------------------
(* An instance of ModuleHost: a complete document, one with every optional *)
(* section, and one document for each way to be refused.                   *)
EXTENDS ModuleHost

Complete ==
  [md_front |-> "tcp", broker_id |-> "b", user_id |-> "u", password |-> "p",
   dll_dir |-> "/d", underlyings |-> "SHFE"]

Doc(gateway) == [gateway |-> gateway]
With(key, v) == [k \in DOMAIN Complete \cup {key} |-> IF k = key THEN v ELSE Complete[k]]
Sections(e, t) == [engine |-> e, gateway |-> With("shm_queue_name", "file"), shm_tuning |-> t]

MCDocuments ==
  {Doc(Complete), Doc(With("td_front", "tcp")), Doc(With("use_shared_memory", FALSE)),
   Sections([port |-> 65535], [ring_buffer_capacity |-> 0]),
   Doc(With("user_id", BadValue)), [shm_tuning |-> [dispatch_batch_size |-> 1]],
   Sections([port |-> 0], [dispatch_batch_size |-> 0]), Doc(With("md_front", Empty)),
   Doc([k \in DOMAIN Complete \ {"dll_dir"} |-> Complete[k]]),
   Doc(With("static_data_timeout_secs", 0)), Doc(With("static_data_timeout_secs", 1)),
   Doc(With("reconnect_interval_secs", -1)), Doc(With("zmq_connect_retries", 0)),
   Doc(With("zmq_connect_retry_interval_ms", -1))}
=============================================================================
