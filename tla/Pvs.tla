---------------------------------- MODULE Pvs ----------------------------------
(***************************************************************************)
(* The .pvs artifact: a 64-byte header and the archived configuration.  A   *)
(* payload is the configuration it archives, or something that archives     *)
(* none; the SHA-256 of a payload tells every two payloads apart.           *)
(***************************************************************************)
EXTENDS RuntimeConfig

CONSTANTS PayloadLen,          \* bytes of an archived configuration
          MAX_PAYLOAD_SIZE     \* 100 MB, scaled

PAVIS_MAGIC == "PAVS"
PAVIS_VERSION == 0
PAVIS_HASH_ALGORITHM_SHA256 == 1
HEADER_SIZE == 64

Garbage == [archive |-> FALSE]
Archive(config) == [archive |-> TRUE, config |-> config]
compute_checksum(payload) == <<"sha256", payload>>

encode(config) ==
    [len |-> HEADER_SIZE + PayloadLen, magic |-> PAVIS_MAGIC,
     version |-> PAVIS_VERSION, algorithm |-> PAVIS_HASH_ALGORITHM_SHA256,
     checksum |-> compute_checksum(Archive(config)), reserved |-> 0,
     payload |-> Archive(config)]

validate_header(file) ==
    /\ file.magic = PAVIS_MAGIC
    /\ file.version = PAVIS_VERSION
    /\ file.reserved = 0
    /\ file.algorithm = PAVIS_HASH_ALGORITHM_SHA256

(* Read back, a file has a bounded length, our header and its checksum.     *)
read_verified_file(file) ==
    /\ file.len >= HEADER_SIZE
    /\ file.len <= HEADER_SIZE + MAX_PAYLOAD_SIZE
    /\ validate_header(file)
    /\ compute_checksum(file.payload) = file.checksum

(* rkyv::access validates the archive before it is read.                    *)
load(file) == IF read_verified_file(file) /\ file.payload.archive
              THEN file.payload.config ELSE Err

(* What a damaged disk or an interrupted copy may leave of a file: one      *)
(* header field changed, the payload changed, bytes missing or appended.    *)
Damaged(file) ==
    {[file EXCEPT !.magic = "PAVX"], [file EXCEPT !.version = 1],
     [file EXCEPT !.algorithm = 0], [file EXCEPT !.reserved = 1],
     [file EXCEPT !.checksum = compute_checksum(Garbage)],
     [file EXCEPT !.payload = Garbage],
     [file EXCEPT !.payload.config.routes = <<>>],
     [file EXCEPT !.payload = Garbage, !.checksum = compute_checksum(Garbage)],
     [file EXCEPT !.payload = Garbage, !.len = @ - 1],
     [file EXCEPT !.payload = Garbage,
                  !.len = HEADER_SIZE + MAX_PAYLOAD_SIZE + 1],
     [file EXCEPT !.len = HEADER_SIZE - 1]}
==============================================================================
