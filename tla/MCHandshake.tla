----------------------------- MODULE MCHandshake -----------------------------
(***************************************************************************)
(* One caller, a device that prefers the other cipher, and one of a        *)
(* version that does not know one of the caller's.                         *)
(***************************************************************************)
EXTENDS Handshake

CONSTANTS a, b, x, c1

CallerOf == [c \in Conns |-> a]
CiphersOf == [d \in Devices |-> IF d = a THEN <<"xchacha20poly1305", "aes256gcm">>
                                ELSE IF d = b THEN <<"aes256gcm", "xchacha20poly1305">>
                                ELSE <<"aes256gcm">>]
=============================================================================
