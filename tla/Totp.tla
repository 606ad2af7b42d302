-------------------------------- MODULE Totp --------------------------------
(***************************************************************************)
(* One-time codes: totp.rs `code` from the HMAC on, and the two numbers    *)
(* `secret_totp` sends with a code.  The HMAC is any function of secret    *)
(* and counter to twenty bytes.                                            *)
(***************************************************************************)
EXTENDS Integers

Bytes == 0..255
U31 == 128 * 256 * 256 * 256
U32 == 2 * U31
Hashes == [0..19 -> Bytes]

\* RFC 4226's dynamic truncation; shifts of disjoint bits are a sum.
Offset(hs) == hs[19] % 16
Bin(hs) == (((hs[Offset(hs)] % 128) * 256 + hs[Offset(hs) + 1]) * 256
               + hs[Offset(hs) + 2]) * 256 + hs[Offset(hs) + 3]

\* 10u32.pow(digits), for the digits `code` accepts.
Modulo(digits) ==
    CASE digits = 1 -> 10
      [] digits = 2 -> 100
      [] digits = 3 -> 1000
      [] digits = 4 -> 1000 * 10
      [] digits = 5 -> 1000 * 100
      [] digits = 6 -> 1000 * 1000
      [] digits = 7 -> 1000 * 1000 * 10
      [] digits = 8 -> 1000 * 1000 * 100
      [] digits = 9 -> 1000 * 1000 * 1000
Code(hs, digits) == Bin(hs) % Modulo(digits)

Period == 30
Counter(now) == now \div Period
Remaining(now) == Period - (now % Period)
=============================================================================
