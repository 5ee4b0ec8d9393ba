-------------------------- MODULE MCSecureChannel --------------------------
EXTENDS SecureChannelProps

\* What steps and checked properties depend on: of the wire, what the client has
\* not read; of the server's IVs, not the previous one.
AheadView ==
  <<skey, siv, out, torn, part, cipher, phase, rotating, appended, drawn, crossed, status,
    SubSeq(wire, taken + 1, Len(wire)), ckey, civ, got, broken, up>>
=============================================================================
