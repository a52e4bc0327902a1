----------------------------- MODULE MCDevices -----------------------------
EXTENDS Devices

\* Three sectors across the 28-bit limit (Base^3 * Nibble = 16).
MCSectors == 14..16

MCPorts == 1..2

MCAttached ==
    {[kind |-> <<"keyboard", "keyboard">>, eval |-> <<FALSE, TRUE>>],
     [kind |-> <<"other", "keyboard">>, eval |-> <<TRUE, FALSE>>]}
=============================================================================
