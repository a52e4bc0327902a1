------------------------------- MODULE MCUsb -------------------------------
EXTENDS Usb

MCPorts == 1..2

MCAttached ==
    {[kind |-> <<"keyboard", "keyboard">>, eval |-> <<FALSE, TRUE>>],
     [kind |-> <<"other", "keyboard">>, eval |-> <<TRUE, FALSE>>]}
=============================================================================
