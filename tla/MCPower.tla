------------------------------ MODULE MCPower ------------------------------
\* A PRF 64 and an SCP preamble code, and a sleep with and without the
\* configuration download.
EXTENDS Power

Rx == {9, 25}
Tx == {9}
Modes == {{}, {"CONFIG"}}
============================================================================
