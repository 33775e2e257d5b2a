-------------------------- MODULE MCPrinterMonitor --------------------------
(* The monitor on small instances: the streams are interchangeable.        *)
EXTENDS PrinterMonitor, TLC

StreamSymmetry == Permutations(Streams)
=============================================================================
