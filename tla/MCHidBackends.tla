---------------------------- MODULE MCHidBackends ----------------------------
(***************************************************************************)
(* Constants for model-checking HidBackends: the devices that may be on    *)
(* the bus, and report descriptors made of every sequence of up to three   *)
(* groups of items.                                                        *)
(***************************************************************************)
EXTENDS HidBackends

Items == INSTANCE HidUsage

\* Two devices asked for, with a serial number and without, one of which has a
\* second interface that is not HID, and a device of another vendor.
MCUnits ==
  {[ids |-> "asked", serial |-> "A", interfaces |-> <<<<TRUE, TRUE>>, <<FALSE>>>>],
   [ids |-> "asked", serial |-> "", interfaces |-> <<<<FALSE, TRUE>>>>],
   [ids |-> "other", serial |-> "A", interfaces |-> <<<<TRUE>>, <<TRUE>>>>]}

MCUsual == <<Items!Page(1), Items!Usage(6), Items!Collection, Items!Input, Items!EndCollection>>
Groups ==
  {MCUsual,
   <<Items!PageAndUsage(12, 1), Items!Collection, Items!Usage(2), Items!Collection,
     Items!EndCollection, Items!EndCollection>>,
   <<Items!Page(255), Items!Usage(3), Items!LongItem, Items!Collection,
     Items!PageAndUsage(7, 5), Items!EndCollection>>,
   <<Items!Usage(4), Items!Collection, Items!EndCollection>>,
   <<Items!Page(2), Items!Usage(7)>>}
MCDescriptors ==
  {Items!FlattenSeq(groups) : groups \in UNION {[1..n -> Groups] : n \in 0..3}}
=============================================================================
