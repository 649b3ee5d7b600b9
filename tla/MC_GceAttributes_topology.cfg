\* A topology of four segments is published as block, sub-block and host.
SPECIFICATION Spec
INVARIANTS TopologyExactlyThree
