SPECIFICATION Spec
CONSTANTS Families <- CallBlocks
INVARIANTS SameEffect
