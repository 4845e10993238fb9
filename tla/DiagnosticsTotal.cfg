SPECIFICATION Spec
INVARIANT LabelTotal
