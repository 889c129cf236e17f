SPECIFICATION Spec
CONSTANT Sizes <- StarvedSizes
PROPERTY StarvedReaderGoesOn
CHECK_DEADLOCK FALSE
