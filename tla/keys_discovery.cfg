SPECIFICATION Spec
CONSTANTS
    inst1 = inst1
    inst2 = inst2
    Instances <- MCInstances
    None = None
    Alphabet = {"a", "b"}
    MaxLen = 1
PROPERTY DiscoversAllInstances
