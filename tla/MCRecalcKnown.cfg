SPECIFICATION Spec
CONSTANTS
    Blocks <- SampleBlocks
    Required = {52, 5122}
PROPERTY
    RightHashIsSkipped
